----------------------------- MODULE ActionData -----------------------------
(***************************************************************************)
(* One action on its way from a contract that sends it to the handler of   *)
(* another: the arguments packed by action_wrapper or SEND_INLINE_ACTION,  *)
(* the bytes read back by one of the three ways into a handler, and the    *)
(* arguments a handler takes as ignore<T> and reads by itself.  The two    *)
(* contracts are compiled apart, so each may know fewer of the action's    *)
(* parameters than the other.                                              *)
(***************************************************************************)
EXTENDS Datastream

CONSTANTS Signatures,     \* the newest signatures: sequences of parameters
          Values,         \* for each type the values sent
          max_stack       \* bytes that go on the stack: 512

\* "non-ignore types can not succeed an ignore type in a method definition"
IgnoresLast(sig) ==
  \A i, j \in DOMAIN sig : i < j /\ sig[i].wrap = "ignore" => sig[j].wrap = "ignore"

ASSUME ActionDataAssumption ==
  /\ max_stack \in Nat
  /\ Signatures \subseteq Seq([wrap : {"plain", "extension", "ignore"}, type : Types])
  /\ \A sig \in Signatures : IgnoresLast(sig)
  /\ \A t \in Types : Values[t] \subseteq TypeValues(t)

VARIABLES
  phase,     \* how far the action is
  sender,    \* how it is sent, with which parameters, and their values
  data,      \* the packed arguments
  handler,   \* the way into the handler, and its parameters
  buffer,    \* where the way put the data, and what it gave to free()
  pos,       \* the cursor of its datastream
  args,      \* the arguments unpacked so far
  _ds,       \* the cursor of the contract's own datastream
  seen       \* the ignored arguments the handler has read from it

vars == <<phase, sender, data, handler, buffer, pos, args, _ds, seen>>

Empty == <<>>        \* a binary_extension without a value
Ignored == "ignored"

Versions(sig) == {SubSeq(sig, 1, n) : n \in 0 .. Len(sig)}

\* A binary_extension has a value or none.
ArgValues(p) ==
  IF p.wrap = "extension" THEN {Empty} \cup {<<v>> : v \in Values[p.type]} ELSE Values[p.type]

\* The arguments a caller may write for these parameters.
Calls(sig) ==
  LET Upto[n \in 0 .. Len(sig)] ==
        IF n = 0 THEN {<<>>}
        ELSE UNION {{Append(vals, v) : v \in ArgValues(sig[n])} : vals \in Upto[n - 1]}
  IN Upto[Len(sig)]

Nobody == [by |-> "none", sig |-> <<>>, vals |-> <<>>]
NoHandler == [way |-> "none", sig |-> <<>>]

Init ==
  /\ phase = "idle" /\ sender = Nobody /\ data = <<>>
  /\ handler = NoHandler /\ buffer = [at |-> "null", freed |-> "none"] /\ pos = 0
  /\ args = <<>> /\ _ds = 0 /\ seen = <<>>
-----------------------------------------------------------------------------
(***************************************************************************)
(* Sending.                                                                *)
(***************************************************************************)
\* operator<< of a binary_extension, of an ignore<T>, and of anything else.
\* action_wrapper packs a tuple with ignore<T> unwrapped to T; the tuple of
\* SEND_INLINE_ACTION keeps the ignore<T>, to which ignore_wrapper<T> converts.
pack_arg(by, p, v) ==
  CASE p.wrap = "plain" -> Write(p.type, v)
    [] p.wrap = "extension" -> Write(p.type, IF v = Empty THEN Default(p.type) ELSE v[1])
    [] p.wrap = "ignore" -> IF by = "action_wrapper" THEN Write(p.type, v) ELSE <<>>

pack(by, sig, vals) ==
  LET Bytes[i \in 0 .. Len(sig)] ==
        IF i = 0 THEN <<>> ELSE Bytes[i - 1] \o pack_arg(by, sig[i], vals[i])
  IN Bytes[Len(sig)]

\* to_action(...).send(), and dispatch_inline.
Send(by, sig, vals) ==
  /\ phase = "idle"
  /\ sender' = [by |-> by, sig |-> sig, vals |-> vals]
  /\ data' = pack(by, sig, vals)
  /\ phase' = "sent"
  /\ UNCHANGED <<handler, buffer, pos, args, _ds, seen>>
-----------------------------------------------------------------------------
(***************************************************************************)
(* The ways in: execute_action of UOSIO_DISPATCH, the generated function   *)
(* of the code generator, unpack_action_data of uosio::dispatch.           *)
(***************************************************************************)
Ways == {"execute_action", "generated", "unpack_action_data"}

\* The generated function compares with >= and the other two with <;
\* unpack_action_data asks alloca also for nothing.
Place(way, size) ==
  IF way = "generated"
  THEN IF size = 0 THEN "null" ELSE IF size >= max_stack THEN "heap" ELSE "stack"
  ELSE CASE size = 0 /\ way = "execute_action" -> "null"
         [] max_stack < size -> "heap"
         [] OTHER -> "stack"

Enter(way, sig) ==
  /\ phase = "sent"
  /\ handler' = [way |-> way, sig |-> sig]
  /\ buffer' = [buffer EXCEPT !.at = Place(way, Len(data))]
  /\ phase' = "unpack"
  /\ UNCHANGED <<sender, data, pos, args, _ds, seen>>

\* operator>> of a binary_extension, of an ignore<T>, and of anything else.
unpack_arg(p) ==
  CASE p.wrap = "plain" -> Read(p.type, data, pos)
    [] p.wrap = "extension" ->
         IF Len(data) - pos = 0 THEN Got(pos, Empty)
         ELSE LET v == Read(p.type, data, pos) IN IF v.ok THEN Got(v.pos, <<v.val>>) ELSE Fail
    [] p.wrap = "ignore" -> Got(pos, Ignored)

MoreArgs == Len(args) < Len(handler.sig)

\* ds >> the next argument.
Unpack ==
  /\ phase = "unpack" /\ MoreArgs
  /\ LET v == unpack_arg(handler.sig[Len(args) + 1])
     IN IF v.ok THEN args' = Append(args, v.val) /\ pos' = v.pos /\ UNCHANGED phase
                ELSE phase' = "aborted" /\ UNCHANGED <<args, pos>>
  /\ UNCHANGED <<sender, data, handler, buffer, _ds, seen>>

\* Mutant: the contract gets the datastream as it was before the arguments.
ConstructEarly ==
  /\ phase = "unpack" /\ ~MoreArgs
  /\ _ds' = 0
  /\ phase' = "handle"
  /\ UNCHANGED <<sender, data, handler, buffer, pos, args, seen>>

\* T inst(self, code, ds): the contract keeps a copy of the datastream.
Construct ==
  /\ phase = "unpack" /\ ~MoreArgs
  /\ _ds' = pos
  /\ phase' = "handle"
  /\ UNCHANGED <<sender, data, handler, buffer, pos, args, seen>>
-----------------------------------------------------------------------------
(***************************************************************************)
(* The handler.  It reads what it ignored in order, as far as it likes;    *)
(* uosio::dispatch gives it no datastream.                                 *)
(***************************************************************************)
IgnoredParams(sig) == {i \in DOMAIN sig : sig[i].wrap = "ignore"}

\* get_datastream() >> some_type
ReadIgnored ==
  /\ phase = "handle" /\ handler.way # "unpack_action_data"
  /\ \E i \in IgnoredParams(handler.sig) :
       /\ Cardinality({j \in IgnoredParams(handler.sig) : j < i}) = Len(seen)
       /\ LET v == Read(handler.sig[i].type, data, _ds)
          IN IF v.ok THEN seen' = Append(seen, [at |-> i, val |-> v.val]) /\ _ds' = v.pos
                          /\ UNCHANGED phase
                     ELSE phase' = "aborted" /\ UNCHANGED <<seen, _ds>>
  /\ UNCHANGED <<sender, data, handler, buffer, pos, args>>

\* Only execute_action frees.
Released(way, at, size) ==
  IF way = "execute_action" /\ max_stack < size THEN at ELSE "none"

Return ==
  /\ phase = "handle"
  /\ buffer' = [buffer EXCEPT !.freed = Released(handler.way, buffer.at, Len(data))]
  /\ phase' = "done"
  /\ UNCHANGED <<sender, data, handler, pos, args, _ds, seen>>

Next ==
  \/ \E sig \in UNION {Versions(s) : s \in Signatures}, by \in {"action_wrapper", "inline"} :
       \E vals \in Calls(sig) : Send(by, sig, vals)
  \/ \E s \in Signatures, way \in Ways : \E sig \in Versions(s) :
       /\ sender.sig \in Versions(s)
       /\ Enter(way, sig)
  \/ Unpack \/ Construct \/ ReadIgnored \/ Return

Spec == Init /\ [][Next]_vars
-----------------------------------------------------------------------------
(***************************************************************************)
(* Properties.                                                             *)
(***************************************************************************)
Known == Len(sender.sig)    \* the parameters the sender knew

\* Types; both cursors stay inside the data, and what a way gives to free() is
\* a buffer that it took from malloc.
TypeOK ==
  /\ phase \in {"idle", "sent", "unpack", "handle", "done", "aborted"}
  /\ data \in Seq(0 .. Byte - 1)
  /\ \/ buffer \in [at : {"null", "stack", "heap"}, freed : {"none"}]
     \/ buffer = [at |-> "heap", freed |-> "heap"]
  /\ Len(args) <= Len(handler.sig)
  /\ pos \in 0 .. Len(data) /\ _ds \in 0 .. Len(data)
  /\ Len(seen) <= Cardinality(IgnoredParams(handler.sig))

\* A handler runs only with the arguments that were sent.  Those both sides
\* know arrive, an empty extension as its default value; one that only the
\* handler knows is an extension without a value, and any other missing
\* argument has stopped the action before the handler ran.  The contract's
\* datastream starts where the unpacked arguments end, so that what the handler
\* reads for an ignored parameter is what was sent for it.
ArgsAsSent ==
  /\ phase \in {"handle", "done"} =>
       \A i \in DOMAIN handler.sig \ IgnoredParams(handler.sig) :
         IF i > Known THEN handler.sig[i].wrap = "extension" /\ args[i] = Empty
         ELSE args[i] = IF handler.sig[i].wrap = "extension" /\ sender.vals[i] = Empty
                        THEN <<Default(handler.sig[i].type)>> ELSE sender.vals[i]
  /\ \A k \in DOMAIN seen : seen[k].at <= Known /\ seen[k].val = sender.vals[seen[k].at]

Complete == Len(handler.sig) <= Known

\* Nothing but a missing argument stops an action: sizes counted by pack and
\* the bytes each read asks for agree, up to the last byte.  The exception is
\* an ignored parameter sent by SEND_INLINE_ACTION.
CompleteCallSucceeds ==
  phase = "aborted" /\ Complete => sender.by = "inline" /\ IgnoredParams(handler.sig) # {}

\* "This allows for calling SEND_INLINE_ACTION with ignore_wrapper(some_value)
\* against an action with an ignore of matching types": the value reaches the
\* handler, which reads it.
WrappedValueArrives == phase = "aborted" => ~Complete
=============================================================================
