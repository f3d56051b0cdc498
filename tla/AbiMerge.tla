------------------------------ MODULE AbiMerge ------------------------------
(***************************************************************************)
(* ABIMerger of tools/include/uosio/abimerge.hpp: two ABIs become one.     *)
(*                                                                         *)
(* An ABI is a set of objects for each section.  An object has an id (its  *)
(* name, new_type_name or id) and a def, all the rest of it: base and      *)
(* fields of a struct, the alternatives of a variant, one value elsewhere. *)
(* The order of objects within a section, which nothing reads, is left     *)
(* out, and so are the comment and the version.                            *)
(***************************************************************************)
EXTENDS SequencesExt

Sections == {"types", "structs", "actions", "tables", "ricardian_clauses", "variants"}

EmptyABI == [s \in Sections |-> {}]

struct_is_same(a, b) ==
  /\ Len(a.def.fields) = Len(b.def.fields)
  /\ ToSet(a.def.fields) \subseteq ToSet(b.def.fields)
  /\ a.id = b.id
  /\ a.def.base = b.def.base

variant_is_same(a, b) ==
  /\ ToSet(a.def) \subseteq ToSet(b.def)
  /\ a.id = b.id

\* type_is_same, action_is_same, table_is_same and clause_is_same compare all members.
IsSame(section, a, b) ==
  CASE section = "structs" -> struct_is_same(a, b)
    [] section = "variants" -> variant_is_same(a, b)
    [] OTHER -> a = b

\* add_object throws "already defined".
AlreadyDefined(section, a, b) ==
  \E x \in a, y \in b : x.id = y.id /\ ~IsSame(section, x, y)

\* Mutant: what is there already is pushed again.
add_object_again(a, b) == a \cup b

\* add_object otherwise: all of a, and what b alone has.
add_object(a, b) == a \cup {y \in b : \A x \in a : x.id # y.id}

MergeThrows(a, b) == \E s \in Sections : AlreadyDefined(s, a[s], b[s])
merge(a, b) == [s \in Sections |-> add_object(a[s], b[s])]
=============================================================================
