----------------------------- MODULE SyntaxTree -----------------------------
(***************************************************************************)
(* The type declarations and the type names of a program, and what the     *)
(* parser promises of them to the stages that walk the syntax tree.        *)
(*                                                                         *)
(* A program is [mspace, decls]; a declaration is a record with a kind.    *)
(* Messages and type declarations declare a type name; the fields of a     *)
(* message, the type of an external variable and the right-hand side of a  *)
(* type declaration mention one.                                           *)
(***************************************************************************)
EXTENDS LweTypes

DeclaresType(d) == d.kind \in {"msg", "typedef"}

TypeNames(ds) == {ds[i].name : i \in {j \in DOMAIN ds : DeclaresType(ds[j])}}

(* The type under at most one level of array.                              *)
Elem(t) == IF t.k = "array" THEN t.elem ELSE t

Mentioned(d) ==
  CASE d.kind = "msg"     -> {Elem(d.fields[i].type) : i \in DOMAIN d.fields}
    [] d.kind = "extern"  -> {Elem(d.type)}
    [] d.kind = "typedef" -> {Elem(d.impl)}
    [] OTHER              -> {}

(* No type name is declared twice.                                         *)
TypesUnique(ds) ==
  \A i, j \in DOMAIN ds :
    DeclaresType(ds[i]) /\ DeclaresType(ds[j]) /\ ds[i].name = ds[j].name => i = j

(* A struct is mentioned only after its declaration.                       *)
StructsBefore(ds) ==
  \A i \in DOMAIN ds : \A t \in Mentioned(ds[i]) :
    t.k = "struct" => \E j \in 1..i-1 : ds[j].kind = "msg" /\ ds[j].name = t.name

(* A type whose element, if it is a forward reference, is one without its  *)
(* resolution: how a type stands inside the resolution of another name.    *)
Shallow(t) == IF t.k = "array" /\ t.elem.k = "undef"
              THEN ArrayOf(Undef(t.elem.name, NilType))
              ELSE t

(* A forward reference is to a name that no message has and that was first *)
(* mentioned before its type declaration, if it has one; the declaration   *)
(* has resolved it.  (That mention may be under more than one array, where *)
(* Mentioned does not look.)                                               *)
ForwardResolved(ds) ==
  \A i \in DOMAIN ds : \A t \in Mentioned(ds[i]) :
    t.k = "undef" =>
      /\ \A j \in DOMAIN ds : DeclaresType(ds[j]) /\ ds[j].name = t.name =>
           /\ ds[j].kind = "typedef"
           /\ \E l \in 1..j : \E u \in Mentioned(ds[l]) : u = t \/ u.k = "array"
           /\ t.resolved = Shallow(ds[j].impl)
      /\ t.name \notin TypeNames(ds) => t.resolved = NilType

TypesResolved(ds) == TypesUnique(ds) /\ StructsBefore(ds) /\ ForwardResolved(ds)
=============================================================================
