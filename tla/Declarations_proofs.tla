------------------------ MODULE Declarations_proofs ------------------------
(***************************************************************************)
(* Theorems about the declarations of the parser, for every set of files,  *)
(* programs and any other text among them.                                 *)
(***************************************************************************)
EXTENDS Declarations, LweTypes_proofs

LEMMA PutFacts ==
  ASSUME NEW f, NEW n, NEW x
  PROVE  /\ DOMAIN Put(f, n, x) = DOMAIN f \cup {n}
         /\ Put(f, n, x)[n] = x
         /\ \A y \in DOMAIN f : y # n => Put(f, n, x)[y] = f[y]
  BY DEF Put

LEMMA KeptPut == ASSUME NEW f, NEW n, NEW x, n \notin DOMAIN f PROVE Kept(f, Put(f, n, x))
<1> DEFINE g == Put(f, n, x)
<1>1. DOMAIN g = DOMAIN f \cup {n} /\ \A y \in DOMAIN f : y # n => g[y] = f[y]
  BY DEF Put
<1> HIDE DEF g
<1>2. Kept(f, g)
  BY <1>1 DEF Kept
<1> QED
  BY <1>2 DEF g

LEMMA KeptSelf == ASSUME NEW f PROVE Kept(f, f)
  BY DEF Kept

LEMMA KeptTrans == ASSUME NEW f, NEW g, NEW h, Kept(f, g), Kept(g, h) PROVE Kept(f, h)
  BY DEF Kept

(* type_spec only adds to the map.                                         *)
LEMMA MappedKeeps == ASSUME NEW i PROVE Kept(tpMap, Mapped(i))
  BY KeptPut, KeptSelf DEF Mapped

LEMMA PanicStops == Panic => Stop("panic")
  BY DEF Panic
-----------------------------------------------------------------------------
(* The two maps, action by action.                                         *)
LEMMA MapsKept == [Next]_vars => Kept(tpMap, tpMap') /\ Kept(resolved, resolved')
<1> SUFFICES ASSUME [Next]_vars PROVE Kept(tpMap, tpMap') /\ Kept(resolved, resolved')
  OBVIOUS
<1> DEFINE Goal == Kept(tpMap, tpMap') /\ Kept(resolved, resolved')
<1>s. ASSUME UNCHANGED <<tpMap, resolved>> PROVE Goal
  BY <1>s, KeptSelf
<1>m. ASSUME NEW i, tpMap' = Mapped(i), UNCHANGED resolved PROVE Goal
  BY <1>m, MappedKeeps, KeptSelf
<1>1. CASE DefineType
  <2> DEFINE n == Tok(pos + 1).v
  <2>1. /\ n \notin DOMAIN Mapped(pos + 2) /\ UNCHANGED resolved
        /\ tpMap' = Put(Mapped(pos + 2), n, TypeAt(pos + 2))
    BY <1>1 DEF DefineType
  <2>2. Kept(Mapped(pos + 2), tpMap')
    BY <2>1, KeptPut
  <2> QED
    BY <2>1, <2>2, MappedKeeps, KeptTrans, KeptSelf
<1>2. CASE ResolveType
  <2> DEFINE n == Tok(pos + 1).v
  <2>1. /\ n \notin DOMAIN resolved /\ tpMap' = Mapped(pos + 2)
        /\ resolved' = Put(resolved, n, TypeAt(pos + 2))
    BY <1>2 DEF ResolveType, Unresolved
  <2> QED
    BY <2>1, MappedKeeps, KeptPut
<1>3. CASE LeaveMsg
  BY <1>3, KeptPut, KeptSelf DEF LeaveMsg, Close, Fresh
<1>4. CASE Field
  <2>1. tpMap' = Mapped(pos + 1) /\ UNCHANGED resolved
    BY <1>4 DEF Field
  <2> QED
    BY <2>1, <1>m
<1>5. CASE Extern
  <2>1. tpMap' = Mapped(pos + 2) /\ UNCHANGED resolved
    BY <1>5 DEF Extern
  <2> QED
    BY <2>1, <1>m
<1>6. CASE Mspace \/ ConstDecl \/ Comment \/ Bind \/ LeaveGroup \/ Done
  <2>1. UNCHANGED <<tpMap, resolved>>
    BY <1>6 DEF Mspace, ConstDecl, Comment, Bind, LeaveGroup, Close, Done, KeepTypes, Stop
  <2> QED
    BY <2>1, <1>s
<1>7. CASE EnterGroup \/ FirstItem \/ NextItem \/ NotedItem \/ TrailingComma \/ EnterMsg \/ Note
  <2>1. UNCHANGED <<tpMap, resolved>>
    BY <1>7 DEF EnterGroup, FirstItem, NextItem, NotedItem, TrailingComma, EnterMsg, Note, Turn
  <2> QED
    BY <2>1, <1>s
<1>8. CASE LimitBy \/ AtMost \/ EqualTo \/ XorWith \/ ExistIf \/ EndField
  <2>1. UNCHANGED <<tpMap, resolved>>
    BY <1>8 DEF LimitBy, AtMost, EqualTo, XorWith, ExistIf, EndField, Described, Turn
  <2> QED
    BY <2>1, <1>s
<1>9. CASE Panic
  BY <1>9, PanicStops, <1>s DEF Stop
<1>10. CASE UNCHANGED vars
  BY <1>10, <1>s DEF vars
<1> QED
  BY <1>1, <1>2, <1>3, <1>4, <1>5, <1>6, <1>7, <1>8, <1>9, <1>10 DEF Next, Turns

(* The type map of the parser only grows, whatever the text: a node handed *)
(* out for a name is never exchanged, nor is the resolution of a forward   *)
(* reference (declarations, type_def and type_spec).                       *)
THEOREM MapOnlyGrows == Spec => TypesKept
<1>1. [Next]_vars => [Kept(tpMap, tpMap') /\ Kept(resolved, resolved')]_vars
  BY MapsKept
<1> QED
  BY <1>1, PTL DEF Spec, TypesKept
-----------------------------------------------------------------------------
(* No type is declared twice.  The inductive invariant: a declared name is *)
(* in the map and not a forward reference still to be resolved, and a      *)
(* forward reference in the map is to a name that is in it too.            *)
Settled(map, res, n) == n \in DOMAIN map /\ (n \in DOMAIN res \/ map[n] # Undef(n, NilType))

Known(map) == \A n \in DOMAIN map : map[n].k = "undef" => map[n].name \in DOMAIN map

OpenInv == /\ at # "top" => {"kind", "name"} \subseteq DOMAIN open
           /\ at \in {"notes", "items"} => open.kind = "group"

DeclInv(ds, map, res) ==
  /\ Len(ds) \in Nat /\ DOMAIN ds = 1..Len(ds)
  /\ \A i \in DOMAIN ds : "kind" \in DOMAIN ds[i]
  /\ \A i \in DOMAIN ds : DeclaresType(ds[i]) => "name" \in DOMAIN ds[i] /\ Settled(map, res, ds[i].name)
  /\ TypesUnique(ds)

DInv == Known(tpMap) /\ OpenInv /\ DeclInv(decls, tpMap, resolved)

LEMMA SettledStays ==
  ASSUME NEW map, NEW map2, NEW res, NEW res2, Kept(map, map2), Kept(res, res2),
         NEW n, Settled(map, res, n)
  PROVE  Settled(map2, res2, n)
  BY DEF Settled, Kept

LEMMA DeclInvStays ==
  ASSUME NEW ds, NEW map, NEW map2, NEW res, NEW res2, Kept(map, map2), Kept(res, res2),
         DeclInv(ds, map, res)
  PROVE  DeclInv(ds, map2, res2)
  BY SettledStays DEF DeclInv

LEMMA DeclAppended ==
  ASSUME NEW ds, NEW d, NEW map, NEW map2, NEW res, NEW res2, Kept(map, map2), Kept(res, res2),
         DeclInv(ds, map, res), "kind" \in DOMAIN d,
         DeclaresType(d) => /\ "name" \in DOMAIN d /\ Settled(map2, res2, d.name)
                            /\ ~Settled(map, res, d.name)
  PROVE  DeclInv(Append(ds, d), map2, res2)
<1> DEFINE es == Append(ds, d)
           n == Len(ds)
<1>1. /\ n \in Nat /\ DOMAIN ds = 1..n /\ Len(es) = n + 1 /\ DOMAIN es = 1..n + 1
      /\ \A i \in 1..n : es[i] = ds[i]
      /\ es[n + 1] = d
  BY DEF DeclInv
<1> HIDE DEF es, n
<1>2. DeclInv(ds, map2, res2)
  BY DeclInvStays
<1>3. \A i \in 1..n : DeclaresType(ds[i]) => Settled(map, res, ds[i].name)
  BY <1>1 DEF DeclInv
<1>4. \A i \in DOMAIN es : "kind" \in DOMAIN es[i]
  BY <1>1, <1>2 DEF DeclInv
<1>5. \A i \in DOMAIN es : DeclaresType(es[i]) => "name" \in DOMAIN es[i] /\ Settled(map2, res2, es[i].name)
  BY <1>1, <1>2 DEF DeclInv
<1>6. TypesUnique(es)
  <2> SUFFICES ASSUME NEW i \in 1..n + 1, NEW j \in 1..n + 1,
                      DeclaresType(es[i]), DeclaresType(es[j]), es[i].name = es[j].name
               PROVE  i = j
    BY <1>1 DEF TypesUnique
  <2>1. CASE i \in 1..n /\ j \in 1..n
    BY <1>1, <1>2, <2>1 DEF DeclInv, TypesUnique
  <2>2. CASE i = n + 1 /\ j \in 1..n
    BY <1>1, <1>3, <2>2
  <2>3. CASE j = n + 1 /\ i \in 1..n
    BY <1>1, <1>3, <2>3
  <2> QED
    BY <1>1, <2>1, <2>2, <2>3
<1> QED
  BY <1>1, <1>4, <1>5, <1>6 DEF DeclInv, es

LEMMA KnownPut ==
  ASSUME NEW f, NEW n, NEW x, Known(f), n \notin DOMAIN f,
         x.k = "undef" => x.name \in DOMAIN f \cup {n}
  PROVE  Known(Put(f, n, x))
<1> DEFINE g == Put(f, n, x)
<1>1. /\ DOMAIN g = DOMAIN f \cup {n} /\ g[n] = x
      /\ \A y \in DOMAIN f : y # n => g[y] = f[y]
  BY PutFacts
<1> HIDE DEF g
<1>2. Known(g)
  BY <1>1 DEF Known
<1> QED
  BY <1>2 DEF g

LEMMA KnownMapped == ASSUME NEW i, Known(tpMap) PROVE Known(Mapped(i))
<1> DEFINE v == Base(i).v
           x == Undef(v, NilType)
<1>1. x.name = v
  BY DEF Undef
<1> HIDE DEF x, v
<1>2. CASE Base(i).t = "ID" /\ v \notin DOMAIN tpMap
  <2>1. Known(Put(tpMap, v, x))
    BY <1>1, <1>2, KnownPut
  <2> QED
    BY <1>2, <2>1 DEF Mapped, x, v
<1>3. CASE ~(Base(i).t = "ID" /\ v \notin DOMAIN tpMap)
  BY <1>3 DEF Mapped, v
<1> QED
  BY <1>2, <1>3

-----------------------------------------------------------------------------
(* Where the parser reads: a token from the first on, so that a chain of   *)
(* words ends with the file.                                               *)
PInv == IsSequence(text) /\ pos \in Nat \ {0}

LEMMA ChainEnds ==
  ASSUME IsSequence(text), NEW words, words \subseteq DOMAIN text, NEW i \in Nat \ {0}
  PROVE  /\ Chain(words, i) \in 0..Len(text)
         /\ i + 2 * Chain(words, i) \notin words
         /\ \A j \in 0..Chain(words, i) - 1 : i + 2 * j \in words
<1> DEFINE n == Len(text)
           ChainIs(k) == i + 2 * k \notin words /\ \A j \in 0..k - 1 : i + 2 * j \in words
           T == {k \in Nat : \A j \in 0..k - 1 : i + 2 * j \in words}
<1>1. n \in Nat /\ DOMAIN text = 1..n
  BY DEF IsSequence
<1> HIDE DEF n
<1>2. i + 2 * n \notin words
  BY <1>1
<1>3. \E k \in 0..n : ChainIs(k)
  <2>1. SUFFICES ASSUME \A k \in 0..n : ~ChainIs(k) PROVE FALSE
    OBVIOUS
  <2>2. 0 \in T
    OBVIOUS
  <2>3. ASSUME NEW k \in Nat, k \in T PROVE k + 1 \in T
    <3>1. k \in 0..n
      BY <1>1, <1>2, <2>3
    <3>2. i + 2 * k \in words
      BY <2>1, <2>3, <3>1
    <3> QED
      BY <2>3, <3>2
  <2> HIDE DEF T
  <2>4. n + 1 \in T
    BY <1>1, <2>2, <2>3, SetInduction
  <2> QED
    BY <1>1, <1>2, <2>4 DEF T
<1>4. Chain(words, i) = CHOOSE k \in 0..n : ChainIs(k)
  BY DEF Chain, n
<1> HIDE DEF ChainIs
<1>5. Chain(words, i) \in 0..n /\ ChainIs(Chain(words, i))
  BY <1>3, <1>4
<1> QED
  BY <1>5 DEF n, ChainIs

LEMMA BracketsNat == ASSUME IsSequence(text), NEW i \in Nat \ {0} PROVE Brackets(i) \in Nat
<1>1. Pairs \subseteq DOMAIN text
  BY DEF Pairs
<1>2. Brackets(i) \in 0..Len(text)
  BY <1>1, ChainEnds DEF Brackets
<1> QED
  BY <1>2 DEF IsSequence

LEMMA ExprLenNat == ASSUME IsSequence(text), NEW i \in Nat \ {0} PROVE ExprLen(i) \in Nat
<1>1. Equals \subseteq DOMAIN text
  BY DEF Equals
<1>2. Chain(Equals, i + 1) \in 0..Len(text)
  BY <1>1, ChainEnds
<1> QED
  BY <1>2 DEF ExprLen, IsSequence

(* The type under the arrays: the type of a name, an array of it, or an    *)
(* array of arrays.                                                        *)
LEMMA NestDefined ==
  ASSUME NEW b, NEW n \in Nat
  PROVE  \E f : f = [k \in 0..n |-> IF k = 0 THEN b ELSE ArrayOf(f[k - 1])]
<1> DEFINE Nest(m, f) == f = [k \in 0..m |-> IF k = 0 THEN b ELSE ArrayOf(f[k - 1])]
           T == {m \in Nat : \E f : Nest(m, f)}
<1>1. 0 \in T
  <2>1. Nest(0, [k \in 0..0 |-> b])
    OBVIOUS
  <2> QED
    BY <2>1
<1>2. ASSUME NEW m \in Nat, m \in T PROVE m + 1 \in T
  <2>1. PICK f : Nest(m, f)
    BY <1>2
  <2> DEFINE g == [k \in 0..m + 1 |-> IF k = m + 1 THEN ArrayOf(f[m]) ELSE f[k]]
  <2>2. ASSUME NEW k \in 0..m + 1 PROVE g[k] = IF k = 0 THEN b ELSE ArrayOf(g[k - 1])
    <3>1. CASE k = m + 1
      BY <3>1
    <3>2. CASE k \in 0..m
      <4>1. g[k] = f[k] /\ (k # 0 => g[k - 1] = f[k - 1])
        BY <3>2
      <4>2. f[k] = IF k = 0 THEN b ELSE ArrayOf(f[k - 1])
        BY <2>1, <3>2
      <4> QED
        BY <4>1, <4>2
    <3> QED
      BY <3>1, <3>2
  <2>3. Nest(m + 1, g)
    BY <2>2
  <2> HIDE DEF Nest, g
  <2>4. \E h : Nest(m + 1, h)
    BY <2>3
  <2> QED
    BY <2>4
<1> HIDE DEF T
<1>3. n \in T
  BY <1>1, <1>2, SetInduction
<1> QED
  BY <1>3 DEF T

LEMMA TypeAtForm ==
  ASSUME IsSequence(text), NEW i \in Nat \ {0}
  PROVE  \/ TypeAt(i) = BaseType(i)
         \/ TypeAt(i) = ArrayOf(BaseType(i))
         \/ \E t : TypeAt(i) = ArrayOf(ArrayOf(t))
<1> DEFINE b == BaseType(i)
           n == Brackets(i)
           f == CHOOSE f : f = [k \in 0..n |-> IF k = 0 THEN b ELSE ArrayOf(f[k - 1])]
<1>1. n \in Nat
  BY BracketsNat
<1>2. TypeAt(i) = f[n]
  BY DEF TypeAt
<1> HIDE DEF b, n
<1>3. f = [k \in 0..n |-> IF k = 0 THEN b ELSE ArrayOf(f[k - 1])]
  BY <1>1, NestDefined
<1> HIDE DEF f
<1>4. \A k \in 0..n : f[k] = IF k = 0 THEN b ELSE ArrayOf(f[k - 1])
  BY <1>3
<1>5. CASE n = 0
  BY <1>1, <1>2, <1>4, <1>5 DEF b
<1>6. CASE n = 1
  <2>1. f[1] = ArrayOf(f[0]) /\ f[0] = b
    BY <1>4, <1>6
  <2> QED
    BY <1>2, <1>6, <2>1 DEF b
<1>7. CASE n > 1
  <2>1. n \in 0..n /\ n - 1 \in 0..n /\ n # 0 /\ n - 1 # 0
    BY <1>1, <1>7
  <2>2. f[n] = ArrayOf(f[n - 1]) /\ f[n - 1] = ArrayOf(f[n - 1 - 1])
    BY <1>4, <2>1
  <2> QED
    BY <1>2, <2>2
<1> QED
  BY <1>1, <1>5, <1>6, <1>7

(* A type that is a forward reference is one to a name in the map.         *)
LEMMA TypeAtKnown ==
  ASSUME IsSequence(text), NEW i \in Nat \ {0}, Known(tpMap), IsSpec(i), TypeAt(i).k = "undef"
  PROVE  TypeAt(i).name \in DOMAIN Mapped(i)
<1>1. TypeAt(i) = BaseType(i)
  BY TypeAtForm DEF ArrayOf
<1>2. Base(i).t # "PRIM" /\ TypeAt(i) = NamedType(Base(i).v)
  BY <1>1 DEF BaseType, Prim
<1>3. Base(i).t = "ID"
  BY <1>2 DEF IsSpec
<1>4. CASE Base(i).v \in DOMAIN tpMap
  <2>1. TypeAt(i).name \in DOMAIN tpMap
    BY <1>2, <1>4 DEF NamedType, Known
  <2> QED
    BY <2>1, MappedKeeps DEF Kept
<1>5. CASE Base(i).v \notin DOMAIN tpMap
  <2>1. TypeAt(i).name = Base(i).v
    BY <1>2, <1>5 DEF NamedType, Undef
  <2> QED
    BY <1>3, <1>5, <2>1 DEF Mapped, Put
<1> QED
  BY <1>4, <1>5

-----------------------------------------------------------------------------
(* The steps, by their form.                                               *)

(* A declaration that declares no type.                                    *)
LEMMA PlainDeclared ==
  ASSUME DInv, NEW d, "kind" \in DOMAIN d, ~DeclaresType(d),
         decls' = Append(decls, d),
         Kept(tpMap, tpMap'), Known(tpMap'), Kept(resolved, resolved'), OpenInv'
  PROVE  DInv'
<1>1. DeclInv(Append(decls, d), tpMap', resolved')
  BY DeclAppended DEF DInv
<1> QED
  BY <1>1 DEF DInv

(* A declaration of a type that was not settled and is now.                *)
LEMMA TypeDeclared ==
  ASSUME DInv, NEW d, {"kind", "name"} \subseteq DOMAIN d,
         ~Settled(tpMap, resolved, d.name), Settled(tpMap', resolved', d.name),
         decls' = Append(decls, d),
         Kept(tpMap, tpMap'), Known(tpMap'), Kept(resolved, resolved'), OpenInv'
  PROVE  DInv'
<1>1. DeclInv(Append(decls, d), tpMap', resolved')
  BY DeclAppended DEF DInv
<1> QED
  BY <1>1 DEF DInv

(* No declaration.                                                         *)
LEMMA NothingDeclared ==
  ASSUME DInv, UNCHANGED decls,
         Kept(tpMap, tpMap'), Known(tpMap'), UNCHANGED resolved, OpenInv'
  PROVE  DInv'
<1>1. DeclInv(decls, tpMap', resolved')
  BY DeclInvStays, KeptSelf DEF DInv
<1> QED
  BY <1>1 DEF DInv

LEMMA TurnInv ==
  ASSUME DInv, NEW where, NEW what, NEW next, Turn(where, what, next),
         where # "top" => {"kind", "name"} \subseteq DOMAIN what,
         where \in {"notes", "items"} => what.kind = "group"
  PROVE  DInv'
<1>1. at' = where /\ open' = what /\ UNCHANGED <<decls, tpMap, resolved>>
  BY DEF Turn
<1>2. OpenInv'
  BY <1>1 DEF OpenInv
<1> QED
  BY <1>1, <1>2, NothingDeclared, KeptSelf DEF DInv

(* Declarations, one step per action.                                      *)
LEMMA TopInv ==
  ASSUME DInv, PInv, \/ Mspace \/ ConstDecl \/ Comment \/ Extern \/ Bind \/ DefineType \/ ResolveType
  PROVE  DInv'
<1>o. ASSUME AtTop, UNCHANGED <<at, open>> PROVE OpenInv'
  BY <1>o DEF AtTop, OpenInv
<1>k. Known(tpMap) /\ Known(Mapped(pos + 2)) /\ Kept(tpMap, tpMap) /\ Kept(resolved, resolved)
  BY KnownMapped, KeptSelf DEF DInv
<1>1. CASE Mspace
  <2>1. UNCHANGED <<decls, tpMap, resolved, at, open>> /\ AtTop
    BY <1>1 DEF Mspace
  <2> QED
    BY <2>1, <1>o, <1>k, NothingDeclared
<1>2. CASE ConstDecl
  <2> DEFINE d == [kind |-> "const", name |-> Tok(pos + 1).v,
                   val |-> Operands(pos + 2, ExprLen(pos + 2))]
  <2>1. UNCHANGED <<tpMap, resolved, at, open>> /\ AtTop /\ decls' = Append(decls, d)
    BY <1>2 DEF ConstDecl, Declare, KeepTypes
  <2>2. "kind" \in DOMAIN d /\ ~DeclaresType(d)
    BY DEF DeclaresType
  <2> HIDE DEF d
  <2> QED
    BY <2>1, <2>2, <1>o, <1>k, PlainDeclared
<1>3. CASE Comment
  <2> DEFINE d == [kind |-> "comment", value |-> Tok(pos).v]
  <2>1. UNCHANGED <<tpMap, resolved, at, open>> /\ AtTop /\ decls' = Append(decls, d)
    BY <1>3 DEF Comment, Declare, KeepTypes
  <2>2. "kind" \in DOMAIN d /\ ~DeclaresType(d)
    BY DEF DeclaresType
  <2> HIDE DEF d
  <2> QED
    BY <2>1, <2>2, <1>o, <1>k, PlainDeclared
<1>4. CASE Extern
  <2> DEFINE d == [kind |-> "extern", name |-> Tok(pos + 1).v, type |-> TypeAt(pos + 2)]
  <2>1. /\ UNCHANGED <<resolved, at, open>> /\ AtTop /\ decls' = Append(decls, d)
        /\ tpMap' = Mapped(pos + 2)
    BY <1>4 DEF Extern, Declare
  <2>2. "kind" \in DOMAIN d /\ ~DeclaresType(d)
    BY DEF DeclaresType
  <2>3. Kept(tpMap, tpMap') /\ Known(tpMap')
    BY <2>1, <1>k, MappedKeeps
  <2> HIDE DEF d
  <2> QED
    BY <2>1, <2>2, <2>3, <1>o, <1>k, PlainDeclared
<1>5. CASE Bind
  <2> DEFINE d == [kind |-> "bind", msgId |-> Tok(pos + 1).v,
                   msgName |-> IF Is(pos + 2, "NIL") THEN NoName ELSE Tok(pos + 2).v]
  <2>1. UNCHANGED <<tpMap, resolved, at, open>> /\ AtTop /\ decls' = Append(decls, d)
    BY <1>5 DEF Bind, Declare, KeepTypes
  <2>2. "kind" \in DOMAIN d /\ ~DeclaresType(d)
    BY DEF DeclaresType
  <2> HIDE DEF d
  <2> QED
    BY <2>1, <2>2, <1>o, <1>k, PlainDeclared
<1> DEFINE n == Tok(pos + 1).v
           tp == TypeAt(pos + 2)
           map == Mapped(pos + 2)
           d == [kind |-> "typedef", name |-> n, impl |-> tp]
<1>d. {"kind", "name"} \subseteq DOMAIN d /\ d.name = n
  OBVIOUS
<1>6. CASE DefineType
  <2>1. /\ AtTop /\ IsSpec(pos + 2) /\ UNCHANGED <<at, open, resolved>>
        /\ n \notin DOMAIN map /\ decls' = Append(decls, d) /\ tpMap' = Put(map, n, tp)
    BY <1>6 DEF DefineType, AtTypeDef, TypeDef, Declare
  <2>2. tp.k = "undef" => tp.name \in DOMAIN map
    BY <2>1, <1>k, TypeAtKnown DEF PInv
  <2>3. Kept(tpMap, map) /\ Known(map)
    BY <1>k, MappedKeeps
  <2>4. Undef(n, NilType).k = "undef" /\ Undef(n, NilType).name = n
    BY DEF Undef
  <2> HIDE DEF n, tp, map, d
  <2>5. tpMap' = Put(map, n, tp) /\ n \in DOMAIN tpMap' /\ tpMap'[n] = tp
    BY <2>1 DEF Put
  <2>6. Kept(tpMap, tpMap')
    BY <2>1, <2>3, KeptPut, KeptTrans
  <2>7. Known(tpMap')
    BY <2>1, <2>2, <2>3, KnownPut
  <2>8. ~Settled(tpMap, resolved, n)
    BY <2>1, <2>3 DEF Settled, Kept
  <2>9. Settled(tpMap', resolved', n)
    BY <2>1, <2>2, <2>4, <2>5 DEF Settled
  <2> QED
    BY <1>d, <1>k, <1>o, <2>1, <2>6, <2>7, <2>8, <2>9, TypeDeclared
<1>7. CASE ResolveType
  <2>1. /\ AtTop /\ UNCHANGED <<at, open>>
        /\ n \in DOMAIN map /\ map[n] = Undef(n, NilType) /\ n \notin DOMAIN resolved
        /\ decls' = Append(decls, d) /\ tpMap' = map /\ resolved' = Put(resolved, n, tp)
    BY <1>7 DEF ResolveType, Unresolved, AtTypeDef, TypeDef, Declare
  <2>3. Kept(tpMap, map) /\ Known(map)
    BY <1>k, MappedKeeps
  <2> HIDE DEF n, tp, map, d
  <2>4. n \in DOMAIN resolved'
    BY <2>1 DEF Put
  <2>5. Kept(resolved, resolved')
    BY <2>1, KeptPut
  <2>6. ~Settled(tpMap, resolved, n)
    BY <2>1, <2>3 DEF Settled, Kept
  <2>7. Settled(tpMap', resolved', n)
    BY <2>1, <2>4 DEF Settled
  <2> QED
    BY <1>d, <1>k, <1>o, <2>1, <2>3, <2>5, <2>6, <2>7, TypeDeclared
<1> QED
  BY <1>1, <1>2, <1>3, <1>4, <1>5, <1>6, <1>7

(* The items of a group.                                                   *)
LEMMA GroupInv ==
  ASSUME DInv, \/ EnterGroup \/ FirstItem \/ NextItem \/ NotedItem \/ TrailingComma \/ Note
               \/ LeaveGroup
  PROVE  DInv'
<1>1. CASE EnterGroup
  <2> DEFINE d == [kind |-> "group", name |-> Tok(pos + 1).v,
                   isMsgId |-> Is(pos, "DEFMID"), items |-> <<>>, notes |-> <<>>]
  <2>1. Turn("notes", d, pos + 3)
    BY <1>1 DEF EnterGroup
  <2>2. {"kind", "name"} \subseteq DOMAIN d /\ d.kind = "group"
    OBVIOUS
  <2> HIDE DEF d
  <2> QED
    BY <2>1, <2>2, TurnInv
<1>2. CASE FirstItem
  <2>1. at = "notes" /\ Turn("items", WithItem(open, pos), pos + ItemLen(pos))
    BY <1>2 DEF FirstItem
  <2> DEFINE e == WithItem(open, pos)
  <2>2. DOMAIN e = DOMAIN open /\ ("kind" \in DOMAIN open => e.kind = open.kind)
    BY DEF WithItem
  <2> HIDE DEF e
  <2> QED
    BY <2>1, <2>2, TurnInv DEF DInv, OpenInv, e
<1>3. CASE NextItem
  <2>1. at = "items" /\ Turn("items", WithItem(open, pos + 1), pos + 1 + ItemLen(pos + 1))
    BY <1>3 DEF NextItem
  <2> DEFINE e == WithItem(open, pos + 1)
  <2>2. DOMAIN e = DOMAIN open /\ ("kind" \in DOMAIN open => e.kind = open.kind)
    BY DEF WithItem
  <2> HIDE DEF e
  <2> QED
    BY <2>1, <2>2, TurnInv DEF DInv, OpenInv, e
<1>4. CASE NotedItem
  <2>1. at = "items" /\ Turn("items", WithItem(Noted(open, Tok(pos + 1).v), pos + 2), pos + 2 + ItemLen(pos + 2))
    BY <1>4 DEF NotedItem
  <2> DEFINE e == WithItem(Noted(open, Tok(pos + 1).v), pos + 2)
  <2>2. DOMAIN e = DOMAIN open /\ ("kind" \in DOMAIN open => e.kind = open.kind)
    BY DEF WithItem, Noted
  <2> HIDE DEF e
  <2> QED
    BY <2>1, <2>2, TurnInv DEF DInv, OpenInv, e
<1>5. CASE TrailingComma
  BY <1>5, TurnInv DEF TrailingComma, DInv, OpenInv
<1>6. CASE Note
  <2>1. at # "top" /\ Turn(at, Noted(open, Tok(pos).v), pos + 1)
    BY <1>6 DEF Note
  <2> DEFINE e == Noted(open, Tok(pos).v)
  <2>2. DOMAIN e = DOMAIN open /\ ("kind" \in DOMAIN open => e.kind = open.kind)
    BY DEF Noted
  <2> HIDE DEF e
  <2> QED
    BY <2>1, <2>2, TurnInv DEF DInv, OpenInv, e
<1>7. CASE LeaveGroup
  <2>1. /\ at \in {"notes", "items"} /\ decls' = Append(decls, open) /\ at' = "top"
        /\ UNCHANGED <<tpMap, resolved>>
    BY <1>7 DEF LeaveGroup, Close
  <2>2. "kind" \in DOMAIN open /\ ~DeclaresType(open)
    BY <2>1 DEF DInv, OpenInv, DeclaresType
  <2>3. OpenInv'
    BY <2>1 DEF OpenInv
  <2> QED
    BY <2>1, <2>2, <2>3, KeptSelf, PlainDeclared DEF DInv
<1> QED
  BY <1>1, <1>2, <1>3, <1>4, <1>5, <1>6, <1>7

(* The fields of a message.                                                *)
LEMMA DescribedInv ==
  ASSUME DInv, at # "top", NEW part, NEW v, NEW next, Described(part, v, next)
  PROVE  DInv'
<1> DEFINE e == [open EXCEPT !.fields[Len(open.fields)] = [@ EXCEPT ![part] = v]]
<1>1. Turn("descs", e, next)
  BY DEF Described
<1>2. DOMAIN e = DOMAIN open
  OBVIOUS
<1> HIDE DEF e
<1> QED
  BY <1>1, <1>2, TurnInv DEF DInv, OpenInv

LEMMA MsgInv ==
  ASSUME DInv, \/ EnterMsg \/ Field \/ LeaveMsg
               \/ LimitBy \/ AtMost \/ EqualTo \/ XorWith \/ ExistIf \/ EndField
  PROVE  DInv'
<1>1. CASE EnterMsg
  <2> DEFINE d == [kind |-> "msg", name |-> Tok(pos + 1).v, fields |-> <<>>, notes |-> <<>>]
  <2>1. Turn("fields", d, pos + 3)
    BY <1>1 DEF EnterMsg
  <2>2. {"kind", "name"} \subseteq DOMAIN d
    OBVIOUS
  <2> HIDE DEF d
  <2> QED
    BY <2>1, <2>2, TurnInv
<1>2. CASE Field
  <2> DEFINE e == [open EXCEPT !.fields = Append(@, NewField(Tok(pos).v, TypeAt(pos + 1)))]
  <2>1. /\ at = "fields" /\ open' = e /\ at' \in {"arrow", "tail"} /\ tpMap' = Mapped(pos + 1)
        /\ UNCHANGED <<resolved, decls>>
    BY <1>2 DEF Field
  <2>2. DOMAIN e = DOMAIN open
    OBVIOUS
  <2> HIDE DEF e
  <2>3. OpenInv'
    BY <2>1, <2>2 DEF DInv, OpenInv
  <2>4. Kept(tpMap, tpMap') /\ Known(tpMap')
    BY <2>1, MappedKeeps, KnownMapped DEF DInv
  <2> QED
    BY <2>1, <2>3, <2>4, NothingDeclared
<1>3. CASE LeaveMsg
  <2> DEFINE n == open.name
             tp == StructOf(n)
  <2>1. /\ at = "fields" /\ n \notin DOMAIN tpMap /\ decls' = Append(decls, open) /\ at' = "top"
        /\ tpMap' = Put(tpMap, n, tp) /\ UNCHANGED resolved
    BY <1>3 DEF LeaveMsg, Close, Fresh
  <2>2. tp.k # "undef" /\ Undef(n, NilType).k = "undef"
    BY DEF StructOf, Undef
  <2>3. {"kind", "name"} \subseteq DOMAIN open
    BY <2>1 DEF DInv, OpenInv
  <2>4. OpenInv'
    BY <2>1 DEF OpenInv
  <2>5. ~Settled(tpMap, resolved, open.name)
    BY <2>1 DEF Settled
  <2> HIDE DEF tp
  <2>6. n \in DOMAIN tpMap' /\ tpMap'[n] = tp
    BY <2>1 DEF Put
  <2>7. Settled(tpMap', resolved', open.name)
    BY <2>2, <2>6 DEF Settled
  <2>8. Kept(tpMap, tpMap') /\ Kept(resolved, resolved')
    BY <2>1, KeptPut, KeptSelf
  <2>9. Known(tpMap')
    BY <2>1, <2>2, KnownPut DEF DInv
  <2> QED
    BY <2>1, <2>3, <2>4, <2>5, <2>7, <2>8, <2>9, TypeDeclared
<1>4. CASE LimitBy \/ AtMost \/ EqualTo \/ XorWith \/ ExistIf
  <2>1. at # "top"
    BY <1>4 DEF LimitBy, AtMost, EqualTo, XorWith, ExistIf, InField
  <2>2. \E part, v, next : Described(part, v, next)
    BY <1>4 DEF LimitBy, AtMost, EqualTo, XorWith, ExistIf
  <2> QED
    BY <2>1, <2>2, DescribedInv
<1>5. CASE EndField
  <2> DEFINE e == [open EXCEPT !.fields[Len(open.fields)] = [@ EXCEPT !.comment = Tok(pos).v]]
  <2>1. at # "top" /\ (Turn("fields", e, pos + 1) \/ Turn("fields", open, pos))
    BY <1>5 DEF EndField
  <2>2. DOMAIN e = DOMAIN open
    OBVIOUS
  <2> HIDE DEF e
  <2> QED
    BY <2>1, <2>2, TurnInv DEF DInv, OpenInv
<1> QED
  BY <1>1, <1>2, <1>3, <1>4, <1>5

LEMMA DInvInit == Init => DInv
<1> SUFFICES ASSUME Init PROVE DInv
  OBVIOUS
<1>1. /\ at = "top" /\ decls = <<>>
      /\ tpMap = [n \in Builtins |-> Prim(n)]
  BY DEF Init
<1>2. Known(tpMap)
  BY <1>1 DEF Known, Prim
<1>3. DeclInv(decls, tpMap, resolved)
  BY <1>1 DEF DeclInv, TypesUnique
<1> QED
  BY <1>1, <1>2, <1>3 DEF DInv, OpenInv

LEMMA DInvNext == DInv /\ PInv /\ [Next]_vars => DInv'
<1> SUFFICES ASSUME DInv, PInv, [Next]_vars PROVE DInv'
  OBVIOUS
<1>s. ASSUME UNCHANGED <<at, open, tpMap, resolved, decls>> PROVE DInv'
  BY <1>s DEF DInv, OpenInv
<1>1. CASE Done \/ Panic
  BY <1>1, <1>s, PanicStops DEF Done, Stop
<1>2. CASE UNCHANGED vars
  BY <1>2, <1>s DEF vars
<1> QED
  BY <1>1, <1>2, TopInv, GroupInv, MsgInv DEF Next, Turns

(* The current token.                                                      *)
LEMMA PInvStays == ASSUME PInv, UNCHANGED file, pos' \in Nat \ {0} PROVE PInv'
  BY DEF PInv, text

LEMMA PInvInit == Init => PInv
  BY FilesAssumption DEF Init, PInv, text

LEMMA PInvNext == PInv /\ [Next]_vars => PInv'
<1> SUFFICES ASSUME PInv, [Next]_vars PROVE PInv'
  OBVIOUS
<1>p. /\ pos \in Nat \ {0} /\ IsSequence(text)
      /\ \A i \in Nat \ {0} : /\ Past(i) \in Nat \ {0}
                              /\ SpecEnd(i) \in Nat \ {0}
                              /\ ExprLen(i) \in Nat
                              /\ ItemLen(i) \in Nat
  BY BracketsNat, ExprLenNat DEF PInv, Past, SpecEnd, ItemLen
<1>1. CASE Mspace \/ Comment \/ Bind
  <2>1. UNCHANGED file /\ pos' \in {Past(pos + 2), pos + 1, Past(pos + 3)}
    BY <1>1 DEF Mspace, Comment, Bind, Declare
  <2> QED
    BY <2>1, <1>p, PInvStays
<1>2. CASE ConstDecl
  <2>1. UNCHANGED file /\ pos' = Past(pos + 2 + ExprLen(pos + 2))
    BY <1>2 DEF ConstDecl, Declare
  <2>2. pos + 2 + ExprLen(pos + 2) \in Nat \ {0}
    BY <1>p
  <2> QED
    BY <2>1, <2>2, <1>p, PInvStays
<1>6. CASE Extern \/ DefineType \/ ResolveType
  <2>1. UNCHANGED file /\ pos' \in {Past(SpecEnd(pos + 2)), SpecEnd(pos + 2)}
    BY <1>6 DEF Extern, DefineType, ResolveType, TypeDef, Declare
  <2>2. SpecEnd(pos + 2) \in Nat \ {0}
    BY <1>p
  <2> QED
    BY <2>1, <2>2, <1>p, PInvStays
<1>7. CASE FirstItem \/ NextItem \/ NotedItem
  <2>1. UNCHANGED file /\ pos' \in {pos + ItemLen(pos), pos + 1 + ItemLen(pos + 1), pos + 2 + ItemLen(pos + 2)}
    BY <1>7 DEF FirstItem, NextItem, NotedItem, Turn
  <2>2. pos' \in Nat \ {0}
    BY <1>p, <2>1
  <2> QED
    BY <2>1, <2>2, PInvStays
<1>8. CASE EnterGroup \/ TrailingComma \/ LeaveGroup
  <2>1. UNCHANGED file /\ pos' \in {pos + 3, pos + 1, Past(pos + 1)}
    BY <1>8 DEF EnterGroup, TrailingComma, LeaveGroup, Turn, Close
  <2> QED
    BY <2>1, <1>p, PInvStays
<1>3. CASE EnterMsg \/ Note \/ LeaveMsg
  <2>1. UNCHANGED file /\ pos' \in {pos + 3, pos + 1, Past(pos + 1)}
    BY <1>3 DEF EnterMsg, Note, LeaveMsg, Turn, Close
  <2> QED
    BY <2>1, <1>p, PInvStays
<1>10. CASE Field
  <2>1. UNCHANGED file /\ \E arrow \in {0, 1} : pos' = SpecEnd(pos + 1) + arrow
    BY <1>10 DEF Field
  <2>2. pos + 1 \in Nat \ {0}
    BY <1>p
  <2>3. SpecEnd(pos + 1) \in Nat \ {0}
    BY <1>p, <2>2
  <2> QED
    BY <2>1, <2>3, PInvStays
<1>4. CASE LimitBy \/ AtMost \/ EqualTo \/ XorWith \/ EndField
  <2>1. \E where, what, next : Turn(where, what, next) /\ next \in {pos, pos + 1, pos + 2, pos + 3}
    BY <1>4 DEF LimitBy, AtMost, EqualTo, XorWith, EndField, Described
  <2>2. UNCHANGED file /\ pos' \in {pos, pos + 1, pos + 2, pos + 3}
    BY <2>1 DEF Turn
  <2> QED
    BY <2>2, <1>p, PInvStays
<1>9. CASE ExistIf
  <2>1. UNCHANGED file /\ pos' = pos + 2 + ExprLen(pos + 2)
    BY <1>9 DEF ExistIf, Described, Turn
  <2> QED
    BY <2>1, <1>p, PInvStays
<1>5. CASE Done \/ Panic \/ UNCHANGED vars
  <2>1. UNCHANGED <<file, pos>>
    BY <1>5, PanicStops DEF Done, Stop, vars
  <2> QED
    BY <2>1, <1>p, PInvStays
<1> QED
  BY <1>1, <1>2, <1>3, <1>4, <1>5, <1>6, <1>7, <1>8, <1>9, <1>10 DEF Next, Turns

LEMMA DInvariance == Spec => [](DInv /\ PInv)
  BY DInvInit, DInvNext, PInvInit, PInvNext, PTL DEF Spec

-----------------------------------------------------------------------------
(* What the types of a program rest on.  An element (the type under at     *)
(* most one array) that is a struct is the one of a message declared       *)
(* before; one that is a forward reference is the node the map holds for   *)
(* its name.                                                               *)
Declares(d, n) == d.kind = "msg" /\ d.name = n

GoodElem(e, map, ds, n) ==
  /\ e.k = "struct" => \E j \in 1..n : Declares(ds[j], e.name)
  /\ e.k = "undef" => e = Undef(e.name, NilType) /\ e.name \in DOMAIN map /\ map[e.name] = e

Good(t, map, ds, n) ==
  /\ t.k = "array" => t = ArrayOf(t.elem)
  /\ GoodElem(Elem(t), map, ds, n)

Types(d) ==
  CASE d.kind = "msg"     -> {d.fields[i].type : i \in DOMAIN d.fields}
    [] d.kind = "extern"  -> {d.type}
    [] d.kind = "typedef" -> {d.impl}
    [] OTHER              -> {}

Shaped(d) ==
  /\ d.kind = "msg" => "fields" \in DOMAIN d /\ \A k \in DOMAIN d.fields : "type" \in DOMAIN d.fields[k]
  /\ d.kind = "extern"  => "type" \in DOMAIN d
  /\ d.kind = "typedef" => "impl" \in DOMAIN d

(* Types in which the name n is met, as far as Mentioned looks.            *)
Met(n, ts) == \E t \in ts : Elem(t) = Undef(n, NilType) \/ Elem(t).k = "array"

MapGood(map, ds) == \A n \in DOMAIN map : Good(map[n], map, ds, Len(ds))

OpenGood(ts, map, ds) == \A t \in ts : Good(t, map, ds, Len(ds))

DeclsGood(map, ds) ==
  \A i \in DOMAIN ds : /\ Shaped(ds[i])
                       /\ \A t \in Types(ds[i]) : Good(t, map, ds, i - 1)
                       /\ ds[i].kind = "msg" => /\ ds[i].name \in DOMAIN map
                                                /\ map[ds[i].name] = StructOf(ds[i].name)

(* A resolution is that of the type declaration of its name, which a       *)
(* mention precedes.                                                       *)
Resolves(d, res) == d.kind = "typedef" /\ d.name \in DOMAIN res

ResGood(map, res, ds) ==
  /\ DOMAIN res \subseteq DOMAIN map
  /\ \A n \in DOMAIN res : \E i \in DOMAIN ds : ds[i].kind = "typedef" /\ ds[i].name = n
  /\ \A i \in DOMAIN ds : Resolves(ds[i], res) =>
       /\ res[ds[i].name] = ds[i].impl
       /\ res[ds[i].name].k # "undef"
       /\ \E l \in 1..i : Met(ds[i].name, Types(ds[l]))

(* A forward reference in the map has been met.                            *)
MapMet(map, ds, ts) ==
  \A n \in DOMAIN map : map[n] = Undef(n, NilType) =>
    \/ \E l \in DOMAIN ds : Met(n, Types(ds[l]))
    \/ Met(n, ts)

Linking(map, res, ds, ts) ==
  /\ MapGood(map, ds)
  /\ OpenGood(ts, map, ds)
  /\ DeclsGood(map, ds)
  /\ ResGood(map, res, ds)
  /\ MapMet(map, ds, ts)

(* The types of the message under construction.                            *)
InMsg == at \in {"fields", "arrow", "descs", "tail"}
OpenTypes == IF InMsg THEN Types(open) ELSE {}

OpenShaped == InMsg => /\ open.kind = "msg" /\ Shaped(open) /\ IsSequence(open.fields)

LInv == OpenShaped /\ Linking(tpMap, resolved, decls, OpenTypes)

LEMMA GoodStays ==
  ASSUME NEW t, NEW map, NEW map2, Kept(map, map2), NEW ds, NEW es,
         NEW n \in Nat, NEW m \in Nat, n <= m, \A j \in 1..n : es[j] = ds[j],
         Good(t, map, ds, n)
  PROVE  Good(t, map2, es, m)
<1> DEFINE e == Elem(t)
<1>1. (t.k = "array" => t = ArrayOf(t.elem)) /\ GoodElem(e, map, ds, n)
  BY DEF Good
<1> HIDE DEF e
<1>2. GoodElem(e, map2, es, m)
  <2>1. ASSUME e.k = "struct" PROVE \E j \in 1..m : Declares(es[j], e.name)
    BY <1>1, <2>1 DEF GoodElem
  <2>2. ASSUME e.k = "undef" PROVE e = Undef(e.name, NilType) /\ e.name \in DOMAIN map2 /\ map2[e.name] = e
    BY <1>1, <2>2 DEF GoodElem, Kept
  <2> QED
    BY <2>1, <2>2 DEF GoodElem
<1> QED
  BY <1>1, <1>2 DEF Good, e

LEMMA ElemFacts ==
  /\ \A n : Prim(n).k = "prim" /\ StructOf(n).k = "struct" /\ StructOf(n).name = n
  /\ \A n, r : Undef(n, r).k = "undef" /\ Undef(n, r).name = n /\ Undef(n, r).resolved = r
  /\ \A t : ArrayOf(t).k = "array" /\ ArrayOf(t).elem = t /\ Elem(ArrayOf(t)) = t
  /\ \A t : t.k # "array" => Elem(t) = t
  BY DEF Prim, StructOf, Undef, ArrayOf, Elem

(* A type that stands in the map or is new, and an array of it.            *)
LEMMA GoodArray ==
  ASSUME NEW t, NEW map, NEW ds, NEW n, Good(t, map, ds, n)
  PROVE  Good(ArrayOf(t), map, ds, n)
<1>1. GoodElem(t, map, ds, n)
  <2>1. CASE t.k = "array"
    BY <2>1 DEF GoodElem
  <2>2. CASE t.k # "array"
    BY <2>2, ElemFacts DEF Good
  <2> QED
    BY <2>1, <2>2
<1> QED
  BY <1>1, ElemFacts DEF Good

LEMMA GoodNested ==
  ASSUME NEW t, NEW map, NEW ds, NEW n
  PROVE  Good(ArrayOf(ArrayOf(t)), map, ds, n)
<1>1. GoodElem(ArrayOf(t), map, ds, n)
  BY ElemFacts DEF GoodElem
<1> QED
  BY <1>1, ElemFacts DEF Good

(* type_spec: the type is good in the map it leaves, and so is the map;    *)
(* a name that is new in the map is met in the type.                       *)
LEMMA SpecGood ==
  ASSUME IsSequence(text), NEW i \in Nat \ {0}, IsSpec(i), MapGood(tpMap, decls), Len(decls) \in Nat
  PROVE  /\ Good(TypeAt(i), Mapped(i), decls, Len(decls))
         /\ MapGood(Mapped(i), decls)
         /\ \A n \in DOMAIN Mapped(i) : n \notin DOMAIN tpMap => Met(n, {TypeAt(i)})
<1> DEFINE map == Mapped(i)
           v == Base(i).v
           b == BaseType(i)
           n == Len(decls)
<1>1. Kept(tpMap, map)
  BY MappedKeeps
<1>2. \A y \in DOMAIN tpMap : Good(tpMap[y], tpMap, decls, n)
  BY DEF MapGood
<1>3. \A y \in DOMAIN tpMap : Good(tpMap[y], map, decls, n)
  BY <1>1, <1>2, GoodStays
<1>4. ASSUME Base(i).t = "ID", v \notin DOMAIN tpMap
      PROVE  /\ b = Undef(v, NilType) /\ Good(b, map, decls, n)
             /\ DOMAIN map = DOMAIN tpMap \cup {v} /\ map[v] = b
  <2>1. b = Undef(v, NilType) /\ map = Put(tpMap, v, b)
    BY <1>4 DEF BaseType, NamedType, Mapped
  <2> HIDE DEF b, map, v
  <2>2. DOMAIN map = DOMAIN tpMap \cup {v} /\ map[v] = b
    BY <2>1 DEF Put
  <2>3. GoodElem(b, map, decls, n)
    BY <2>1, <2>2, ElemFacts DEF GoodElem
  <2> QED
    BY <2>1, <2>2, <2>3, ElemFacts DEF Good
<1>5. ASSUME ~(Base(i).t = "ID" /\ v \notin DOMAIN tpMap) PROVE map = tpMap /\ Good(b, map, decls, n)
  <2>1. map = tpMap
    BY <1>5 DEF Mapped
  <2>2. CASE Base(i).t = "PRIM"
    <3>1. b = Prim(Base(i).v)
      BY <2>2 DEF BaseType
    <3> HIDE DEF b
    <3> QED
      BY <2>1, <3>1, ElemFacts DEF Good, GoodElem
  <2>3. CASE Base(i).t = "ID"
    <3>1. v \in DOMAIN tpMap /\ b = tpMap[v]
      BY <1>5, <2>3 DEF BaseType, NamedType
    <3> QED
      BY <1>3, <2>1, <3>1
  <2> QED
    BY <2>1, <2>2, <2>3 DEF IsSpec
<1>6. Good(b, map, decls, n)
  BY <1>4, <1>5
<1>7. TypeAt(i) = b \/ TypeAt(i) = ArrayOf(b) \/ \E t : TypeAt(i) = ArrayOf(ArrayOf(t))
  BY TypeAtForm
<1> HIDE DEF map, v, b, n
<1>8. Good(TypeAt(i), map, decls, n)
  BY <1>6, <1>7, GoodArray, GoodNested
<1>9. \A y \in DOMAIN map : Good(map[y], map, decls, n)
  <2>1. CASE Base(i).t = "ID" /\ v \notin DOMAIN tpMap
    <3>1. \A y \in DOMAIN map : y = v \/ (y \in DOMAIN tpMap /\ map[y] = tpMap[y])
      BY <1>1, <1>4, <2>1 DEF Kept
    <3> QED
      BY <1>3, <1>4, <2>1, <3>1
  <2>2. CASE ~(Base(i).t = "ID" /\ v \notin DOMAIN tpMap)
    BY <1>3, <1>5, <2>2
  <2> QED
    BY <2>1, <2>2
<1>10. ASSUME NEW y \in DOMAIN map, y \notin DOMAIN tpMap PROVE Met(y, {TypeAt(i)})
  <2>1. y = v /\ b = Undef(y, NilType)
    BY <1>4, <1>5, <1>10
  <2>2. Elem(TypeAt(i)) = b \/ Elem(TypeAt(i)).k = "array"
    BY <1>7, <2>1, ElemFacts
  <2> QED
    BY <2>1, <2>2 DEF Met
<1> QED
  BY <1>8, <1>9, <1>10 DEF MapGood, map, n

(* The steps, by their form.  No declaration: the map and the types of the *)
(* open message may grow.                                                  *)
LEMMA LinkingGrows ==
  ASSUME NEW map, NEW map2, NEW res, NEW ds, NEW ts, NEW us, Linking(map, res, ds, ts), IsSequence(ds),
         Kept(map, map2), MapGood(map2, ds), OpenGood(us, map2, ds), ts \subseteq us,
         \A n \in DOMAIN map2 : n \notin DOMAIN map => Met(n, us)
  PROVE  Linking(map2, res, ds, us)
<1>1. Len(ds) \in Nat /\ DOMAIN ds = 1..Len(ds)
  BY DEF IsSequence
<1>2. DeclsGood(map2, ds)
  <2>1. ASSUME NEW i \in DOMAIN ds, NEW t \in Types(ds[i]) PROVE Good(t, map2, ds, i - 1)
    <3>1. Good(t, map, ds, i - 1) /\ i - 1 \in Nat
      BY <1>1 DEF Linking, DeclsGood
    <3> QED
      BY <3>1, GoodStays
  <2> QED
    BY <2>1 DEF DeclsGood, Linking, Kept
<1>3. ResGood(map2, res, ds)
  BY DEF Linking, ResGood, Kept
<1>4. ASSUME NEW n \in DOMAIN map2, map2[n] = Undef(n, NilType)
      PROVE  (\E l \in DOMAIN ds : Met(n, Types(ds[l]))) \/ Met(n, us)
  <2>1. CASE n \in DOMAIN map
    <3>1. map[n] = Undef(n, NilType)
      BY <1>4, <2>1 DEF Kept
    <3>2. (\E l \in DOMAIN ds : Met(n, Types(ds[l]))) \/ Met(n, ts)
      BY <2>1, <3>1 DEF Linking, MapMet
    <3> QED
      BY <3>2 DEF Met
  <2> QED
    BY <2>1
<1> QED
  BY <1>2, <1>3, <1>4 DEF Linking, MapMet

(* A declaration more, at its end of a message its own: what it and the    *)
(* map after it must be.                                                   *)
Joins(d, map, map2, ds) ==
  /\ Shaped(d)
  /\ \A t \in Types(d) : Good(t, map2, ds, Len(ds))
  /\ d.kind = "msg" => d.name \in DOMAIN map2 /\ map2[d.name] = StructOf(d.name)
  /\ \A n \in DOMAIN map2 : \/ Good(map2[n], map2, ds, Len(ds))
                            \/ map2[n] = StructOf(n) /\ Declares(d, n)
  /\ \A n \in DOMAIN map2 : map2[n] = Undef(n, NilType) => n \in DOMAIN map \/ Met(n, Types(d))

LEMMA LinkingMore ==
  ASSUME NEW map, NEW map2, NEW res, NEW res2, NEW ds, NEW ts, Linking(map, res, ds, ts), IsSequence(ds),
         Kept(map, map2), NEW d, ts \subseteq Types(d), Joins(d, map, map2, ds),
         ResGood(map2, res2, Append(ds, d))
  PROVE  Linking(map2, res2, Append(ds, d), {})
<1>j. /\ Shaped(d)
      /\ \A t \in Types(d) : Good(t, map2, ds, Len(ds))
      /\ d.kind = "msg" => d.name \in DOMAIN map2 /\ map2[d.name] = StructOf(d.name)
      /\ \A n \in DOMAIN map2 : \/ Good(map2[n], map2, ds, Len(ds))
                                \/ map2[n] = StructOf(n) /\ Declares(d, n)
      /\ \A n \in DOMAIN map2 : map2[n] = Undef(n, NilType) => n \in DOMAIN map \/ Met(n, Types(d))
  BY DEF Joins
<1> DEFINE es == Append(ds, d)
           m == Len(ds)
<1>1. /\ m \in Nat /\ DOMAIN ds = 1..m /\ Len(es) = m + 1 /\ DOMAIN es = 1..m + 1
      /\ \A i \in 1..m : es[i] = ds[i]
      /\ es[m + 1] = d
  BY DEF IsSequence
<1> HIDE DEF es, m
<1>2. ASSUME NEW t, NEW i \in Nat, i <= m, Good(t, map, ds, i) PROVE Good(t, map2, es, i)
  BY <1>1, <1>2, GoodStays
<1>3. ASSUME NEW t, Good(t, map2, ds, m) PROVE Good(t, map2, es, m) /\ Good(t, map2, es, m + 1)
  <2>1. Kept(map2, map2)
    BY KeptSelf
  <2> QED
    BY <1>1, <1>3, <2>1, GoodStays
<1>4. MapGood(map2, es)
  <2>1. ASSUME NEW n \in DOMAIN map2 PROVE Good(map2[n], map2, es, m + 1)
    <3>1. CASE Good(map2[n], map2, ds, m)
      BY <1>3, <3>1
    <3>2. CASE map2[n] = StructOf(n) /\ Declares(d, n)
      <4>1. m + 1 \in 1..m + 1 /\ Declares(es[m + 1], n)
        BY <1>1, <3>2
      <4>2. GoodElem(StructOf(n), map2, es, m + 1)
        BY <4>1, ElemFacts DEF GoodElem
      <4> QED
        BY <3>2, <4>2, ElemFacts DEF Good
    <3> QED
      BY <1>j, <3>1, <3>2 DEF m
  <2> QED
    BY <1>1, <2>1 DEF MapGood
<1>5. DeclsGood(map2, es)
  <2>1. ASSUME NEW i \in 1..m
        PROVE  /\ Shaped(es[i]) /\ \A t \in Types(es[i]) : Good(t, map2, es, i - 1)
               /\ es[i].kind = "msg" => es[i].name \in DOMAIN map2 /\ map2[es[i].name] = StructOf(es[i].name)
    <3>1. /\ Shaped(ds[i]) /\ \A t \in Types(ds[i]) : Good(t, map, ds, i - 1)
          /\ ds[i].kind = "msg" => ds[i].name \in DOMAIN map /\ map[ds[i].name] = StructOf(ds[i].name)
      BY <1>1 DEF Linking, DeclsGood
    <3>2. es[i] = ds[i] /\ i - 1 \in Nat /\ i - 1 <= m
      BY <1>1
    <3>3. \A t \in Types(ds[i]) : Good(t, map2, es, i - 1)
      BY <1>2, <3>1, <3>2
    <3> QED
      BY <3>1, <3>2, <3>3 DEF Kept
  <2>2. \A t \in Types(d) : Good(t, map2, es, m)
    BY <1>3, <1>j DEF m
  <2>3. ASSUME NEW i \in 1..m + 1 PROVE i \in 1..m \/ (i = m + 1 /\ es[i] = d /\ i - 1 = m)
    BY <1>1
  <2> QED
    BY <1>1, <1>j, <2>1, <2>2, <2>3 DEF DeclsGood
<1>6. MapMet(map2, es, {})
  <2>1. SUFFICES ASSUME NEW n \in DOMAIN map2, map2[n] = Undef(n, NilType)
                 PROVE  \E l \in 1..m + 1 : Met(n, Types(es[l]))
    BY <1>1 DEF MapMet
  <2>2. CASE Met(n, Types(d))
    BY <1>1, <2>2
  <2>3. CASE n \in DOMAIN map
    <3>1. map[n] = Undef(n, NilType)
      BY <2>1, <2>3 DEF Kept
    <3>2. (\E l \in DOMAIN ds : Met(n, Types(ds[l]))) \/ Met(n, ts)
      BY <2>3, <3>1 DEF Linking, MapMet
    <3>3. Met(n, ts) => Met(n, Types(d))
      BY DEF Met
    <3> QED
      BY <1>1, <2>2, <3>2, <3>3
  <2> QED
    BY <1>j, <2>1, <2>2, <2>3
<1>7. OpenGood({}, map2, es)
  BY DEF OpenGood
<1> QED
  BY <1>4, <1>5, <1>6, <1>7 DEF Linking, es

(* The resolutions when the new declaration is none of a name that has     *)
(* one.                                                                    *)
LEMMA ResolutionsStay ==
  ASSUME NEW map, NEW map2, NEW res, NEW ds, ResGood(map, res, ds), IsSequence(ds), Kept(map, map2),
         NEW d, ~Resolves(d, res)
  PROVE  ResGood(map2, res, Append(ds, d))
<1> DEFINE es == Append(ds, d)
           m == Len(ds)
<1>1. /\ m \in Nat /\ DOMAIN ds = 1..m /\ DOMAIN es = 1..m + 1
      /\ \A i \in 1..m : es[i] = ds[i]
      /\ es[m + 1] = d
  BY DEF IsSequence
<1> HIDE DEF es, m
<1>2. DOMAIN res \subseteq DOMAIN map2
  BY DEF ResGood, Kept
<1>3. ASSUME NEW n \in DOMAIN res PROVE \E i \in DOMAIN es : es[i].kind = "typedef" /\ es[i].name = n
  <2>1. PICK i \in 1..m : ds[i].kind = "typedef" /\ ds[i].name = n
    BY <1>1 DEF ResGood
  <2> QED
    BY <1>1, <2>1
<1>4. ASSUME NEW i \in DOMAIN es, Resolves(es[i], res)
      PROVE  /\ res[es[i].name] = es[i].impl /\ res[es[i].name].k # "undef"
             /\ \E l \in 1..i : Met(es[i].name, Types(es[l]))
  <2>1. i \in 1..m /\ es[i] = ds[i]
    BY <1>1, <1>4
  <2>2. /\ res[ds[i].name] = ds[i].impl /\ res[ds[i].name].k # "undef"
        /\ \E l \in 1..i : Met(ds[i].name, Types(ds[l]))
    BY <1>1, <1>4, <2>1 DEF ResGood
  <2>3. \A l \in 1..i : es[l] = ds[l]
    BY <1>1, <2>1
  <2> QED
    BY <2>1, <2>2, <2>3
<1> QED
  BY <1>2, <1>3, <1>4 DEF ResGood, es

(* The resolutions with that of a type declared for the first time.        *)
LEMMA ResolutionsMore ==
  ASSUME NEW map, NEW map2, NEW res, NEW ds, ResGood(map, res, ds), IsSequence(ds), Kept(map, map2),
         NEW n \in DOMAIN map2, n \notin DOMAIN res,
         NEW d, d.kind = "typedef", d.name = n, d.impl.k # "undef",
         \A i \in DOMAIN ds : ds[i].kind = "typedef" => ds[i].name # n,
         (\E l \in DOMAIN ds : Met(n, Types(ds[l]))) \/ Met(n, Types(d))
  PROVE  ResGood(map2, Put(res, n, d.impl), Append(ds, d))
<1> DEFINE es == Append(ds, d)
           m == Len(ds)
           res2 == Put(res, n, d.impl)
<1>1. /\ m \in Nat /\ DOMAIN ds = 1..m /\ DOMAIN es = 1..m + 1
      /\ \A i \in 1..m : es[i] = ds[i]
      /\ es[m + 1] = d
  BY DEF IsSequence
<1>2. /\ DOMAIN res2 = DOMAIN res \cup {n} /\ res2[n] = d.impl
      /\ \A y \in DOMAIN res : res2[y] = res[y]
  BY DEF Put
<1> HIDE DEF es, m, res2
<1>3. DOMAIN res2 \subseteq DOMAIN map2
  BY <1>2 DEF ResGood, Kept
<1>4. ASSUME NEW y \in DOMAIN res2 PROVE \E i \in DOMAIN es : es[i].kind = "typedef" /\ es[i].name = y
  <2>1. CASE y = n
    BY <1>1, <2>1
  <2>2. CASE y \in DOMAIN res
    <3>1. PICK i \in 1..m : ds[i].kind = "typedef" /\ ds[i].name = y
      BY <1>1, <2>2 DEF ResGood
    <3> QED
      BY <1>1, <3>1
  <2> QED
    BY <1>2, <2>1, <2>2
<1>5. ASSUME NEW i \in DOMAIN es, Resolves(es[i], res2)
      PROVE  /\ res2[es[i].name] = es[i].impl /\ res2[es[i].name].k # "undef"
             /\ \E l \in 1..i : Met(es[i].name, Types(es[l]))
  <2>1. CASE i = m + 1
    <3>1. \E l \in 1..m + 1 : Met(n, Types(es[l]))
      BY <1>1
    <3> QED
      BY <1>1, <1>2, <2>1, <3>1
  <2>2. CASE i \in 1..m
    <3>1. es[i] = ds[i] /\ \A l \in 1..i : es[l] = ds[l]
      BY <1>1, <2>2
    <3>2. ds[i].kind = "typedef" /\ ds[i].name # n /\ ds[i].name \in DOMAIN res
      BY <1>1, <1>2, <1>5, <2>2, <3>1 DEF Resolves
    <3>3. /\ res[ds[i].name] = ds[i].impl /\ res[ds[i].name].k # "undef"
          /\ \E l \in 1..i : Met(ds[i].name, Types(ds[l]))
      BY <1>1, <2>2, <3>2 DEF ResGood, Resolves
    <3> QED
      BY <1>2, <3>1, <3>2, <3>3
  <2> QED
    BY <1>1, <2>1, <2>2
<1> QED
  BY <1>3, <1>4, <1>5 DEF ResGood, es, res2

LEMMA SeqExcept ==
  ASSUME NEW s, IsSequence(s), NEW k, NEW x
  PROVE  IsSequence([s EXCEPT ![k] = x])
<1> DEFINE f == [s EXCEPT ![k] = x]
           T == {f[i] : i \in DOMAIN f}
<1>1. DOMAIN f = 1..Len(s) /\ Len(s) \in Nat
  BY DEF IsSequence
<1>2. f \in [1..Len(s) -> T]
  BY <1>1
<1> HIDE DEF f, T
<1>3. Len(f) = Len(s)
  BY <1>1, <1>2
<1> QED
  BY <1>1, <1>3 DEF IsSequence, f

-----------------------------------------------------------------------------
(* The actions.                                                            *)
LEMMA AtTopLinked ==
  ASSUME at' = "top", Linking(tpMap', resolved', decls', {})
  PROVE  LInv'
<1>1. OpenTypes' = {} /\ OpenShaped'
  BY DEF OpenTypes, OpenShaped, InMsg
<1> QED
  BY <1>1 DEF LInv

LEMMA TopTypes == at = "top" => OpenTypes = {}
  BY DEF OpenTypes, InMsg

LEMMA DeclsSequence == DInv => IsSequence(decls)
  BY DEF DInv, DeclInv, IsSequence

(* A declaration that mentions no type or, after a type_spec, one.         *)
LEMMA NoTypeLinked ==
  ASSUME LInv, DInv, NEW d, d.kind \notin {"msg", "extern", "typedef"}, OpenTypes = {}, at' = "top",
         decls' = Append(decls, d), UNCHANGED <<tpMap, resolved>>
  PROVE  LInv'
<1>1. Linking(tpMap, resolved, decls, {}) /\ IsSequence(decls) /\ Kept(tpMap, tpMap)
  BY DeclsSequence, KeptSelf DEF LInv
<1>2. Types(d) = {} /\ Shaped(d) /\ ~Resolves(d, resolved)
  BY DEF Types, Shaped, Resolves
<1>3. ResGood(tpMap, resolved, Append(decls, d))
  BY <1>1, <1>2, ResolutionsStay DEF Linking
<1>4. \A n \in DOMAIN tpMap : Good(tpMap[n], tpMap, decls, Len(decls))
  BY <1>1 DEF Linking, MapGood
<1>5. Joins(d, tpMap, tpMap, decls)
  BY <1>2, <1>4 DEF Joins
<1>6. Linking(tpMap, resolved, Append(decls, d), {})
  BY <1>1, <1>3, <1>5, LinkingMore
<1> QED
  BY <1>6, AtTopLinked

LEMMA TopLinks ==
  ASSUME LInv, DInv, PInv, \/ Mspace \/ ConstDecl \/ Comment \/ Extern \/ Bind \/ DefineType \/ ResolveType
  PROVE  LInv'
<1>o. at = "top" /\ at' = "top" /\ OpenTypes = {}
  BY TopTypes DEF Mspace, ConstDecl, Comment, Extern, Bind, DefineType, ResolveType, TypeDef, Declare, AtTypeDef, AtTop
<1>l. Linking(tpMap, resolved, decls, {}) /\ IsSequence(decls) /\ Len(decls) \in Nat
  BY <1>o, DeclsSequence DEF LInv, IsSequence
<1>1. CASE Mspace
  BY <1>1, <1>o, <1>l, AtTopLinked DEF Mspace
<1>2. CASE ConstDecl \/ Comment \/ Bind
  <2>1. PICK d : decls' = Append(decls, d) /\ d.kind \in {"const", "comment", "bind"}
    BY <1>2 DEF ConstDecl, Comment, Bind, Declare
  <2>2. UNCHANGED <<tpMap, resolved>>
    BY <1>2 DEF ConstDecl, Comment, Bind, KeepTypes
  <2> QED
    BY <1>o, <2>1, <2>2, NoTypeLinked
<1> DEFINE n == Tok(pos + 1).v
           tp == TypeAt(pos + 2)
           map == Mapped(pos + 2)
<1>m. ASSUME IsSpec(pos + 2)
      PROVE  /\ Good(tp, map, decls, Len(decls)) /\ MapGood(map, decls) /\ Kept(tpMap, map)
             /\ \A y \in DOMAIN map : y \notin DOMAIN tpMap => Met(y, {tp})
  <2>1. pos + 2 \in Nat \ {0} /\ IsSequence(text) /\ MapGood(tpMap, decls)
    BY <1>l DEF PInv, Linking
  <2> QED
    BY <1>l, <1>m, <2>1, SpecGood, MappedKeeps
<1>3. CASE Extern
  <2> DEFINE d == [kind |-> "extern", name |-> n, type |-> tp]
  <2>1. IsSpec(pos + 2) /\ decls' = Append(decls, d) /\ tpMap' = map /\ UNCHANGED resolved
    BY <1>3 DEF Extern, Declare
  <2>2. Types(d) = {tp} /\ Shaped(d) /\ ~Resolves(d, resolved) /\ d.kind = "extern"
    BY DEF Types, Shaped, Resolves
  <2> HIDE DEF d, tp, map, n
  <2>3. ResGood(map, resolved, Append(decls, d))
    BY <1>l, <1>m, <2>1, <2>2, ResolutionsStay DEF Linking
  <2>4. Linking(map, resolved, Append(decls, d), {})
    <3>1. \A y \in DOMAIN map : Good(map[y], map, decls, Len(decls)) /\ (y \in DOMAIN tpMap \/ Met(y, Types(d)))
      BY <1>m, <2>1, <2>2 DEF MapGood
    <3>2. Joins(d, tpMap, map, decls)
      BY <1>m, <2>1, <2>2, <3>1 DEF Joins
    <3> QED
      BY <1>l, <1>m, <2>1, <2>3, <3>2, LinkingMore
  <2> QED
    BY <1>o, <2>1, <2>4, AtTopLinked
<1> DEFINE d == [kind |-> "typedef", name |-> n, impl |-> tp]
<1>d. Types(d) = {tp} /\ Shaped(d) /\ d.kind = "typedef" /\ d.name = n /\ d.impl = tp
  BY DEF Types, Shaped
<1>4. CASE DefineType
  <2>1. /\ IsSpec(pos + 2) /\ decls' = Append(decls, d) /\ UNCHANGED resolved
        /\ n \notin DOMAIN map /\ tpMap' = Put(map, n, tp)
    BY <1>4 DEF DefineType, AtTypeDef, TypeDef, Declare
  <2> DEFINE map2 == Put(map, n, tp)
  <2> HIDE DEF d, tp, map, n
  <2>2. /\ DOMAIN map2 = DOMAIN map \cup {n} /\ map2[n] = tp /\ \A y \in DOMAIN map : map2[y] = map[y]
    BY <2>1 DEF Put
  <2>3. Kept(map, map2) /\ Kept(tpMap, map2)
    BY <1>m, <2>1, KeptPut, KeptTrans
  <2> HIDE DEF map2
  <2>4. ASSUME NEW t, Good(t, map, decls, Len(decls)) PROVE Good(t, map2, decls, Len(decls))
    BY <1>l, <2>3, <2>4, GoodStays
  <2>5. Good(tp, map2, decls, Len(decls)) /\ \A y \in DOMAIN map2 : Good(map2[y], map2, decls, Len(decls))
    BY <1>m, <2>1, <2>2, <2>4 DEF MapGood
  <2>6. ASSUME NEW y \in DOMAIN map2, map2[y] = Undef(y, NilType) PROVE y \in DOMAIN tpMap \/ Met(y, Types(d))
    <3>1. CASE y = n
      <4>1. tp = Undef(n, NilType) /\ tp.k = "undef" /\ tp.k # "array" /\ tp.name = n
        BY <2>2, <2>6, <3>1, ElemFacts
      <4>2. GoodElem(tp, map, decls, Len(decls))
        BY <1>m, <2>1, <4>1, ElemFacts DEF Good
      <4> QED
        BY <2>1, <4>1, <4>2 DEF GoodElem
    <3>2. CASE y \in DOMAIN map
      BY <1>d, <1>m, <2>1, <3>2
    <3> QED
      BY <2>2, <3>1, <3>2
  <2>7. ~Resolves(d, resolved)
    BY <1>d, <1>l, <1>m, <2>1 DEF Resolves, Linking, ResGood, Kept
  <2>8. ResGood(map2, resolved, Append(decls, d))
    BY <1>l, <2>3, <2>7, ResolutionsStay DEF Linking
  <2>9. Joins(d, tpMap, map2, decls)
    BY <1>d, <2>5, <2>6 DEF Joins
  <2>10. Linking(map2, resolved, Append(decls, d), {})
    BY <1>l, <2>3, <2>8, <2>9, LinkingMore
  <2> QED
    BY <1>o, <2>1, <2>10, AtTopLinked DEF map2
<1>5. CASE ResolveType
  <2>1. /\ IsSpec(pos + 2) /\ decls' = Append(decls, d) /\ tpMap' = map
        /\ resolved' = Put(resolved, n, tp)
        /\ tp.k # "undef" /\ n \in DOMAIN map /\ map[n] = Undef(n, NilType) /\ n \notin DOMAIN resolved
    BY <1>5 DEF ResolveType, Unresolved, AtTypeDef, TypeDef, Declare
  <2> HIDE DEF d, tp, map, n
  <2>2. \A i \in DOMAIN decls : decls[i].kind = "typedef" => decls[i].name # n
    <3>1. \A i \in DOMAIN decls : decls[i].kind = "typedef" => Settled(tpMap, resolved, decls[i].name)
      BY DEF DInv, DeclInv, DeclaresType
    <3>2. ~Settled(tpMap, resolved, n)
      BY <1>m, <2>1 DEF Settled, Kept
    <3> QED
      BY <3>1, <3>2
  <2>3. (\E l \in DOMAIN decls : Met(n, Types(decls[l]))) \/ Met(n, Types(d))
    <3>1. CASE n \in DOMAIN tpMap
      <4>1. tpMap[n] = Undef(n, NilType)
        BY <1>m, <2>1, <3>1 DEF Kept
      <4> QED
        BY <1>l, <3>1, <4>1 DEF Linking, MapMet, Met
    <3> QED
      BY <1>d, <1>m, <2>1, <3>1
  <2>4. ResGood(map, Put(resolved, n, d.impl), Append(decls, d))
    BY <1>d, <1>l, <1>m, <2>1, <2>2, <2>3, ResolutionsMore DEF Linking
  <2>5. \A y \in DOMAIN map : Good(map[y], map, decls, Len(decls)) /\ (y \in DOMAIN tpMap \/ Met(y, Types(d)))
    BY <1>d, <1>m, <2>1 DEF MapGood
  <2>7. Joins(d, tpMap, map, decls)
    BY <1>d, <1>m, <2>1, <2>5 DEF Joins
  <2>6. Linking(map, Put(resolved, n, tp), Append(decls, d), {})
    BY <1>d, <1>l, <1>m, <2>1, <2>4, <2>7, LinkingMore
  <2> QED
    BY <1>o, <2>1, <2>6, AtTopLinked
<1> QED
  BY <1>1, <1>2, <1>3, <1>4, <1>5

(* A turn of a loop: the types of the open message stay the same.          *)
Building(what) == what.kind = "msg" /\ Shaped(what) /\ IsSequence(what.fields)

LEMMA TurnLinked ==
  ASSUME LInv, NEW where, NEW what, NEW next, Turn(where, what, next),
         where \in {"fields", "arrow", "descs", "tail"} => Building(what) /\ Types(what) = OpenTypes,
         where \notin {"fields", "arrow", "descs", "tail"} => OpenTypes = {}
  PROVE  LInv'
<1>1. at' = where /\ open' = what /\ UNCHANGED <<decls, tpMap, resolved>>
  BY DEF Turn
<1>2. OpenShaped' /\ OpenTypes' = OpenTypes
  BY <1>1 DEF OpenShaped, OpenTypes, InMsg, Building
<1> QED
  BY <1>1, <1>2 DEF LInv

LEMMA GroupLinks ==
  ASSUME LInv, DInv, \/ EnterGroup \/ FirstItem \/ NextItem \/ NotedItem \/ TrailingComma \/ LeaveGroup
  PROVE  LInv'
<1>1. CASE LeaveGroup
  <2>1. /\ at \in {"notes", "items"} /\ decls' = Append(decls, open) /\ at' = "top"
        /\ UNCHANGED <<tpMap, resolved>>
    BY <1>1 DEF LeaveGroup, Close
  <2>2. open.kind = "group" /\ OpenTypes = {}
    BY <2>1 DEF DInv, OpenInv, OpenTypes, InMsg
  <2> QED
    BY <2>1, <2>2, NoTypeLinked
<1>2. CASE EnterGroup \/ FirstItem \/ NextItem \/ NotedItem \/ TrailingComma
  <2>1. \E where \in {"notes", "items"} : \E what, next : Turn(where, what, next)
    BY <1>2 DEF EnterGroup, FirstItem, NextItem, NotedItem, TrailingComma
  <2>2. OpenTypes = {}
    BY <1>2 DEF EnterGroup, FirstItem, NextItem, NotedItem, TrailingComma, AtTop, OpenTypes, InMsg
  <2> QED
    BY <2>1, <2>2, TurnLinked
<1> QED
  BY <1>1, <1>2

(* A part of the open message, or of one of its fields, that is no type.   *)
With(d, k, part, v) == [d EXCEPT !.fields[k] = [@ EXCEPT ![part] = v]]

LEMMA BuildingOn ==
  ASSUME NEW d, Building(d), {"kind", "name"} \subseteq DOMAIN d,
         NEW k, NEW part, part # "type", NEW v
  PROVE  Building(With(d, k, part, v)) /\ Types(With(d, k, part, v)) = Types(d)
<1> DEFINE f == [d.fields[k] EXCEPT ![part] = v]
           fs == [d.fields EXCEPT ![k] = f]
           e == [d EXCEPT !.fields = fs]
<1>1. "fields" \in DOMAIN d /\ \A i \in DOMAIN d.fields : "type" \in DOMAIN d.fields[i]
  BY DEF Building, Shaped
<1>2. DOMAIN f = DOMAIN d.fields[k] /\ ("type" \in DOMAIN d.fields[k] => f.type = d.fields[k].type)
  OBVIOUS
<1> HIDE DEF f
<1>3. /\ DOMAIN fs = DOMAIN d.fields
      /\ \A i \in DOMAIN d.fields : fs[i] = IF i = k THEN f ELSE d.fields[i]
  OBVIOUS
<1>4. IsSequence(fs)
  BY SeqExcept DEF Building
<1> HIDE DEF fs
<1>5. DOMAIN e = DOMAIN d /\ e.kind = d.kind /\ e.fields = fs
  BY <1>1
<1> HIDE DEF e
<1>6. \A i \in DOMAIN fs : "type" \in DOMAIN fs[i] /\ fs[i].type = d.fields[i].type
  BY <1>1, <1>2, <1>3
<1>7. d.kind = "msg"
  BY DEF Building
<1>8. Shaped(e)
  BY <1>1, <1>5, <1>6, <1>7 DEF Shaped
<1>9. Types(e) = Types(d)
  BY <1>3, <1>5, <1>6, <1>7 DEF Types
<1> QED
  BY <1>4, <1>5, <1>7, <1>8, <1>9 DEF Building, With, e, fs, f

LEMMA BuildingNoted ==
  ASSUME NEW d, Building(d), {"kind", "name"} \subseteq DOMAIN d, NEW n
  PROVE  Building(Noted(d, n)) /\ Types(Noted(d, n)) = Types(d)
<1> DEFINE e == Noted(d, n)
<1>1. "fields" \in DOMAIN d /\ d.kind = "msg"
  BY DEF Building, Shaped
<1>2. DOMAIN e = DOMAIN d /\ e.kind = d.kind /\ e.fields = d.fields
  BY <1>1 DEF Noted
<1> HIDE DEF e
<1> QED
  BY <1>1, <1>2 DEF Building, Shaped, Types, e

(* One field more, of the type type_spec has read.                         *)
LEMMA BuildingField ==
  ASSUME NEW d, Building(d), {"kind", "name"} \subseteq DOMAIN d, NEW n, NEW t
  PROVE  LET e == [d EXCEPT !.fields = Append(@, NewField(n, t))]
         IN  Building(e) /\ Types(e) = Types(d) \cup {t}
<1> DEFINE f == NewField(n, t)
           fs == Append(d.fields, f)
           e == [d EXCEPT !.fields = fs]
           m == Len(d.fields)
<1>1. /\ "fields" \in DOMAIN d /\ \A i \in DOMAIN d.fields : "type" \in DOMAIN d.fields[i]
      /\ m \in Nat /\ DOMAIN d.fields = 1..m /\ d.kind = "msg"
  BY DEF Building, Shaped, IsSequence
<1>2. "type" \in DOMAIN f /\ f.type = t
  BY DEF NewField
<1> HIDE DEF f
<1>3. /\ IsSequence(fs) /\ DOMAIN fs = 1..m + 1 /\ fs[m + 1] = f
      /\ \A i \in 1..m : fs[i] = d.fields[i]
  BY <1>1 DEF IsSequence
<1> HIDE DEF fs, m
<1>4. DOMAIN e = DOMAIN d /\ e.kind = d.kind /\ e.fields = fs
  BY <1>1
<1> HIDE DEF e
<1>5. Shaped(e)
  BY <1>1, <1>2, <1>3, <1>4 DEF Shaped
<1>6. Types(e) = {fs[i].type : i \in 1..m + 1} /\ Types(d) = {d.fields[i].type : i \in 1..m}
  BY <1>1, <1>3, <1>4 DEF Types
<1>7. 1..m + 1 = 1..m \cup {m + 1}
  BY <1>1
<1>8. Types(e) = Types(d) \cup {t}
  BY <1>2, <1>3, <1>6, <1>7
<1> QED
  BY <1>1, <1>3, <1>4, <1>5, <1>8 DEF Building, e, fs, f

LEMMA DescribedLinks ==
  ASSUME LInv, DInv, InMsg, NEW part, part # "type", NEW v, NEW next, Described(part, v, next)
  PROVE  LInv'
<1> DEFINE e == With(open, Len(open.fields), part, v)
<1>1. Turn("descs", e, next)
  BY DEF Described, With
<1>2. Building(open) /\ {"kind", "name"} \subseteq DOMAIN open /\ OpenTypes = Types(open)
  BY DEF LInv, OpenShaped, Building, DInv, OpenInv, InMsg, OpenTypes
<1>3. Building(e) /\ Types(e) = Types(open)
  BY <1>2, BuildingOn
<1> HIDE DEF e
<1> QED
  BY <1>1, <1>2, <1>3, TurnLinked

LEMMA FieldLinks == ASSUME LInv, DInv, PInv, Field PROVE LInv'
<1> DEFINE t == TypeAt(pos + 1)
           map == Mapped(pos + 1)
           e == [open EXCEPT !.fields = Append(@, NewField(Tok(pos).v, t))]
<1>1. /\ at = "fields" /\ IsSpec(pos + 1) /\ open' = e /\ at' \in {"arrow", "tail"} /\ tpMap' = map
      /\ UNCHANGED <<resolved, decls>>
  BY DEF Field
<1>2. Building(open) /\ {"kind", "name"} \subseteq DOMAIN open /\ OpenTypes = Types(open)
  BY <1>1 DEF LInv, OpenShaped, Building, DInv, OpenInv, InMsg, OpenTypes
<1>3. Building(e) /\ Types(e) = OpenTypes \cup {t}
  BY <1>2, BuildingField
<1>4. Linking(tpMap, resolved, decls, OpenTypes) /\ IsSequence(decls) /\ Len(decls) \in Nat
  BY DeclsSequence DEF LInv, IsSequence
<1>5. /\ Good(t, map, decls, Len(decls)) /\ MapGood(map, decls) /\ Kept(tpMap, map)
      /\ \A n \in DOMAIN map : n \notin DOMAIN tpMap => Met(n, {t})
  <2>1. pos + 1 \in Nat \ {0} /\ IsSequence(text) /\ MapGood(tpMap, decls)
    BY <1>4 DEF PInv, Linking
  <2> QED
    BY <1>1, <1>4, <2>1, SpecGood, MappedKeeps
<1> HIDE DEF e, map, t
<1>6. OpenGood(OpenTypes \cup {t}, map, decls)
  <2>1. ASSUME NEW u, Good(u, tpMap, decls, Len(decls)) PROVE Good(u, map, decls, Len(decls))
    BY <1>4, <1>5, <2>1, GoodStays
  <2> QED
    BY <1>4, <1>5, <2>1 DEF Linking, OpenGood
<1>7. \A n \in DOMAIN map : n \notin DOMAIN tpMap => Met(n, OpenTypes \cup {t})
  BY <1>5 DEF Met
<1>8. OpenTypes \subseteq OpenTypes \cup {t}
  OBVIOUS
<1>9. Linking(map, resolved, decls, OpenTypes \cup {t})
  BY <1>4, <1>5, <1>6, <1>7, <1>8, LinkingGrows
<1>10. OpenShaped' /\ OpenTypes' = OpenTypes \cup {t}
  BY <1>1, <1>3 DEF OpenShaped, Building, OpenTypes, InMsg
<1> QED
  BY <1>1, <1>9, <1>10 DEF LInv

LEMMA LeaveMsgLinks == ASSUME LInv, DInv, LeaveMsg PROVE LInv'
<1> DEFINE n == open.name
           map == Put(tpMap, n, StructOf(n))
<1>1. /\ at = "fields" /\ n \notin DOMAIN tpMap /\ decls' = Append(decls, open) /\ at' = "top"
      /\ tpMap' = map /\ UNCHANGED resolved
  BY DEF LeaveMsg, Close, Fresh
<1>2. Building(open) /\ OpenTypes = Types(open)
  BY <1>1 DEF LInv, OpenShaped, Building, InMsg, OpenTypes
<1>3. /\ DOMAIN map = DOMAIN tpMap \cup {n} /\ map[n] = StructOf(n)
      /\ \A y \in DOMAIN tpMap : y # n => map[y] = tpMap[y]
  BY DEF Put
<1>4. Kept(tpMap, map)
  BY <1>1, KeptPut
<1>5. Linking(tpMap, resolved, decls, OpenTypes) /\ IsSequence(decls) /\ Len(decls) \in Nat
  BY DeclsSequence DEF LInv, IsSequence
<1> HIDE DEF map
<1>6. ASSUME NEW u, Good(u, tpMap, decls, Len(decls)) PROVE Good(u, map, decls, Len(decls))
  BY <1>4, <1>5, <1>6, GoodStays
<1>7. \A u \in Types(open) : Good(u, map, decls, Len(decls))
  BY <1>2, <1>5, <1>6 DEF Linking, OpenGood
<1>8. ASSUME NEW y \in DOMAIN map
      PROVE  Good(map[y], map, decls, Len(decls)) \/ (map[y] = StructOf(y) /\ Declares(open, y))
  <2>1. CASE y = n
    BY <1>2, <1>3, <2>1 DEF Declares, Building
  <2>2. CASE y \in DOMAIN tpMap /\ y # n
    BY <1>3, <1>5, <1>6, <2>2 DEF Linking, MapGood
  <2> QED
    BY <1>3, <2>1, <2>2
<1>9. ASSUME NEW y \in DOMAIN map, map[y] = Undef(y, NilType) PROVE y \in DOMAIN tpMap
  BY <1>3, <1>9, ElemFacts
<1>10. Shaped(open) /\ open.kind = "msg"
  BY <1>2 DEF Building
<1>11. Joins(open, tpMap, map, decls)
  BY <1>3, <1>7, <1>8, <1>9, <1>10 DEF Joins
<1>12. ~Resolves(open, resolved)
  BY <1>10 DEF Resolves
<1>13. ResGood(map, resolved, Append(decls, open))
  BY <1>4, <1>5, <1>12, ResolutionsStay DEF Linking
<1>14. Types(open) \subseteq Types(open)
  OBVIOUS
<1>15. Linking(map, resolved, Append(decls, open), {})
  BY <1>2, <1>4, <1>5, <1>11, <1>13, <1>14, LinkingMore
<1> QED
  BY <1>1, <1>15, AtTopLinked

LEMMA MsgLinks ==
  ASSUME LInv, DInv, PInv, \/ EnterMsg \/ Note \/ LimitBy \/ AtMost \/ EqualTo \/ XorWith \/ ExistIf \/ EndField
  PROVE  LInv'
<1>b. ASSUME InMsg PROVE Building(open) /\ {"kind", "name"} \subseteq DOMAIN open /\ OpenTypes = Types(open)
  BY <1>b DEF LInv, OpenShaped, Building, DInv, OpenInv, InMsg, OpenTypes
<1>1. CASE EnterMsg
  <2> DEFINE d == [kind |-> "msg", name |-> Tok(pos + 1).v, fields |-> <<>>, notes |-> <<>>]
  <2>1. Turn("fields", d, pos + 3) /\ OpenTypes = {}
    BY <1>1, TopTypes DEF EnterMsg, AtTop
  <2>2. Building(d) /\ Types(d) = {}
    BY DEF Building, Shaped, IsSequence, Types
  <2> HIDE DEF d
  <2> QED
    BY <2>1, <2>2, TurnLinked
<1>2. CASE Note
  <2> DEFINE e == Noted(open, Tok(pos).v)
  <2>1. Turn(at, e, pos + 1)
    BY <1>2 DEF Note
  <2>2. CASE InMsg
    <3>1. Building(e) /\ Types(e) = OpenTypes
      BY <1>b, <2>2, BuildingNoted
    <3> HIDE DEF e
    <3> QED
      BY <2>1, <2>2, <3>1, TurnLinked DEF InMsg
  <2>3. CASE ~InMsg
    <3>1. OpenTypes = {}
      BY <2>3 DEF OpenTypes
    <3> HIDE DEF e
    <3> QED
      BY <2>1, <2>3, <3>1, TurnLinked DEF InMsg
  <2> QED
    BY <2>2, <2>3
<1>3. CASE LimitBy \/ AtMost \/ EqualTo \/ XorWith \/ ExistIf
  <2>1. InMsg
    BY <1>3 DEF LimitBy, AtMost, EqualTo, XorWith, ExistIf, InField, InMsg
  <2>2. \E part \in {"limit", "max", "equ", "xor", "existIf"} : \E v, next : Described(part, v, next)
    BY <1>3 DEF LimitBy, AtMost, EqualTo, XorWith, ExistIf
  <2> QED
    BY <2>1, <2>2, DescribedLinks
<1>4. CASE EndField
  <2> DEFINE e == With(open, Len(open.fields), "comment", Tok(pos).v)
  <2>1. InMsg /\ (Turn("fields", e, pos + 1) \/ Turn("fields", open, pos))
    BY <1>4 DEF EndField, InMsg, With
  <2>2. Building(e) /\ Types(e) = Types(open)
    BY <1>b, <2>1, BuildingOn
  <2> HIDE DEF e
  <2> QED
    BY <1>b, <2>1, <2>2, TurnLinked
<1> QED
  BY <1>1, <1>2, <1>3, <1>4

LEMMA LInvInit == Init => LInv
<1> SUFFICES ASSUME Init PROVE LInv
  OBVIOUS
<1>1. /\ at = "top" /\ decls = <<>> /\ DOMAIN resolved = {}
      /\ tpMap = [n \in Builtins |-> Prim(n)]
  BY DEF Init
<1>2. OpenTypes = {} /\ OpenShaped
  BY <1>1 DEF OpenTypes, OpenShaped, InMsg
<1>3. \A n \in DOMAIN tpMap : tpMap[n] = Prim(n)
  BY <1>1
<1>4. MapGood(tpMap, decls)
  BY <1>3, ElemFacts DEF MapGood, Good, GoodElem
<1>5. MapMet(tpMap, decls, {})
  BY <1>3, ElemFacts DEF MapMet
<1>6. OpenGood({}, tpMap, decls) /\ DeclsGood(tpMap, decls) /\ ResGood(tpMap, resolved, decls)
  BY <1>1 DEF OpenGood, DeclsGood, ResGood
<1> QED
  BY <1>2, <1>4, <1>5, <1>6 DEF LInv, Linking

LEMMA LInvNext == LInv /\ DInv /\ PInv /\ [Next]_vars => LInv'
<1> SUFFICES ASSUME LInv, DInv, PInv, [Next]_vars PROVE LInv'
  OBVIOUS
<1>1. CASE Done \/ Panic \/ UNCHANGED vars
  <2>1. UNCHANGED <<at, open, tpMap, resolved, decls>>
    BY <1>1, PanicStops DEF Done, Stop, vars
  <2>2. OpenShaped' /\ OpenTypes' = OpenTypes
    BY <2>1 DEF LInv, OpenShaped, OpenTypes, InMsg
  <2> QED
    BY <2>1, <2>2 DEF LInv
<1> QED
  BY <1>1, TopLinks, GroupLinks, MsgLinks, FieldLinks, LeaveMsgLinks DEF Next, Turns

(* Linking the forward references of a program changes no kind and no name *)
(* of a declaration.                                                       *)
LEMMA DeliveredNames ==
  ASSUME DInv
  PROVE  /\ DOMAIN Delivered = DOMAIN decls
         /\ \A i \in DOMAIN decls : /\ Delivered[i].kind = decls[i].kind
                                    /\ DeclaresType(decls[i]) => Delivered[i].name = decls[i].name
<1> SUFFICES ASSUME NEW i \in DOMAIN decls
             PROVE  /\ Delivered[i].kind = decls[i].kind
                    /\ DeclaresType(decls[i]) => Delivered[i].name = decls[i].name
  BY DEF Delivered
<1>1. "kind" \in DOMAIN decls[i] /\ (DeclaresType(decls[i]) => "name" \in DOMAIN decls[i])
  BY DEF DInv, DeclInv
<1>2. CASE decls[i].kind = "msg"
  BY <1>1, <1>2 DEF Delivered, DeclaresType
<1>3. CASE decls[i].kind = "extern"
  BY <1>1, <1>3 DEF Delivered, DeclaresType
<1>4. CASE decls[i].kind = "typedef"
  BY <1>1, <1>4 DEF Delivered, DeclaresType
<1>5. CASE decls[i].kind \notin {"msg", "extern", "typedef"}
  BY <1>5 DEF Delivered, DeclaresType
<1> QED
  BY <1>2, <1>3, <1>4, <1>5

(* The types of a program as they are delivered.                           *)
LEMMA LinkedElem ==
  ASSUME NEW t
  PROVE  Elem(Linked(t)) = IF Elem(t).k = "undef" THEN Undef(Elem(t).name, Resolution(Elem(t).name)) ELSE Elem(t)
<1>1. CASE t.k = "undef"
  BY <1>1, ElemFacts DEF Linked
<1>2. CASE t.k = "array" /\ t.elem.k = "undef"
  <2>1. Linked(t) = ArrayOf(Undef(t.elem.name, Resolution(t.elem.name)))
    BY <1>2 DEF Linked
  <2> QED
    BY <1>2, <2>1, ElemFacts DEF Elem
<1>3. CASE t.k # "undef" /\ ~(t.k = "array" /\ t.elem.k = "undef")
  <2>1. Linked(t) = t
    BY <1>3 DEF Linked
  <2>2. Elem(t).k # "undef"
    BY <1>3 DEF Elem
  <2> QED
    BY <2>1, <2>2
<1> QED
  BY <1>1, <1>2, <1>3

LEMMA DeliveredTypes ==
  ASSUME DInv, LInv, NEW i \in DOMAIN decls
  PROVE  /\ Mentioned(Delivered[i]) = {Elem(Linked(t)) : t \in Types(decls[i])}
         /\ decls[i].kind = "typedef" => Delivered[i].impl = Linked(decls[i].impl)
<1> DEFINE d == decls[i]
           e == Delivered[i]
<1>1. Shaped(d) /\ "kind" \in DOMAIN d
  BY DEF LInv, Linking, DeclsGood, DInv, DeclInv
<1>2. CASE d.kind = "msg"
  <2> DEFINE fs == [k \in DOMAIN d.fields |-> [d.fields[k] EXCEPT !.type = Linked(@)]]
  <2>1. e = [d EXCEPT !.fields = fs]
    BY <1>2 DEF Delivered
  <2>2. \A k \in DOMAIN d.fields : fs[k].type = Linked(d.fields[k].type)
    BY <1>1, <1>2 DEF Shaped
  <2>3. DOMAIN fs = DOMAIN d.fields
    OBVIOUS
  <2> HIDE DEF fs
  <2>4. e.kind = "msg" /\ e.fields = fs
    BY <1>1, <1>2, <2>1 DEF Shaped
  <2> HIDE DEF e, d
  <2>5. Mentioned(e) = {Elem(fs[k].type) : k \in DOMAIN d.fields}
    BY <2>3, <2>4 DEF Mentioned
  <2>6. Types(d) = {d.fields[k].type : k \in DOMAIN d.fields}
    BY <1>2 DEF Types
  <2>7. Mentioned(e) = {Elem(Linked(t)) : t \in Types(d)}
    BY <2>2, <2>5, <2>6
  <2> QED
    BY <1>2, <2>7 DEF d, e
<1>3. CASE d.kind = "extern"
  <2>1. e = [d EXCEPT !.type = Linked(@)]
    BY <1>3 DEF Delivered
  <2>2. e.kind = "extern" /\ e.type = Linked(d.type)
    BY <1>1, <1>3, <2>1 DEF Shaped
  <2> QED
    BY <1>3, <2>2 DEF Mentioned, Types
<1>4. CASE d.kind = "typedef"
  <2>1. e = [d EXCEPT !.impl = Linked(@)]
    BY <1>4 DEF Delivered
  <2>2. e.kind = "typedef" /\ e.impl = Linked(d.impl)
    BY <1>1, <1>4, <2>1 DEF Shaped
  <2> QED
    BY <1>4, <2>2 DEF Mentioned, Types
<1>5. CASE d.kind \notin {"msg", "extern", "typedef"}
  <2>1. e = d
    BY <1>5 DEF Delivered
  <2> QED
    BY <1>5, <2>1 DEF Mentioned, Types
<1> QED
  BY <1>2, <1>3, <1>4, <1>5

(* A struct is mentioned after the declaration of its message.             *)
LEMMA StructsLinked == ASSUME DInv, LInv PROVE StructsBefore(Delivered)
<1> SUFFICES ASSUME NEW i \in DOMAIN decls, NEW u \in Mentioned(Delivered[i]), u.k = "struct"
             PROVE  \E j \in 1..i - 1 : Delivered[j].kind = "msg" /\ Delivered[j].name = u.name
  BY DeliveredNames DEF StructsBefore
<1>1. PICK t \in Types(decls[i]) : u = Elem(Linked(t))
  BY DeliveredTypes
<1>2. u = Elem(t)
  BY <1>1, LinkedElem, ElemFacts
<1>3. Good(t, tpMap, decls, i - 1)
  BY DEF LInv, Linking, DeclsGood
<1>4. PICK j \in 1..i - 1 : Declares(decls[j], u.name)
  BY <1>2, <1>3 DEF Good, GoodElem
<1>5. j \in DOMAIN decls
  BY DEF DInv, DeclInv
<1>6. Delivered[j].kind = "msg" /\ Delivered[j].name = u.name
  BY <1>4, <1>5, DeliveredNames DEF Declares, DeclaresType
<1> QED
  BY <1>6

(* The resolution of a name is as it is written in the declaration.        *)
LEMMA ShallowLinked ==
  ASSUME NEW t, t.k # "undef", t.k = "array" => t = ArrayOf(t.elem),
         t.k = "array" /\ t.elem.k = "undef" => t.elem = Undef(t.elem.name, NilType)
  PROVE  Shallow(Linked(t)) = t
<1>1. CASE t.k = "array" /\ t.elem.k = "undef"
  <2> DEFINE r == Resolution(t.elem.name)
  <2>1. Linked(t) = ArrayOf(Undef(t.elem.name, r))
    BY <1>1 DEF Linked
  <2> HIDE DEF r
  <2>2. Shallow(ArrayOf(Undef(t.elem.name, r))) = ArrayOf(Undef(t.elem.name, NilType))
    BY ElemFacts DEF Shallow
  <2> QED
    BY <1>1, <2>1, <2>2
<1>2. CASE ~(t.k = "array" /\ t.elem.k = "undef")
  <2>1. Linked(t) = t
    BY <1>2 DEF Linked
  <2> QED
    BY <1>2, <2>1 DEF Shallow
<1> QED
  BY <1>1, <1>2

LEMMA ForwardLinked == ASSUME DInv, LInv PROVE ForwardResolved(Delivered)
<1> DEFINE ds == Delivered
<1>n. /\ DOMAIN ds = DOMAIN decls
      /\ \A i \in DOMAIN decls : /\ ds[i].kind = decls[i].kind
                                 /\ DeclaresType(decls[i]) => ds[i].name = decls[i].name
                                 /\ DeclaresType(ds[i]) <=> DeclaresType(decls[i])
  BY DeliveredNames DEF DeclaresType
<1>t. \A i \in DOMAIN decls : \A x : x \in Mentioned(ds[i]) <=> \E t \in Types(decls[i]) : x = Elem(Linked(t))
  <2> SUFFICES ASSUME NEW i \in DOMAIN decls, NEW x
               PROVE  x \in Mentioned(ds[i]) <=> \E t \in Types(decls[i]) : x = Elem(Linked(t))
    OBVIOUS
  <2>1. Mentioned(ds[i]) = {Elem(Linked(t)) : t \in Types(decls[i])}
    BY DeliveredTypes
  <2> QED
    BY <2>1
<1>p. \A i \in DOMAIN decls : decls[i].kind = "typedef" => ds[i].impl = Linked(decls[i].impl)
  BY DeliveredTypes
<1> HIDE DEF ds
<1> SUFFICES ASSUME NEW i \in DOMAIN decls, NEW u \in Mentioned(ds[i]), u.k = "undef"
             PROVE  /\ \A j \in DOMAIN decls : DeclaresType(ds[j]) /\ ds[j].name = u.name =>
                         /\ ds[j].kind = "typedef"
                         /\ \E l \in 1..j : \E w \in Mentioned(ds[l]) : w = u \/ w.k = "array"
                         /\ u.resolved = Shallow(ds[j].impl)
                    /\ u.name \notin TypeNames(ds) => u.resolved = NilType
  BY <1>n DEF ForwardResolved, ds
<1> DEFINE n == u.name
<1>1. PICK t \in Types(decls[i]) : u = Elem(Linked(t))
  BY <1>t
<1>2. Elem(t).k = "undef" /\ n = Elem(t).name /\ u = Undef(n, Resolution(n))
  BY <1>1, LinkedElem, ElemFacts
<1>3. Good(t, tpMap, decls, i - 1)
  BY DEF LInv, Linking, DeclsGood
<1>4. n \in DOMAIN tpMap /\ tpMap[n] = Undef(n, NilType)
  BY <1>2, <1>3 DEF Good, GoodElem
<1>r. u.resolved = Resolution(n)
  BY <1>2, ElemFacts
<1> HIDE DEF n
<1>5. ASSUME NEW j \in DOMAIN decls, DeclaresType(ds[j]), ds[j].name = n
      PROVE  /\ ds[j].kind = "typedef"
             /\ \E l \in 1..j : \E w \in Mentioned(ds[l]) : w = u \/ w.k = "array"
             /\ u.resolved = Shallow(ds[j].impl)
  <2>1. DeclaresType(decls[j]) /\ decls[j].name = n
    BY <1>5, <1>n
  <2>2. decls[j].kind = "typedef"
    <3>1. decls[j].kind = "msg" => tpMap[n] = StructOf(n)
      BY <2>1 DEF LInv, Linking, DeclsGood
    <3> QED
      BY <1>4, <2>1, <3>1, ElemFacts DEF DeclaresType
  <2>3. n \in DOMAIN resolved
    BY <1>4, <2>1 DEF DInv, DeclInv, Settled
  <2>4. /\ resolved[n] = decls[j].impl /\ resolved[n].k # "undef"
        /\ \E l \in 1..j : Met(n, Types(decls[l]))
    BY <2>1, <2>2, <2>3 DEF LInv, Linking, ResGood, Resolves
  <2>5. Good(decls[j].impl, tpMap, decls, j - 1)
    BY <2>2 DEF LInv, Linking, DeclsGood, Types
  <2>6. Shallow(Linked(decls[j].impl)) = decls[j].impl
    <3> DEFINE p == decls[j].impl
    <3>1. p.k # "undef" /\ (p.k = "array" => p = ArrayOf(p.elem))
      BY <2>4, <2>5 DEF Good
    <3>2. p.k = "array" => Elem(p) = p.elem
      BY DEF Elem
    <3>3. p.k = "array" /\ p.elem.k = "undef" => p.elem = Undef(p.elem.name, NilType)
      BY <2>5, <3>2 DEF Good, GoodElem
    <3> HIDE DEF p
    <3>4. Shallow(Linked(p)) = p
      BY <3>1, <3>3, ShallowLinked
    <3> QED
      BY <3>4 DEF p
  <2>7. u.resolved = Shallow(ds[j].impl)
    BY <1>r, <1>p, <2>2, <2>3, <2>4, <2>6 DEF Resolution
  <2>8. \E l \in 1..j : \E w \in Mentioned(ds[l]) : w = u \/ w.k = "array"
    <3>0. PICK l \in 1..j : Met(n, Types(decls[l]))
      BY <2>4
    <3>1. PICK p \in Types(decls[l]) : Elem(p) = Undef(n, NilType) \/ Elem(p).k = "array"
      BY <3>0 DEF Met
    <3>2. Elem(Linked(p)) = u \/ Elem(Linked(p)).k = "array"
      BY <1>2, <3>1, LinkedElem, ElemFacts
    <3>3. l \in DOMAIN decls
      BY DEF DInv, DeclInv
    <3> QED
      BY <1>t, <3>2, <3>3
  <2> QED
    BY <1>n, <2>2, <2>7, <2>8
<1>6. ASSUME n \notin TypeNames(ds) PROVE u.resolved = NilType
  <2>1. SUFFICES ASSUME n \in DOMAIN resolved PROVE FALSE
    BY <1>r DEF Resolution
  <2>2. PICK j \in DOMAIN decls : decls[j].kind = "typedef" /\ decls[j].name = n
    BY <2>1 DEF LInv, Linking, ResGood
  <2>3. DeclaresType(decls[j])
    BY <2>2 DEF DeclaresType
  <2> QED
    BY <1>6, <1>n, <2>2, <2>3 DEF TypeNames
<1> QED
  BY <1>5, <1>6 DEF n

LEMMA UniqueLinked == ASSUME DInv PROVE TypesUnique(Delivered)
<1>1. TypesUnique(decls)
  BY DEF DInv, DeclInv
<1> DEFINE ds == Delivered
<1>2. /\ DOMAIN ds = DOMAIN decls
      /\ \A i \in DOMAIN decls : /\ ds[i].kind = decls[i].kind
                                 /\ DeclaresType(decls[i]) => ds[i].name = decls[i].name
  BY DeliveredNames
<1> HIDE DEF ds
<1>3. \A i \in DOMAIN decls : DeclaresType(ds[i]) <=> DeclaresType(decls[i])
  BY <1>2 DEF DeclaresType
<1>4. TypesUnique(ds)
  BY <1>1, <1>2, <1>3 DEF TypesUnique
<1> QED
  BY <1>4 DEF ds

LEMMA DeclaredLinked == ASSUME DInv, LInv PROVE TypesResolved(Delivered)
  BY UniqueLinked, StructsLinked, ForwardLinked DEF TypesResolved

(* No type name is declared twice in a program that has been parsed, nor   *)
(* in any part of it: declarations refuses a message whose name is in the  *)
(* map, type_def one that is no reference still to be resolved.  It is the *)
(* first thing the analyser takes for granted (Contract).                  *)
THEOREM DeclaredOnce == Spec => []TypesUnique(Delivered)
<1>1. DInv => TypesUnique(Delivered)
  BY UniqueLinked
<1> QED
  BY <1>1, DInvariance, PTL

(* What the analyser and the interpreter take for granted of a program     *)
(* holds of every one the parser delivers, whatever the text: no type is   *)
(* declared twice, a struct is that of a message declared before, and a    *)
(* forward reference holds what the type declaration of its name says, or  *)
(* nothing if there is none (declarations, type_def, type_spec).           *)
THEOREM ProgramsAreLinked == Spec => []Contract
<1>1. DInv /\ LInv => Contract
  BY DeclaredLinked DEF Contract
<1>2. LInv /\ (DInv /\ PInv) /\ [Next]_vars => LInv'
  BY LInvNext
<1> QED
  BY <1>1, <1>2, LInvInit, DInvariance, PTL DEF Spec

-----------------------------------------------------------------------------
(* What is read of a text is what is written of the program (Faithful).    *)
(*                                                                         *)
(* Read(p) is what is read of the first p tokens; a declaration, and a     *)
(* group or message under construction, has its words (DeclText, Ahead).   *)
(* FaithInv says that Read(pos - 1) is the words of the program so far.    *)
(* First come sequences and FlattenSeq, then what single tokens and the    *)
(* parts of a declaration read, the invariant, a lemma for every turn      *)
(* (ConstHeard, ...) and the theorem.                                      *)

(* Sequences, whatever they are of, put together.                          *)
Str(s) == \E S : s \in Seq(S)

LEMMA StrShape ==
  ASSUME NEW s, Str(s)
  PROVE  /\ IsSequence(s) /\ Len(s) \in Nat /\ DOMAIN s = 1..Len(s)
         /\ s = <<>> <=> Len(s) = 0
  BY DEF Str, IsSequence

LEMMA StrWord == Str(<<>>) /\ \A x : Str(<<x>>) /\ Len(<<x>>) = 1
<1>1. <<>> \in Seq({}) /\ \A x : <<x>> \in Seq({x})
  OBVIOUS
<1> QED
  BY <1>1 DEF Str

LEMMA StrJoin ==
  ASSUME NEW s, Str(s), NEW t, Str(t)
  PROVE  /\ Str(s \o t) /\ Len(s \o t) = Len(s) + Len(t)
         /\ s \o t = <<>> <=> s = <<>> /\ t = <<>>
<1>1. PICK S : s \in Seq(S)
  BY DEF Str
<1>2. PICK T : t \in Seq(T)
  BY DEF Str
<1>3. s \in Seq(S \cup T) /\ t \in Seq(S \cup T)
  BY <1>1, <1>2
<1> QED
  BY <1>3 DEF Str

LEMMA StrAssoc ==
  ASSUME NEW s, Str(s), NEW t, Str(t), NEW u, Str(u)
  PROVE  (s \o t) \o u = s \o (t \o u)
<1>1. PICK S : s \in Seq(S)
  BY DEF Str
<1>2. PICK T : t \in Seq(T)
  BY DEF Str
<1>3. PICK U : u \in Seq(U)
  BY DEF Str
<1>4. s \in Seq(S \cup T \cup U) /\ t \in Seq(S \cup T \cup U) /\ u \in Seq(S \cup T \cup U)
  BY <1>1, <1>2, <1>3
<1>5. s \o t \in Seq(S \cup T \cup U) /\ t \o u \in Seq(S \cup T \cup U)
  BY <1>4
<1> QED
  BY <1>4, <1>5

LEMMA StrNothing ==
  ASSUME NEW s, Str(s)
  PROVE  <<>> \o s = s /\ s \o <<>> = s
<1>1. PICK S : s \in Seq(S)
  BY DEF Str
<1> QED
  BY <1>1

LEMMA StrAppend ==
  ASSUME NEW s, Str(s), NEW x
  PROVE  /\ Append(s, x) = s \o <<x>> /\ Str(Append(s, x)) /\ Len(Append(s, x)) = Len(s) + 1
         /\ Append(s, x)[Len(s) + 1] = x
         /\ \A k \in 1..Len(s) : Append(s, x)[k] = s[k]
<1>1. PICK S : s \in Seq(S)
  BY DEF Str
<1>2. s \in Seq(S \cup {x}) /\ <<x>> \in Seq(S \cup {x}) /\ x \in S \cup {x}
  BY <1>1
<1>3. Append(s, x) \in Seq(S \cup {x}) /\ Append(s, x) = s \o <<x>>
  BY <1>2
<1> QED
  BY <1>2, <1>3 DEF Str

(* A function on 1..n is a sequence.                                       *)
LEMMA StrMade ==
  ASSUME NEW n \in Nat, NEW f, f = [k \in 1..n |-> f[k]]
  PROVE  Str(f) /\ Len(f) = n
<1> DEFINE S == {f[k] : k \in 1..n}
<1>1. f \in [1..n -> S]
  <2>1. \A k \in 1..n : f[k] \in S
    OBVIOUS
  <2> HIDE DEF S
  <2> QED
    BY <2>1
<1> HIDE DEF S
<1>2. f \in Seq(S) /\ Len(f) = n
  BY <1>1
<1> QED
  BY <1>2 DEF Str

(* FlattenSeq: f[k] is what the first k parts are together.                *)
Flats(f, parts) ==
  /\ f[0] = <<>>
  /\ \A k \in 1..Len(parts) : f[k] = f[k-1] \o parts[k]

Parts(s) == Str(s) /\ \A k \in DOMAIN s : Str(s[k])

LEMMA FlatsStr ==
  ASSUME NEW s, Parts(s), NEW f, Flats(f, s)
  PROVE  \A k \in 0..Len(s) : Str(f[k])
<1> DEFINE T == {n \in Nat : n <= Len(s) => Str(f[n])}
<1>0. Len(s) \in Nat /\ DOMAIN s = 1..Len(s)
  BY StrShape DEF Parts
<1>1. 0 \in T
  BY StrWord DEF Flats
<1>2. ASSUME NEW n \in Nat, n \in T PROVE n + 1 \in T
  <2>1. SUFFICES ASSUME n + 1 <= Len(s) PROVE Str(f[n+1])
    OBVIOUS
  <2>2. n + 1 \in 1..Len(s) /\ (n + 1) - 1 = n
    BY <1>0, <2>1
  <2>3. Str(f[n]) /\ Str(s[n+1])
    BY <1>0, <1>2, <2>1, <2>2 DEF Parts
  <2>4. f[n+1] = f[n] \o s[n+1]
    BY <2>2 DEF Flats
  <2> QED
    BY <2>3, <2>4, StrJoin
<1>3. Nat \subseteq T
  <2> HIDE DEF T
  <2> QED
    BY <1>1, <1>2, SetInduction
<1> QED
  BY <1>0, <1>3

LEMMA FlattenIs ==
  ASSUME NEW s, Parts(s)
  PROVE  \E f : Flats(f, s) /\ FlattenSeq(s) = f[Len(s)]
<1> DEFINE n == Len(s)
           Step(g, i) == IF i = 1 THEN s[i] ELSE g[i-1] \o s[i]
           T == {m \in Nat : \E g : g = [i \in 1..m |-> Step(g, i)]}
<1>0. n \in Nat /\ DOMAIN s = 1..n /\ (s = <<>> <=> n = 0)
  BY StrShape DEF Parts
<1> HIDE DEF n
<1>1. 0 \in T
  <2> DEFINE g == [i \in 1..0 |-> <<>>]
  <2>1. g = [i \in 1..0 |-> Step(g, i)]
    OBVIOUS
  <2> QED
    BY <2>1
<1>2. ASSUME NEW m \in Nat, m \in T PROVE m + 1 \in T
  <2>1. PICK g : g = [i \in 1..m |-> Step(g, i)]
    BY <1>2
  <2> DEFINE h == [i \in 1..m+1 |-> IF i = m + 1 THEN Step(g, i) ELSE g[i]]
  <2>2. ASSUME NEW i \in 1..m+1 PROVE h[i] = Step(h, i)
    <3>1. i # 1 => h[i-1] = g[i-1]
      OBVIOUS
    <3>2. Step(h, i) = Step(g, i)
      BY <3>1
    <3>3. i # m + 1 => g[i] = Step(g, i)
      <4> HIDE DEF Step, h
      <4> QED
        BY <2>1
    <3> QED
      BY <3>2, <3>3
  <2>3. h = [i \in 1..m+1 |-> Step(h, i)]
    <3>1. h = [i \in 1..m+1 |-> h[i]]
      OBVIOUS
    <3> HIDE DEF h, Step
    <3> QED
      BY <2>2, <3>1
  <2> HIDE DEF h, Step
  <2>4. \E f : f = [i \in 1..m+1 |-> Step(f, i)]
    BY <2>3
  <2> QED
    BY <2>4
<1>3. n \in T
  <2> HIDE DEF T
  <2> QED
    BY <1>0, <1>1, <1>2, SetInduction
<1> DEFINE flatten == CHOOSE g : g = [i \in 1..n |-> Step(g, i)]
<1>4. flatten = [i \in 1..n |-> Step(flatten, i)]
  <2> HIDE DEF Step
  <2> QED
    BY <1>3
<1>5. n # 0 => FlattenSeq(s) = flatten[n]
  BY DEF FlattenSeq, n
<1>6. n = 0 => FlattenSeq(s) = <<>>
  BY <1>0 DEF FlattenSeq, n
<1> DEFINE f == [k \in 0..n |-> IF k = 0 THEN <<>> ELSE flatten[k]]
<1>7. ASSUME NEW k \in 1..n PROVE f[k] = f[k-1] \o s[k]
  <2>1. flatten[k] = Step(flatten, k)
    <3> HIDE DEF Step, flatten
    <3> QED
      BY <1>4
  <2>2. Str(s[k])
    BY <1>0 DEF Parts
  <2> HIDE DEF flatten
  <2>3. f[k] = flatten[k] /\ f[k-1] = IF k = 1 THEN <<>> ELSE flatten[k-1]
    BY <1>0
  <2>4. k = 1 => <<>> \o s[k] = s[k]
    BY <2>2, StrNothing
  <2> QED
    BY <2>1, <2>3, <2>4
<1>8. Flats(f, s)
  <2>1. f[0] = <<>>
    BY <1>0
  <2> HIDE DEF f
  <2> QED
    BY <1>7, <2>1 DEF Flats, n
<1>9. FlattenSeq(s) = f[n]
  <2> HIDE DEF flatten
  <2> QED
    BY <1>0, <1>5, <1>6
<1> HIDE DEF f
<1> QED
  BY <1>8, <1>9 DEF n

(* Two sequences of parts that begin alike begin alike when flattened.     *)
LEMMA FlatsAgree ==
  ASSUME NEW n \in Nat, NEW s, Str(s), n <= Len(s), NEW t, Str(t), n <= Len(t), \A k \in 1..n : s[k] = t[k],
         NEW f, Flats(f, s), NEW g, Flats(g, t)
  PROVE  \A k \in 0..n : f[k] = g[k]
<1> DEFINE T == {m \in Nat : m <= n => f[m] = g[m]}
<1>0. Len(s) \in Nat /\ Len(t) \in Nat
  BY StrShape
<1>1. 0 \in T
  BY DEF Flats
<1>2. ASSUME NEW m \in Nat, m \in T PROVE m + 1 \in T
  <2>1. SUFFICES ASSUME m + 1 <= n PROVE f[m+1] = g[m+1]
    OBVIOUS
  <2>2. m + 1 \in 1..Len(s) /\ m + 1 \in 1..Len(t) /\ m + 1 \in 1..n /\ (m + 1) - 1 = m
    BY <1>0, <2>1
  <2>3. f[m] = g[m] /\ s[m+1] = t[m+1]
    BY <1>2, <2>1, <2>2
  <2>4. f[m+1] = f[m] \o s[m+1] /\ g[m+1] = g[m] \o t[m+1]
    BY <2>2 DEF Flats
  <2> QED
    BY <2>3, <2>4
<1>3. Nat \subseteq T
  <2> HIDE DEF T
  <2> QED
    BY <1>1, <1>2, SetInduction
<1> QED
  BY <1>3

LEMMA FlattenEmpty == FlattenSeq(<<>>) = <<>>
  BY DEF FlattenSeq

LEMMA FlattenStr == ASSUME NEW s, Parts(s) PROVE Str(FlattenSeq(s))
<1>1. PICK f : Flats(f, s) /\ FlattenSeq(s) = f[Len(s)]
  BY FlattenIs
<1>2. Len(s) \in 0..Len(s)
  BY StrShape DEF Parts
<1> QED
  BY <1>1, <1>2, FlatsStr

(* The last part behind the others, whatever it is.                        *)
LEMMA FlattenLast ==
  ASSUME NEW s, Parts(s), NEW t, Parts(t), Len(s) = Len(t), Len(s) # 0,
         \A k \in 1..Len(s) - 1 : s[k] = t[k]
  PROVE  \E u : /\ Str(u) /\ FlattenSeq(s) = u \o s[Len(s)] /\ FlattenSeq(t) = u \o t[Len(s)]
<1> DEFINE n == Len(s)
<1>0. n \in Nat /\ n \in 1..n /\ Len(t) = n /\ Str(s) /\ Str(t) /\ n - 1 \in Nat /\ n - 1 \in 0..n /\ n - 1 <= n
  BY StrShape DEF Parts
<1>1. PICK f : Flats(f, s) /\ FlattenSeq(s) = f[n]
  BY FlattenIs
<1>2. PICK g : Flats(g, t) /\ FlattenSeq(t) = g[n]
  BY <1>0, FlattenIs
<1> HIDE DEF n
<1>3. \A k \in 0..n-1 : f[k] = g[k]
  <2> DEFINE m == n - 1
  <2>1. m \in Nat /\ m <= Len(s) /\ m <= Len(t) /\ \A k \in 1..m : s[k] = t[k]
    BY <1>0 DEF n
  <2> HIDE DEF m
  <2>2. \A k \in 0..m : f[k] = g[k]
    BY <1>0, <1>1, <1>2, <2>1, FlatsAgree
  <2> QED
    BY <2>2 DEF m
<1>4. f[n-1] = g[n-1] /\ Str(f[n-1])
  <2>1. \A k \in 0..Len(s) : Str(f[k])
    BY <1>1, FlatsStr
  <2> QED
    BY <1>0, <1>3, <2>1 DEF n
<1>5. f[n] = f[n-1] \o s[n] /\ g[n] = g[n-1] \o t[n]
  BY <1>0, <1>1, <1>2 DEF Flats, n
<1> QED
  BY <1>1, <1>2, <1>4, <1>5 DEF n

(* One more part.                                                          *)
LEMMA FlattenLonger ==
  ASSUME NEW s, Parts(s), NEW t, Str(t), Len(t) = Len(s) + 1, \A k \in 1..Len(s) : t[k] = s[k], Str(t[Len(t)])
  PROVE  Parts(t) /\ FlattenSeq(t) = FlattenSeq(s) \o t[Len(t)]
<1> DEFINE n == Len(s)
<1>s. n \in Nat /\ DOMAIN s = 1..n /\ Str(s)
  BY StrShape DEF Parts
<1>t. DOMAIN t = 1..n + 1 /\ Len(t) = n + 1
  BY StrShape
<1>0. \A k \in 1..n : t[k] = s[k]
  OBVIOUS
<1>l. n <= Len(s) /\ n <= Len(t)
  BY <1>s, <1>t
<1>p. Str(t[n + 1])
  BY <1>t
<1>1. Parts(t)
  <2>1. ASSUME NEW k \in 1..n + 1 PROVE Str(t[k])
    <3>1. CASE k = n + 1
      BY <1>p, <3>1
    <3>2. CASE k # n + 1
      <4>1. k \in 1..n
        BY <1>s, <3>2
      <4>2. Str(s[k]) /\ t[k] = s[k]
        BY <1>s, <4>1 DEF Parts
      <4> QED
        BY <4>2
    <3> QED
      BY <3>1, <3>2
  <2> HIDE DEF n
  <2> QED
    BY <1>t, <2>1 DEF Parts
<1>2. PICK f : Flats(f, s) /\ FlattenSeq(s) = f[n]
  BY FlattenIs
<1>3. PICK g : Flats(g, t) /\ FlattenSeq(t) = g[n + 1]
  BY <1>t, <1>1, FlattenIs
<1> HIDE DEF n
<1>4. \A k \in 0..n : f[k] = g[k]
  BY <1>s, <1>0, <1>l, <1>2, <1>3, FlatsAgree
<1>5. n + 1 \in 1..n + 1 /\ (n + 1) - 1 = n /\ n \in 0..n
  BY <1>s
<1>6. g[n + 1] = g[n] \o t[n + 1]
  <2>1. g[n + 1] = g[(n + 1) - 1] \o t[n + 1]
    BY <1>t, <1>3, <1>5 DEF Flats
  <2> QED
    BY <1>5, <2>1
<1>7. f[n] = g[n]
  BY <1>4, <1>5
<1> QED
  BY <1>t, <1>1, <1>2, <1>3, <1>6, <1>7

(* Parts that are all empty.                                               *)
LEMMA FlattenNothing ==
  ASSUME NEW s, Parts(s), \A k \in 1..Len(s) : s[k] = <<>>
  PROVE  FlattenSeq(s) = <<>>
<1> DEFINE n == Len(s)
<1>0. n \in Nat
  BY StrShape DEF Parts
<1>1. PICK f : Flats(f, s) /\ FlattenSeq(s) = f[n]
  BY FlattenIs
<1> DEFINE T == {m \in Nat : m <= n => f[m] = <<>>}
<1>2. 0 \in T
  BY <1>1 DEF Flats
<1>3. ASSUME NEW m \in Nat, m \in T PROVE m + 1 \in T
  <2>1. SUFFICES ASSUME m + 1 <= n PROVE f[m + 1] = <<>>
    OBVIOUS
  <2>2. m + 1 \in 1..n /\ (m + 1) - 1 = m /\ m <= n
    BY <1>0, <2>1
  <2>3. f[m + 1] = f[m] \o s[m + 1] /\ s[m + 1] = <<>> /\ f[m] = <<>>
    BY <1>1, <1>3, <2>2 DEF Flats
  <2> QED
    BY <2>3, StrWord, StrNothing
<1>4. Nat \subseteq T
  <2> HIDE DEF T
  <2> QED
    BY <1>2, <1>3, SetInduction
<1>5. n \in T
  BY <1>0, <1>4
<1> QED
  BY <1>1, <1>5

-----------------------------------------------------------------------------
(* What is read of a text up to a token, and what a turn reads.            *)
GoodText == IsSequence(text) /\ \A i \in DOMAIN text : IsToken(text[i])

Part(i) == IF Punctuation(i) THEN <<>> ELSE <<WordAt(i)>>
Remark(i) == IF Is(i, "SCOMMENT") THEN <<Tok(i).v>> ELSE <<>>

Read(p) == FlattenSeq([i \in 1..p |-> Part(i)])
Remarks(p) == FlattenSeq([i \in 1..p |-> Remark(i)])

Reads(a, b, ws, c) ==
  /\ a \in Nat \ {0} /\ b \in Nat /\ a <= b + 1 /\ b <= Len(text)
  /\ Str(ws) /\ c \in Nat
  /\ Read(b) = Read(a - 1) \o ws
  /\ Len(Remarks(b)) = Len(Remarks(a - 1)) + c

(* Words that stand at their place only.                                   *)
Loud == Keywords \cup {"DESC", "RBRACE", "EXIST"}
Calm(a, b) == \A j \in a..b : Tok(j).t \notin Loud

LEMMA PartStr == \A i : /\ Str(Part(i)) /\ Str(Remark(i))
                        /\ Len(Remark(i)) = IF Is(i, "SCOMMENT") THEN 1 ELSE 0
<1>1. \A i : Part(i) \in {<<>>, <<WordAt(i)>>} /\ Remark(i) \in {<<>>, <<Tok(i).v>>}
  BY DEF Part, Remark
<1>2. Len(<<>>) = 0
  OBVIOUS
<1> QED
  BY <1>1, <1>2, StrWord DEF Remark

LEMMA ReadParts ==
  ASSUME NEW p \in Nat
  PROVE  /\ Parts([i \in 1..p |-> Part(i)]) /\ Parts([i \in 1..p |-> Remark(i)])
         /\ Str(Read(p)) /\ Str(Remarks(p)) /\ Len(Remarks(p)) \in Nat
<1> DEFINE s == [i \in 1..p |-> Part(i)]
           r == [i \in 1..p |-> Remark(i)]
<1>1. /\ Str(s) /\ Len(s) = p /\ DOMAIN s = 1..p /\ \A k \in 1..p : s[k] = Part(k)
      /\ Str(r) /\ Len(r) = p /\ DOMAIN r = 1..p /\ \A k \in 1..p : r[k] = Remark(k)
  <2>1. s = [k \in 1..p |-> s[k]] /\ r = [k \in 1..p |-> r[k]]
    OBVIOUS
  <2> QED
    BY <2>1, StrMade
<1>2. Parts(s) /\ Parts(r)
  <2> HIDE DEF s, r
  <2> QED
    BY <1>1, PartStr DEF Parts
<1>3. Str(FlattenSeq(s)) /\ Str(FlattenSeq(r))
  BY <1>2, FlattenStr
<1> QED
  BY <1>2, <1>3, StrShape DEF Read, Remarks

LEMMA ReadNext ==
  ASSUME NEW p \in Nat
  PROVE  Read(p + 1) = Read(p) \o Part(p + 1) /\ Remarks(p + 1) = Remarks(p) \o Remark(p + 1)
<1> DEFINE s == [i \in 1..p |-> Part(i)]
           t == [i \in 1..p + 1 |-> Part(i)]
           r == [i \in 1..p |-> Remark(i)]
           u == [i \in 1..p + 1 |-> Remark(i)]
<1>1. p + 1 \in Nat
  OBVIOUS
<1>2. Parts(s) /\ Parts(r) /\ Parts(t) /\ Parts(u)
  BY <1>1, ReadParts
<1>3. /\ Len(s) = p /\ Len(t) = p + 1 /\ \A k \in 1..p : t[k] = s[k]
      /\ Len(r) = p /\ Len(u) = p + 1 /\ \A k \in 1..p : u[k] = r[k]
      /\ t[p + 1] = Part(p + 1) /\ u[p + 1] = Remark(p + 1)
  <2>1. /\ s = [k \in 1..p |-> s[k]] /\ r = [k \in 1..p |-> r[k]]
        /\ t = [k \in 1..p + 1 |-> t[k]] /\ u = [k \in 1..p + 1 |-> u[k]]
    OBVIOUS
  <2>2. Len(s) = p /\ Len(t) = p + 1 /\ Len(r) = p /\ Len(u) = p + 1
    BY <1>1, <2>1, StrMade
  <2>3. t[p + 1] = Part(p + 1) /\ u[p + 1] = Remark(p + 1)
    OBVIOUS
  <2>4. \A k \in 1..p : t[k] = s[k] /\ u[k] = r[k]
    OBVIOUS
  <2> QED
    BY <2>2, <2>3, <2>4
<1>4. FlattenSeq(t) = FlattenSeq(s) \o Part(p + 1) /\ FlattenSeq(u) = FlattenSeq(r) \o Remark(p + 1)
  <2> HIDE DEF s, t, r, u
  <2>1. Str(t) /\ Str(u)
    BY <1>2 DEF Parts
  <2>2. FlattenSeq(t) = FlattenSeq(s) \o t[Len(t)]
    <3>1. Len(t) = Len(s) + 1 /\ (\A k \in 1..Len(s) : t[k] = s[k]) /\ Str(t[Len(t)])
      BY <1>3, PartStr
    <3> QED
      BY <1>2, <2>1, <3>1, FlattenLonger
  <2>3. FlattenSeq(u) = FlattenSeq(r) \o u[Len(u)]
    <3>1. Len(u) = Len(r) + 1 /\ (\A k \in 1..Len(r) : u[k] = r[k]) /\ Str(u[Len(u)])
      BY <1>3, PartStr
    <3> QED
      BY <1>2, <2>1, <3>1, FlattenLonger
  <2> QED
    BY <1>3, <2>2, <2>3
<1> QED
  BY <1>4 DEF Read, Remarks

LEMMA ReadsNothing ==
  ASSUME GoodText, NEW a \in Nat \ {0}, a - 1 <= Len(text)
  PROVE  Reads(a, a - 1, <<>>, 0)
<1>1. a - 1 \in Nat
  OBVIOUS
<1>2. Str(Read(a - 1)) /\ Len(Remarks(a - 1)) \in Nat
  BY <1>1, ReadParts
<1> QED
  BY <1>1, <1>2, StrNothing, StrWord DEF Reads

(* One word after the other.                                               *)
LEMMA ReadsJoin ==
  ASSUME NEW a, NEW b, NEW ws, NEW c, Reads(a, b, ws, c), NEW e, NEW vs, NEW d, Reads(b + 1, e, vs, d)
  PROVE  Reads(a, e, ws \o vs, c + d)
<1>1. /\ a \in Nat \ {0} /\ b \in Nat /\ e \in Nat /\ a - 1 \in Nat /\ (b + 1) - 1 = b
      /\ a <= b + 1 /\ b + 1 <= e + 1 /\ e <= Len(text) /\ Str(ws) /\ Str(vs) /\ c \in Nat /\ d \in Nat
  BY DEF Reads
<1>2. Str(Read(a - 1)) /\ Len(Remarks(a - 1)) \in Nat
  BY <1>1, ReadParts
<1>3. /\ Read(b) = Read(a - 1) \o ws /\ Len(Remarks(b)) = Len(Remarks(a - 1)) + c
      /\ Read(e) = Read(b) \o vs /\ Len(Remarks(e)) = Len(Remarks(b)) + d
  <2>1. /\ Read(b) = Read(a - 1) \o ws /\ Len(Remarks(b)) = Len(Remarks(a - 1)) + c
        /\ Read(e) = Read((b + 1) - 1) \o vs /\ Len(Remarks(e)) = Len(Remarks((b + 1) - 1)) + d
    BY DEF Reads
  <2> QED
    BY <1>1, <2>1
<1>4. Read(e) = Read(a - 1) \o (ws \o vs)
  <2>1. (Read(a - 1) \o ws) \o vs = Read(a - 1) \o (ws \o vs)
    <3>1. Str(Read(a - 1)) /\ Str(ws) /\ Str(vs)
      BY <1>1, <1>2
    <3> QED
      BY <3>1, StrAssoc
  <2> QED
    BY <1>3, <2>1
<1>5. Len(Remarks(e)) = Len(Remarks(a - 1)) + (c + d) /\ c + d \in Nat
  BY <1>1, <1>2, <1>3
<1>6. Str(ws \o vs)
  BY <1>1, StrJoin
<1>7. a <= e + 1
  BY <1>1
<1> QED
  BY <1>1, <1>4, <1>5, <1>6, <1>7 DEF Reads

LEMMA CalmJoin ==
  ASSUME NEW a \in Nat, NEW b \in Int, Calm(a, b), NEW e \in Int, Calm(b + 1, e)
  PROVE  Calm(a, e)
  BY DEF Calm

LEMMA CalmOne == ASSUME NEW a \in Nat, Tok(a).t \notin Loud PROVE Calm(a, a)
  BY DEF Calm

LEMMA ReadsThen ==
  ASSUME NEW a, NEW b, NEW ws, NEW c, Reads(a, b, ws, c),
         NEW m, m = b + 1, NEW e, NEW vs, NEW d, Reads(m, e, vs, d), NEW x, x = c + d
  PROVE  /\ Reads(a, e, ws \o vs, x)
         /\ Calm(a, b) /\ Calm(m, e) => Calm(a, e)
         /\ Calm(a + 1, b) /\ Calm(m, e) => Calm(a + 1, e)
<1>1. a \in Nat /\ b \in Nat /\ e \in Nat
  BY DEF Reads
<1>2. Reads(a, e, ws \o vs, c + d)
  BY ReadsJoin
<1>3. \A l \in {a, a + 1} : Calm(l, b) /\ Calm(m, e) => Calm(l, e)
  BY <1>1 DEF Calm
<1> QED
  BY <1>2, <1>3

(* Single words.                                                           *)
LEMMA TokenIn ==
  ASSUME GoodText, NEW i \in Nat \ {0}, ~Is(i, "EOF")
  PROVE  i \in DOMAIN text /\ i <= Len(text) /\ Tok(i) = text[i] /\ IsToken(Tok(i))
  BY DEF GoodText, Is, Tok, EOF, IsSequence

LEMMA ReadsOne ==
  ASSUME GoodText, NEW i \in Nat \ {0}, ~Is(i, "EOF")
  PROVE  Reads(i, i, Part(i), IF Is(i, "SCOMMENT") THEN 1 ELSE 0)
<1>1. i - 1 \in Nat /\ (i - 1) + 1 = i /\ i <= Len(text)
  BY TokenIn
<1>2. Read(i) = Read(i - 1) \o Part(i) /\ Remarks(i) = Remarks(i - 1) \o Remark(i)
  <2> DEFINE p == i - 1
  <2>1. Read(p + 1) = Read(p) \o Part(p + 1) /\ Remarks(p + 1) = Remarks(p) \o Remark(p + 1)
    BY <1>1, ReadNext
  <2> QED
    BY <1>1, <2>1
<1>3. Str(Remarks(i - 1)) /\ Len(Remarks(i - 1)) \in Nat
  BY <1>1, ReadParts
<1>4. Len(Remarks(i)) = Len(Remarks(i - 1)) + Len(Remark(i))
  BY <1>2, <1>3, PartStr, StrJoin
<1>5. Str(Part(i)) /\ Len(Remark(i)) = IF Is(i, "SCOMMENT") THEN 1 ELSE 0
  BY PartStr
<1>6. i \in Nat /\ i <= i + 1 /\ (IF Is(i, "SCOMMENT") THEN 1 ELSE 0) \in Nat
  OBVIOUS
<1> QED
  BY <1>1, <1>2, <1>4, <1>5, <1>6 DEF Reads

LEMMA WordsOne == \A x : Words(<<x>>) = <<Word(x, NoName)>> /\ Str(Words(<<x>>)) /\ Words(<<x>>) # <<>>
<1>1. ASSUME NEW x PROVE Words(<<x>>) = <<Word(x, NoName)>>
  BY DEF Words
<1>2. \A y : <<y>> # <<>>
  OBVIOUS
<1> QED
  BY <1>1, <1>2, StrWord

LEMMA WordsTwo == \A x, y : Words(<<x, y>>) = Words(<<x>>) \o Words(<<y>>)
<1> SUFFICES ASSUME NEW x, NEW y PROVE Words(<<x, y>>) = Words(<<x>>) \o Words(<<y>>)
  OBVIOUS
<1>1. Words(<<x, y>>) = <<Word(x, NoName), Word(y, NoName)>>
  BY DEF Words
<1> DEFINE a == Word(x, NoName)
           b == Word(y, NoName)
<1>2. <<a, b>> = <<a>> \o <<b>>
  <2>1. <<a>> \in Seq({a, b}) /\ <<b>> \in Seq({a, b})
    OBVIOUS
  <2> HIDE DEF a, b
  <2>2. Len(<<a>> \o <<b>>) = 2 /\ (<<a>> \o <<b>>)[1] = a /\ (<<a>> \o <<b>>)[2] = b
    BY <2>1
  <2>3. <<a>> \o <<b>> \in Seq({a, b})
    BY <2>1
  <2> DEFINE u == <<a>> \o <<b>>
             w == <<a, b>>
  <2>4. w \in Seq({a, b}) /\ Len(w) = 2 /\ w[1] = a /\ w[2] = b
    OBVIOUS
  <2> HIDE DEF w, u
  <2>e. u \in Seq({a, b}) /\ Len(u) = 2
    BY <2>2, <2>3 DEF u
  <2>5. u \in [1..2 -> {a, b}] /\ w \in [1..2 -> {a, b}]
    BY <2>4, <2>e
  <2>6. \A i \in 1..2 : u[i] = w[i]
    BY <2>2, <2>4 DEF u
  <2>7. u = w
    BY <2>5, <2>6
  <2> QED
    BY <2>7 DEF u, w
<1> QED
  BY <1>1, <1>2, WordsOne

LEMMA NameOne == \A v : Str(Name(v)) /\ Name(v) # <<>>
  BY StrWord DEF Name

Fixed == {"MSPACE", "CONST", "EXTERN", "DEFBIND", "DEFID", "DEFMID", "DEFMSG", "TYPE", "LBRACE", "RBRACE",
          "LBRACKET", "RBRACKET", "NIL", "ASSIGN", "DESC", "LIMIT", "BY", "MAX", "EQ", "XOR", "EXIST", "IF"}

LEMMA ReadsWord ==
  ASSUME GoodText, NEW i \in Nat \ {0}, NEW x \in Fixed, Is(i, x)
  PROVE  Reads(i, i, Words(<<x>>), 0)
<1>1. x \notin {"EOF", "SEMI", "SCOMMENT", "COMMA", "EXPR", "INT_CONST"} /\ x \notin Spelled
  BY DEF Fixed, Spelled
<1>2. ~Is(i, "EOF") /\ ~Is(i, "SCOMMENT") /\ ~Is(i, "EXPR") /\ ~Punctuation(i)
  BY <1>1 DEF Is, Punctuation
<1>3. IsToken(Tok(i)) /\ Tok(i).t = x
  BY <1>2, TokenIn DEF Is
<1>4. Tok(i).v = NoName /\ Tok(i).n = 0
  BY <1>1, <1>3 DEF IsToken
<1>5. Part(i) = <<Word(x, NoName)>>
  BY <1>2, <1>3, <1>4 DEF Part, WordAt, Word
<1> QED
  BY <1>2, <1>5, ReadsOne, WordsOne

LEMMA ReadsName ==
  ASSUME GoodText, NEW i \in Nat \ {0}, Tok(i).t \in {"ID", "EXPR"}
  PROVE  Reads(i, i, Name(Tok(i).v), 0) /\ Calm(i, i) /\ Tok(i).v # NoName
<1>1. ~Is(i, "EOF") /\ ~Is(i, "SCOMMENT") /\ ~Punctuation(i)
  BY DEF Is, Punctuation
<1>2. IsToken(Tok(i))
  BY <1>1, TokenIn
<1>3. Tok(i).n = 0 /\ Tok(i).v # NoName
  BY <1>2 DEF IsToken, Spelled
<1>4. Part(i) = Name(Tok(i).v)
  BY <1>1, <1>3 DEF Part, WordAt, Word, Name, Is
<1>5. Calm(i, i)
  BY CalmOne DEF Loud, Keywords
<1> QED
  BY <1>1, <1>3, <1>4, <1>5, ReadsOne

LEMMA ReadsPrim ==
  ASSUME GoodText, NEW i \in Nat \ {0}, Is(i, "PRIM")
  PROVE  Reads(i, i, <<Word("PRIM", Tok(i).v)>>, 0) /\ Calm(i, i)
<1>1. ~Is(i, "EOF") /\ ~Is(i, "SCOMMENT") /\ ~Is(i, "EXPR") /\ ~Punctuation(i)
  BY DEF Is, Punctuation
<1>2. IsToken(Tok(i))
  BY <1>1, TokenIn
<1>3. Tok(i).n = 0
  BY <1>2 DEF IsToken, Is
<1>4. Part(i) = <<Word("PRIM", Tok(i).v)>>
  BY <1>1, <1>3 DEF Part, WordAt, Word, Is
<1>5. Calm(i, i)
  BY CalmOne DEF Loud, Keywords, Is
<1> QED
  BY <1>1, <1>4, <1>5, ReadsOne

LEMMA ReadsNumber ==
  ASSUME GoodText, NEW i \in Nat \ {0}, Is(i, "INT_CONST")
  PROVE  Reads(i, i, Number(Tok(i).n), 0) /\ Calm(i, i) /\ Tok(i).n \in Nat
<1>1. ~Is(i, "EOF") /\ ~Is(i, "SCOMMENT") /\ ~Is(i, "EXPR") /\ ~Punctuation(i)
  BY DEF Is, Punctuation
<1>2. IsToken(Tok(i))
  BY <1>1, TokenIn
<1>3. Tok(i).n \in Nat /\ Tok(i).v = NoName
  BY <1>2 DEF IsToken, Is, Spelled
<1>4. Part(i) = Number(Tok(i).n)
  BY <1>1, <1>3 DEF Part, WordAt, Number, Is
<1>5. Calm(i, i)
  BY CalmOne DEF Loud, Keywords, Is
<1> QED
  BY <1>1, <1>3, <1>4, <1>5, ReadsOne

LEMMA ReadsComma ==
  ASSUME GoodText, NEW i \in Nat \ {0}, Is(i, "COMMA")
  PROVE  Reads(i, i, IF Is(i + 1, "RBRACE") THEN <<>> ELSE Words(<<"COMMA">>), 0) /\ Calm(i, i)
<1>1. ~Is(i, "EOF") /\ ~Is(i, "SCOMMENT") /\ ~Is(i, "EXPR")
  BY DEF Is
<1>2. IsToken(Tok(i))
  BY <1>1, TokenIn
<1>3. Tok(i).n = 0 /\ Tok(i).v = NoName
  BY <1>2 DEF IsToken, Is, Spelled
<1>4. Punctuation(i) <=> Is(i + 1, "RBRACE")
  BY DEF Punctuation, Is
<1>5. Part(i) = IF Is(i + 1, "RBRACE") THEN <<>> ELSE <<Word("COMMA", NoName)>>
  BY <1>1, <1>3, <1>4 DEF Part, WordAt, Word, Is
<1>6. Calm(i, i)
  BY CalmOne DEF Loud, Keywords, Is
<1> QED
  BY <1>1, <1>5, <1>6, ReadsOne, WordsOne

LEMMA ReadsSkipped ==
  ASSUME GoodText, NEW i \in Nat \ {0}, NEW x \in {"SEMI", "SCOMMENT"}, Is(i, x)
  PROVE  Reads(i, i, <<>>, IF x = "SEMI" THEN 0 ELSE 1) /\ Calm(i, i)
<1>1. ~Is(i, "EOF") /\ Punctuation(i) /\ (Is(i, "SCOMMENT") <=> x = "SCOMMENT")
  BY DEF Is, Punctuation
<1>2. Calm(i, i)
  BY CalmOne DEF Loud, Keywords, Is
<1> QED
  BY <1>1, <1>2, ReadsOne DEF Part

(* eatSeperator.                                                           *)
LEMMA ReadsPast ==
  ASSUME GoodText, NEW a, NEW i \in Nat \ {0}, NEW ws, NEW c, Reads(a, i - 1, ws, c), Calm(a + 1, i - 1)
  PROVE  /\ Reads(a, Past(i) - 1, ws, c) /\ Calm(a + 1, Past(i) - 1)
         /\ Separated(i) => Separated(Past(i)) \/ Is(Past(i) - 1, "SEMI")
         /\ Past(i) \in Nat \ {0}
<1>0. a \in Nat \ {0} /\ Str(ws) /\ c \in Nat /\ a <= i
  BY DEF Reads
<1>1. CASE Is(i, "SEMI")
  <2>1. Past(i) = i + 1 /\ Past(i) - 1 = i /\ (i - 1) + 1 = i
    BY <1>1 DEF Past
  <2>2. Reads((i - 1) + 1, i, <<>>, 0) /\ Calm(i, i)
    BY <1>1, <2>1, ReadsSkipped
  <2>3. Reads(a, i, ws \o <<>>, c + 0)
    BY <2>2, ReadsJoin
  <2>4. ws \o <<>> = ws /\ c + 0 = c
    BY <1>0, StrNothing
  <2>5. Calm(a + 1, i)
    BY <2>2, <1>0 DEF Calm
  <2>6. Reads(a, i, ws, c)
    BY <2>3, <2>4
  <2> QED
    BY <1>1, <2>1, <2>5, <2>6
<1>2. CASE ~Is(i, "SEMI")
  BY <1>2 DEF Past
<1> QED
  BY <1>1, <1>2

-----------------------------------------------------------------------------
(* Parts with something between them.                                      *)
LEMMA JoinedParts ==
  ASSUME NEW s, Parts(s), NEW b, Str(b)
  PROVE  LET u == [k \in DOMAIN s |-> IF k = 1 THEN s[k] ELSE b \o s[k]]
         IN  Parts(u) /\ Len(u) = Len(s) /\ Joined(s, b) = FlattenSeq(u)
<1> DEFINE u == [k \in DOMAIN s |-> IF k = 1 THEN s[k] ELSE b \o s[k]]
           n == Len(s)
<1>1. n \in Nat /\ DOMAIN s = 1..n
  BY StrShape DEF Parts
<1>2. Str(u) /\ Len(u) = n
  <2>1. u = [k \in 1..n |-> u[k]]
    BY <1>1
  <2> HIDE DEF u, n
  <2> QED
    BY <1>1, <2>1, StrMade
<1>3. ASSUME NEW k \in DOMAIN u PROVE Str(u[k])
  <2>1. k \in DOMAIN s /\ u[k] \in {s[k], b \o s[k]}
    OBVIOUS
  <2>2. Str(s[k])
    BY <2>1 DEF Parts
  <2>3. Str(b \o s[k])
    BY <2>2, StrJoin
  <2> QED
    BY <2>1, <2>2, <2>3
<1> QED
  BY <1>2, <1>3 DEF Parts, Joined

LEMMA JoinedStr == ASSUME NEW s, Parts(s), NEW b, Str(b) PROVE Str(Joined(s, b))
  BY JoinedParts, FlattenStr

LEMMA JoinedLonger ==
  ASSUME NEW s, Parts(s), NEW b, Str(b), NEW t, Parts(t), Len(t) = Len(s) + 1,
         \A k \in 1..Len(s) : t[k] = s[k]
  PROVE  Joined(t, b) = IF Len(s) = 0 THEN t[Len(t)] ELSE Joined(s, b) \o (b \o t[Len(t)])
<1> DEFINE n == Len(s)
           u == [k \in DOMAIN s |-> IF k = 1 THEN s[k] ELSE b \o s[k]]
           v == [k \in DOMAIN t |-> IF k = 1 THEN t[k] ELSE b \o t[k]]
<1>1. n \in Nat /\ DOMAIN s = 1..n /\ DOMAIN t = 1..n + 1 /\ Len(t) = n + 1
  BY StrShape DEF Parts
<1>2. Parts(u) /\ Len(u) = n /\ Joined(s, b) = FlattenSeq(u)
  BY JoinedParts
<1>3. Parts(v) /\ Len(v) = n + 1 /\ Joined(t, b) = FlattenSeq(v)
  BY <1>1, JoinedParts
<1>4. \A k \in 1..n : v[k] = u[k]
  BY <1>1
<1>5. v[n + 1] = IF n = 0 THEN t[n + 1] ELSE b \o t[n + 1]
  BY <1>1
<1>0. Str(t[n + 1])
  BY <1>1 DEF Parts
<1> HIDE DEF u, v, n
<1>6. FlattenSeq(v) = FlattenSeq(u) \o v[n + 1]
  <2>1. Str(v) /\ Str(v[Len(v)])
    <3>1. DOMAIN v = 1..n + 1 /\ n + 1 \in 1..n + 1
      BY <1>1, <1>3, StrShape DEF Parts
    <3> QED
      BY <1>3, <3>1 DEF Parts
  <2> QED
    BY <1>1, <1>2, <1>3, <1>4, <2>1, FlattenLonger
<1>7. CASE n = 0
  <2>1. u = <<>>
    BY <1>2, <1>7, StrShape DEF Parts
  <2>2. FlattenSeq(u) = <<>>
    BY <2>1, FlattenEmpty
  <2>3. <<>> \o t[n + 1] = t[n + 1]
    BY <1>0, StrNothing
  <2> QED
    BY <1>1, <1>3, <1>5, <1>6, <1>7, <2>2, <2>3 DEF n
<1>8. CASE n # 0
  BY <1>1, <1>2, <1>3, <1>5, <1>6, <1>8 DEF n
<1> QED
  BY <1>7, <1>8

-----------------------------------------------------------------------------
(* type_spec.                                                              *)
Square == Words(<<"LBRACKET", "RBRACKET">>)

SpecText(i) ==
  LET word == <<Word(Base(i).t, Base(i).v)>>
  IN  CASE Brackets(i) = 0 -> word
        [] Brackets(i) = 1 -> Square \o word
        [] OTHER           -> Square \o Square \o word

LEMMA SquareStr == Str(Square) /\ Square = Words(<<"LBRACKET">>) \o Words(<<"RBRACKET">>)
<1>1. Square = Words(<<"LBRACKET">>) \o Words(<<"RBRACKET">>)
  BY WordsTwo DEF Square
<1>2. Str(Words(<<"LBRACKET">>)) /\ Str(Words(<<"RBRACKET">>))
  BY WordsOne
<1> QED
  BY <1>1, <1>2, StrJoin

LEMMA ReadsPair ==
  ASSUME GoodText, NEW i \in Nat \ {0}, i \in Pairs
  PROVE  Reads(i, i + 1, Square, 0) /\ Calm(i, i + 1)
<1>1. Is(i, "LBRACKET") /\ Is(i + 1, "RBRACKET") /\ i + 1 \in Nat \ {0}
  BY DEF Pairs
<1>2. Reads(i, i, Words(<<"LBRACKET">>), 0) /\ Reads(i + 1, i + 1, Words(<<"RBRACKET">>), 0)
  BY <1>1, ReadsWord DEF Fixed
<1>3. Reads(i, i + 1, Words(<<"LBRACKET">>) \o Words(<<"RBRACKET">>), 0 + 0)
  BY <1>2, ReadsJoin
<1>4. Calm(i, i + 1)
  <2>1. Tok(i).t \notin Loud /\ Tok(i + 1).t \notin Loud
    BY <1>1 DEF Is, Loud, Keywords
  <2> QED
    BY <2>1 DEF Calm
<1> QED
  BY <1>3, <1>4, SquareStr

LEMMA ReadsBase ==
  ASSUME GoodText, NEW i \in Nat \ {0}, Tok(i).t \in {"PRIM", "ID"}
  PROVE  Reads(i, i, <<Word(Tok(i).t, Tok(i).v)>>, 0) /\ Calm(i, i)
<1>1. CASE Tok(i).t = "PRIM"
  BY <1>1, ReadsPrim DEF Is
<1>2. CASE Tok(i).t = "ID"
  BY <1>2, ReadsName DEF Name
<1> QED
  BY <1>1, <1>2

LEMMA ReadsSpec ==
  ASSUME GoodText, NEW i \in Nat \ {0}, IsSpec(i), Brackets(i) <= 2
  PROVE  /\ Reads(i, SpecEnd(i) - 1, SpecText(i), 0) /\ Calm(i, SpecEnd(i) - 1)
         /\ SpecEnd(i) \in Nat \ {0} /\ i < SpecEnd(i)
         /\ SpecEnd(i) - 1 \in DOMAIN text /\ Base(i) = Tok(SpecEnd(i) - 1)
         /\ i <= SpecEnd(i) - 1
<1> DEFINE n == Brackets(i)
           word == <<Word(Base(i).t, Base(i).v)>>
<1>1. n \in 0..2 /\ \A j \in 0..n - 1 : i + 2 * j \in Pairs
  <2>1. Pairs \subseteq DOMAIN text /\ IsSequence(text)
    BY DEF Pairs, GoodText
  <2>2. n \in 0..Len(text) /\ \A j \in 0..n - 1 : i + 2 * j \in Pairs
    BY <2>1, ChainEnds DEF Brackets
  <2> QED
    BY <2>2
<1>2. SpecEnd(i) = i + 2 * n + 1 /\ SpecEnd(i) - 1 = i + 2 * n /\ i + 2 * n \in Nat \ {0}
  BY <1>1 DEF SpecEnd
<1>3. Base(i) = Tok(i + 2 * n) /\ Tok(i + 2 * n).t \in {"PRIM", "ID"}
  BY DEF Base, IsSpec
<1> HIDE DEF n
<1>4. Reads(i + 2 * n, i + 2 * n, word, 0) /\ Calm(i + 2 * n, i + 2 * n)
  BY <1>2, <1>3, ReadsBase
<1>5. i + 2 * n \in DOMAIN text
  BY <1>2, <1>3, TokenIn DEF Is
<1>6. Str(word)
  BY StrWord
<1> HIDE DEF word
<1>7. CASE n = 0
  <2>1. SpecText(i) = word /\ i + 2 * n = i
    BY <1>7 DEF SpecText, n, word
  <2> QED
    BY <1>2, <1>3, <1>4, <1>5, <2>1
<1>8. CASE n = 1
  <2>1. SpecText(i) = Square \o word /\ i + 2 * n = (i + 1) + 1
    BY <1>8 DEF SpecText, n, word
  <2>2. i \in Pairs
    <3>1. 0 \in 0..n - 1 /\ i + 2 * 0 = i
      BY <1>8
    <3> QED
      BY <1>1, <3>1
  <2>3. Reads(i, i + 1, Square, 0) /\ Calm(i, i + 1)
    BY <2>2, ReadsPair
  <2>4. Reads(i, i + 2 * n, Square \o word, 0 + 0) /\ Calm(i, i + 2 * n)
    BY <1>4, <2>1, <2>3, ReadsThen
  <2> QED
    BY <1>2, <1>3, <1>5, <1>8, <2>1, <2>4
<1>9. CASE n = 2
  <2>1. SpecText(i) = (Square \o Square) \o word /\ i + 2 * n = (i + 3) + 1 /\ i + 2 = (i + 1) + 1
        /\ i + 2 \in Nat \ {0} /\ (i + 2) + 1 = i + 3
    BY <1>9 DEF SpecText, n, word
  <2>2. i \in Pairs /\ i + 2 \in Pairs
    <3>1. 0 \in 0..n - 1 /\ i + 2 * 0 = i /\ 1 \in 0..n - 1 /\ i + 2 * 1 = i + 2
      BY <1>9
    <3> QED
      BY <1>1, <3>1
  <2>3. Reads(i, i + 1, Square, 0) /\ Calm(i, i + 1) /\ Reads(i + 2, i + 3, Square, 0) /\ Calm(i + 2, i + 3)
    <3>1. Reads(i + 2, (i + 2) + 1, Square, 0) /\ Calm(i + 2, (i + 2) + 1)
      BY <2>1, <2>2, ReadsPair
    <3> QED
      BY <2>1, <2>2, <3>1, ReadsPair
  <2>4. Reads(i, i + 3, Square \o Square, 0) /\ Calm(i, i + 3)
    <3>1. Reads(i, i + 1, Square, 0) /\ i + 2 = (i + 1) + 1 /\ Reads(i + 2, i + 3, Square, 0) /\ 0 = 0 + 0
      BY <2>1, <2>3
    <3> QED
      BY <2>3, <3>1, ReadsThen
  <2>5. Reads(i, i + 2 * n, (Square \o Square) \o word, 0) /\ Calm(i, i + 2 * n)
    BY <1>4, <2>1, <2>4, ReadsThen
  <2> QED
    BY <1>2, <1>3, <1>5, <1>9, <2>1, <2>5
<1> QED
  BY <1>1, <1>7, <1>8, <1>9

LEMMA TypeAtBrackets ==
  ASSUME IsSequence(text), NEW i \in Nat \ {0}
  PROVE  /\ Brackets(i) = 0 => TypeAt(i) = BaseType(i)
         /\ Brackets(i) = 1 => TypeAt(i) = ArrayOf(BaseType(i))
         /\ Brackets(i) = 2 => TypeAt(i) = ArrayOf(ArrayOf(BaseType(i)))
<1> DEFINE b == BaseType(i)
           n == Brackets(i)
           f == CHOOSE f : f = [k \in 0..n |-> IF k = 0 THEN b ELSE ArrayOf(f[k - 1])]
<1>1. n \in Nat
  BY BracketsNat
<1>2. TypeAt(i) = f[n]
  BY DEF TypeAt
<1> HIDE DEF b, n
<1>3. f = [k \in 0..n |-> IF k = 0 THEN b ELSE ArrayOf(f[k - 1])]
  BY <1>1, NestDefined
<1> HIDE DEF f
<1>4. \A k \in 0..n : f[k] = IF k = 0 THEN b ELSE ArrayOf(f[k - 1])
  BY <1>3
<1>5. CASE n = 0
  BY <1>1, <1>2, <1>4, <1>5 DEF b, n
<1>6. CASE n = 1
  <2>1. f[1] = ArrayOf(f[0]) /\ f[0] = b
    BY <1>4, <1>6
  <2> QED
    BY <1>2, <1>6, <2>1 DEF b, n
<1>7. CASE n = 2
  <2>1. f[2] = ArrayOf(f[1]) /\ f[1] = ArrayOf(f[0]) /\ f[0] = b
    BY <1>4, <1>7
  <2> QED
    BY <1>2, <1>7, <2>1 DEF b, n
<1> QED
  BY <1>5, <1>6, <1>7 DEF n

(* A type that is written by one word, and the ones built of it.           *)
Single(b) == b.k \in {"prim", "struct"} \/ b = Undef(b.name, NilType)
Lone(t) == \E b : Single(b) /\ (t = b \/ t = ArrayOf(b) \/ t = ArrayOf(ArrayOf(b)))

WrittenBy(b, w) == \/ w.t = "PRIM" /\ b = Prim(w.v)
                   \/ w.t = "ID" /\ (b = Undef(w.v, NilType) \/ b = StructOf(w.v))

LEMMA SpecWritten ==
  ASSUME GoodText, NEW i \in Nat \ {0}, Brackets(i) <= 2, WrittenBy(BaseType(i), Base(i))
  PROVE  TypeText(TypeAt(i)) = SpecText(i) /\ Lone(TypeAt(i))
<1> DEFINE b == BaseType(i)
           w == Base(i)
<1>1. Brackets(i) \in 0..2 /\ IsSequence(text)
  BY BracketsNat DEF GoodText
<1>2. b.k \in {"prim", "undef", "struct"} /\ (b.k = "prim" <=> w.t = "PRIM") /\ b.name = w.v /\ w.t \in {"PRIM", "ID"}
  <2>1. \A v : Prim(v).k = "prim" /\ Prim(v).name = v
    BY DEF Prim
  <2>2. \A v : StructOf(v).k = "struct" /\ StructOf(v).name = v
    BY DEF StructOf
  <2>3. \A v : Undef(v, NilType).k = "undef" /\ Undef(v, NilType).name = v
    BY DEF Undef
  <2> QED
    BY <2>1, <2>2, <2>3 DEF WrittenBy
<1>3. Single(b)
  BY ElemFacts DEF WrittenBy, Single
<1> HIDE DEF b, w
<1>4. /\ \A t : ArrayOf(t).k = "array" /\ ArrayOf(t).elem = t
      /\ Word(IF b.k = "prim" THEN "PRIM" ELSE "ID", b.name) = Word(w.t, w.v)
  BY <1>2 DEF ArrayOf
<1>5. CASE Brackets(i) = 0
  <2>1. TypeAt(i) = b
    BY <1>1, <1>5, TypeAtBrackets DEF b
  <2>2. TypeText(b) = <<Word(w.t, w.v)>>
    BY <1>2, <1>4 DEF TypeText, Elem
  <2> QED
    BY <1>3, <1>5, <2>1, <2>2 DEF SpecText, Lone, w
<1>6. CASE Brackets(i) = 1
  <2>1. TypeAt(i) = ArrayOf(b)
    BY <1>1, <1>6, TypeAtBrackets DEF b
  <2>2. TypeText(ArrayOf(b)) = Square \o <<Word(w.t, w.v)>>
    BY <1>2, <1>4 DEF TypeText, Elem, Square
  <2> QED
    BY <1>3, <1>6, <2>1, <2>2 DEF SpecText, Lone, w
<1>7. CASE Brackets(i) = 2
  <2>1. TypeAt(i) = ArrayOf(ArrayOf(b))
    BY <1>1, <1>7, TypeAtBrackets DEF b
  <2> DEFINE t == ArrayOf(ArrayOf(b))
  <2>a. t.k = "array" /\ t.elem.k = "array" /\ t.elem.elem = b
    BY <1>4
  <2> HIDE DEF t
  <2>b. TypeText(t) = Square \o Square \o <<Word(IF b.k = "prim" THEN "PRIM" ELSE "ID", b.name)>>
    BY <2>a DEF TypeText, Square
  <2>2. TypeText(ArrayOf(ArrayOf(b))) = Square \o Square \o <<Word(w.t, w.v)>>
    BY <1>4, <2>b DEF t
  <2> QED
    BY <1>3, <1>7, <2>1, <2>2 DEF SpecText, Lone, w
<1> QED
  BY <1>1, <1>5, <1>6, <1>7

-----------------------------------------------------------------------------
(* expr.                                                                   *)
LEMMA ExprParts ==
  ASSUME NEW s, Str(s)
  PROVE  LET u == [k \in DOMAIN s |-> Name(s[k])]
         IN  Parts(u) /\ Len(u) = Len(s) /\ ExprText(s) = Joined(u, Words(<<"EQ">>))
<1> DEFINE u == [k \in DOMAIN s |-> Name(s[k])]
           n == Len(s)
<1>1. n \in Nat /\ DOMAIN s = 1..n
  BY StrShape
<1>2. Str(u) /\ Len(u) = n
  <2>1. u = [k \in 1..n |-> u[k]]
    BY <1>1
  <2> HIDE DEF u, n
  <2> QED
    BY <1>1, <2>1, StrMade
<1>3. \A k \in DOMAIN u : Str(u[k])
  BY NameOne
<1> QED
  BY <1>2, <1>3 DEF Parts, ExprText

LEMMA ExprTextStr == ASSUME NEW s, Str(s) PROVE Str(ExprText(s))
  BY ExprParts, JoinedStr, WordsOne

LEMMA ExprTextLonger ==
  ASSUME NEW s, Str(s), NEW t, Str(t), Len(t) = Len(s) + 1, \A k \in 1..Len(s) : t[k] = s[k]
  PROVE  ExprText(t) = IF Len(s) = 0 THEN Name(t[Len(t)])
                       ELSE ExprText(s) \o (Words(<<"EQ">>) \o Name(t[Len(t)]))
<1> DEFINE u == [k \in DOMAIN s |-> Name(s[k])]
           v == [k \in DOMAIN t |-> Name(t[k])]
           n == Len(s)
<1>1. n \in Nat /\ DOMAIN s = 1..n /\ DOMAIN t = 1..n + 1 /\ Len(t) = n + 1
  BY StrShape
<1>2. /\ Parts(u) /\ Len(u) = n /\ ExprText(s) = Joined(u, Words(<<"EQ">>))
      /\ Parts(v) /\ Len(v) = n + 1 /\ ExprText(t) = Joined(v, Words(<<"EQ">>))
  BY <1>1, ExprParts
<1>3. \A k \in 1..n : v[k] = u[k]
  BY <1>1
<1>4. v[n + 1] = Name(t[n + 1])
  BY <1>1
<1> HIDE DEF u, v, n
<1>5. Joined(v, Words(<<"EQ">>)) = IF n = 0 THEN v[n + 1]
                                   ELSE Joined(u, Words(<<"EQ">>)) \o (Words(<<"EQ">>) \o v[n + 1])
  <2>1. Len(v) = Len(u) + 1 /\ Len(v) = n + 1 /\ Len(u) = n /\ \A k \in 1..Len(u) : v[k] = u[k]
    BY <1>1, <1>2, <1>3
  <2>2. Str(Words(<<"EQ">>)) /\ Parts(u) /\ Parts(v)
    BY <1>2, WordsOne
  <2> DEFINE eq == Words(<<"EQ">>)
  <2> HIDE DEF eq
  <2>3. Joined(v, eq) = IF Len(u) = 0 THEN v[Len(v)] ELSE Joined(u, eq) \o (eq \o v[Len(v)])
    <3>1. Str(eq)
      BY <2>2 DEF eq
    <3> QED
      BY <2>1, <2>2, <3>1, JoinedLonger
  <2> QED
    BY <2>1, <2>3 DEF eq
<1> QED
  BY <1>1, <1>2, <1>4, <1>5 DEF n

LEMMA ReadsExpr ==
  ASSUME GoodText, NEW i \in Nat \ {0}, ExprLen(i) > 0
  PROVE  LET ops == Operands(i, ExprLen(i))
             end == i + ExprLen(i)
         IN  /\ Reads(i, end - 1, ExprText(ops), 0) /\ Calm(i, end - 1)
             /\ end \in Nat \ {0} /\ i <= end - 1
             /\ Str(ops) /\ ops # <<>>
             /\ ~Is(end, "EQ")
<1> DEFINE k == Chain(Equals, i + 1)
           Ops(m) == [j \in 1..m + 1 |-> Tok(i + 2 * (j - 1)).v]
           T == {m \in Nat : m <= k => Reads(i, i + 2 * m, ExprText(Ops(m)), 0) /\ Calm(i, i + 2 * m)}
<1>1. /\ k \in Nat /\ (i + 1) + 2 * k \notin Equals
      /\ \A j \in 0..k - 1 : (i + 1) + 2 * j \in Equals
  <2>1. i + 1 \in Nat \ {0} /\ Equals \subseteq DOMAIN text /\ IsSequence(text)
    BY DEF Equals, GoodText
  <2>2. k \in 0..Len(text) /\ (i + 1) + 2 * k \notin Equals /\ \A j \in 0..k - 1 : (i + 1) + 2 * j \in Equals
    BY <2>1, ChainEnds
  <2>3. Len(text) \in Nat
    BY <2>1 DEF IsSequence
  <2> QED
    BY <2>2, <2>3
<1>2. ExprLen(i) = 2 * k + 1 /\ \A j \in 0..k : Tok(i + 2 * j).t \in {"EXPR", "ID"}
  BY DEF ExprLen
<1> HIDE DEF k
<1>o. ASSUME NEW m \in Nat
      PROVE  /\ Str(Ops(m)) /\ Len(Ops(m)) = m + 1 /\ Ops(m)[m + 1] = Tok(i + 2 * m).v
             /\ \A j \in 1..m : Ops(m)[j] = Tok(i + 2 * (j - 1)).v
  <2> DEFINE s == Ops(m)
  <2>1. s = [j \in 1..m + 1 |-> s[j]] /\ m + 1 \in Nat
    OBVIOUS
  <2>2. s[m + 1] = Tok(i + 2 * m).v /\ \A j \in 1..m : s[j] = Tok(i + 2 * (j - 1)).v
    <3>1. (m + 1) - 1 = m /\ m + 1 \in 1..m + 1
      OBVIOUS
    <3> QED
      BY <3>1
  <2> HIDE DEF s
  <2>3. Str(s) /\ Len(s) = m + 1
    BY <2>1, StrMade
  <2> QED
    BY <2>2, <2>3 DEF s
<1>p. \A m \in Nat : Str(Ops(m)) /\ Len(Ops(m)) = m + 1 /\ Len(Ops(m)) # 0
  <2> SUFFICES ASSUME NEW m \in Nat PROVE Str(Ops(m)) /\ Len(Ops(m)) = m + 1 /\ Len(Ops(m)) # 0
    OBVIOUS
  <2> HIDE DEF Ops
  <2>1. Str(Ops(m)) /\ Len(Ops(m)) = m + 1
    BY <1>o
  <2>2. m + 1 # 0
    OBVIOUS
  <2> QED
    BY <2>1, <2>2
<1>e. Str(<<>>) /\ Len(<<>>) = 0
  BY StrWord
<1> HIDE DEF Ops
<1>3. 0 \in T
  <2>1. ExprText(Ops(0)) = Name(Tok(i).v)
    <3>1. Str(Ops(0)) /\ Len(Ops(0)) = 1 /\ Ops(0)[1] = Tok(i).v
      <4>1. i + 2 * 0 = i /\ 0 + 1 = 1 /\ 0 \in Nat
        OBVIOUS
      <4> QED
        BY <1>o, <4>1
    <3>2. ExprText(Ops(0)) = Name(Ops(0)[Len(Ops(0))])
      <4>1. Len(Ops(0)) = Len(<<>>) + 1 /\ \A j \in 1..Len(<<>>) : Ops(0)[j] = <<>>[j]
        BY <1>e, <3>1
      <4> QED
        BY <1>e, <3>1, <4>1, ExprTextLonger
    <3> QED
      BY <3>1, <3>2
  <2>2. Tok(i).t \in {"EXPR", "ID"}
    <3>1. 0 \in 0..k /\ i + 2 * 0 = i
      BY <1>1
    <3> QED
      BY <1>2, <3>1
  <2>3. Reads(i, i, Name(Tok(i).v), 0) /\ Calm(i, i)
    BY <2>2, ReadsName
  <2> QED
    BY <2>1, <2>3
<1>4. ASSUME NEW m \in Nat, m \in T PROVE m + 1 \in T
  <2>1. SUFFICES ASSUME m + 1 <= k
                 PROVE  Reads(i, i + 2 * (m + 1), ExprText(Ops(m + 1)), 0) /\ Calm(i, i + 2 * (m + 1))
    OBVIOUS
  <2> DEFINE p == i + 2 * m
  <2>2. /\ p \in Nat \ {0} /\ p + 1 \in Nat \ {0} /\ p + 2 \in Nat \ {0} /\ i + 2 * (m + 1) = p + 2
        /\ p + 2 = (p + 1) + 1 /\ m + 1 \in Nat
    BY <1>1
  <2>3. Reads(i, p, ExprText(Ops(m)), 0) /\ Calm(i, p)
    BY <1>1, <1>4, <2>1
  <2>4. Is(p + 1, "EQ") /\ Tok(p + 2).t \in {"EXPR", "ID"}
    <3>1. m \in 0..k - 1 /\ m + 1 \in 0..k /\ (i + 1) + 2 * m = p + 1
      BY <1>1, <2>1
    <3>2. p + 1 \in Equals
      BY <1>1, <3>1
    <3>3. Tok(p + 2).t \in {"EXPR", "ID"}
      BY <1>2, <2>2, <3>1
    <3> QED
      BY <3>2, <3>3 DEF Equals
  <2> DEFINE v == Tok(p + 2).v
  <2>5. ExprText(Ops(m + 1)) = ExprText(Ops(m)) \o (Words(<<"EQ">>) \o Name(v))
    <3>1. /\ Str(Ops(m + 1)) /\ Len(Ops(m + 1)) = (m + 1) + 1 /\ Ops(m + 1)[(m + 1) + 1] = v
          /\ \A j \in 1..m + 1 : Ops(m + 1)[j] = Tok(i + 2 * (j - 1)).v
      BY <1>o, <2>2
    <3>2. Str(Ops(m)) /\ Len(Ops(m)) = m + 1 /\ Len(Ops(m)) # 0
      BY <1>p
    <3>3. \A j \in 1..Len(Ops(m)) : Ops(m + 1)[j] = Ops(m)[j]
      <4>1. (m + 1) - 1 = m
        OBVIOUS
      <4>2. \A j \in 1..m + 1 : Ops(m)[j] = Tok(i + 2 * (j - 1)).v
        <5>1. \A j \in 1..m + 1 : j \in 1..m \/ j = m + 1
          OBVIOUS
        <5> QED
          BY <1>o, <4>1, <5>1
      <4> QED
        BY <3>1, <3>2, <4>2
    <3> HIDE DEF v
    <3> QED
      BY <3>1, <3>2, <3>3, ExprTextLonger
  <2> HIDE DEF p
  <2>6. Reads(p + 1, p + 1, Words(<<"EQ">>), 0) /\ Calm(p + 1, p + 1)
    <3>1. Tok(p + 1).t \notin Loud
      BY <2>4 DEF Is, Loud, Keywords
    <3> QED
      BY <2>2, <2>4, <3>1, ReadsWord, CalmOne DEF Fixed
  <2>7. Reads(p + 2, p + 2, Name(v), 0) /\ Calm(p + 2, p + 2)
    BY <2>2, <2>4, ReadsName
  <2> HIDE DEF v
  <2>8. Reads(p + 1, p + 2, Words(<<"EQ">>) \o Name(v), 0) /\ Calm(p + 1, p + 2)
    BY <2>2, <2>6, <2>7, ReadsThen
  <2>9. Reads(i, p + 2, ExprText(Ops(m + 1)), 0) /\ Calm(i, p + 2)
    <3>1. Reads(i, p + 2, ExprText(Ops(m)) \o (Words(<<"EQ">>) \o Name(v)), 0) /\ Calm(i, p + 2)
      <4>1. p + 1 = p + 1 /\ 0 = 0 + 0
        OBVIOUS
      <4> QED
        BY <2>3, <2>8, <4>1, ReadsThen
    <3> QED
      BY <2>5, <3>1
  <2> QED
    BY <2>2, <2>9
<1>5. k \in T
  <2> HIDE DEF T
  <2> QED
    BY <1>1, <1>3, <1>4, SetInduction
<1>6. Operands(i, ExprLen(i)) = Ops(k)
  <2>1. (ExprLen(i) + 1) \div 2 = k + 1
    BY <1>1, <1>2
  <2> QED
    BY <2>1 DEF Operands, Ops
<1>7. i + ExprLen(i) = (i + 1) + 2 * k /\ (i + ExprLen(i)) - 1 = i + 2 * k /\ i + ExprLen(i) \in Nat \ {0}
  BY <1>1, <1>2
<1>8. ~Is((i + 1) + 2 * k, "EQ")
  BY <1>1 DEF Equals, Is, Tok, EOF
<1>9. Str(Ops(k)) /\ Ops(k) # <<>>
  BY <1>1, <1>p, <1>e
<1> QED
  BY <1>1, <1>5, <1>6, <1>7, <1>8, <1>9

-----------------------------------------------------------------------------
(* The declarations and their texts.                                       *)
Record(f, names) == f = [x \in names |-> f[x]]

FieldNames == {"name", "type", "limit", "max", "equ", "xor", "existIf", "comment"}
GroupNames == {"kind", "name", "isMsgId", "items", "notes"}
MsgNames   == {"kind", "name", "fields", "notes"}
Kinds      == {"const", "extern", "typedef", "bind", "group", "msg", "comment"}

FieldFormed(f) == Record(f, FieldNames) /\ Str(f.existIf)

GroupFormed(d) == d.kind = "group" /\ Record(d, GroupNames) /\ Str(d.items) /\ Str(d.notes)

MsgFormed(d) == /\ d.kind = "msg" /\ Record(d, MsgNames) /\ Str(d.fields) /\ Str(d.notes)
                /\ \A k \in DOMAIN d.fields : FieldFormed(d.fields[k])

Formed(d) == /\ d.kind \in Kinds
             /\ d.kind = "const" => Str(d.val)
             /\ d.kind = "extern"  => {"kind", "name", "type"} \subseteq DOMAIN d
             /\ d.kind = "typedef" => {"kind", "name", "impl"} \subseteq DOMAIN d
             /\ d.kind = "group" => GroupFormed(d)
             /\ d.kind = "msg"   => MsgFormed(d)

LEMMA OptionalStr ==
  ASSUME NEW v, NEW ws, Str(ws)
  PROVE  Str(Optional(v, ws)) /\ (Optional(v, ws) = <<>> <=> v = NoName)
<1>1. Str(ws \o Name(v)) /\ ws \o Name(v) # <<>>
  BY NameOne, StrJoin
<1> QED
  BY <1>1, StrWord DEF Optional

LEMMA PhraseStr == \A x, y : Str(Words(<<x, y>>)) /\ Words(<<x, y>>) # <<>>
<1> SUFFICES ASSUME NEW x, NEW y PROVE Str(Words(<<x, y>>)) /\ Words(<<x, y>>) # <<>>
  OBVIOUS
<1> DEFINE a == Words(<<x>>)
           b == Words(<<y>>)
<1>1. Str(a) /\ a # <<>> /\ Str(b)
  BY WordsOne
<1>2. Words(<<x, y>>) = a \o b
  BY WordsTwo
<1> HIDE DEF a, b
<1> QED
  BY <1>1, <1>2, StrJoin

(* The descriptors of a field, kind by kind.                               *)
LimitText(f) == Optional(f.limit, Words(<<"LIMIT", "BY">>))
MaxText(f) == Optional(f.max, Words(<<"MAX">>))
EqualText(f) == Optional(f.equ, Words(<<"EQ">>))
XorText(f) == Optional(f.xor, Words(<<"XOR">>))
ExistText(f) == IF f.existIf = <<>> THEN <<>> ELSE Words(<<"EXIST", "IF">>) \o ExprText(f.existIf)
Descs(f) == LimitText(f) \o MaxText(f) \o EqualText(f) \o XorText(f) \o ExistText(f)

LEMMA DescsStr ==
  ASSUME NEW f, Str(f.existIf)
  PROVE  /\ Str(LimitText(f)) /\ Str(MaxText(f)) /\ Str(EqualText(f)) /\ Str(XorText(f)) /\ Str(ExistText(f))
         /\ Str(LimitText(f) \o MaxText(f)) /\ Str(LimitText(f) \o MaxText(f) \o EqualText(f))
         /\ Str(LimitText(f) \o MaxText(f) \o EqualText(f) \o XorText(f)) /\ Str(Descs(f))
         /\ Descs(f) = <<>> <=> /\ LimitText(f) = <<>> /\ MaxText(f) = <<>> /\ EqualText(f) = <<>>
                                /\ XorText(f) = <<>> /\ ExistText(f) = <<>>
         /\ Str(DescText(f))
         /\ DescText(f) = IF Descs(f) = <<>> THEN <<>> ELSE Words(<<"DESC">>) \o Descs(f)
<1> DEFINE a == LimitText(f)
           b == MaxText(f)
           c == EqualText(f)
           d == XorText(f)
           e == ExistText(f)
<1>1. Str(a) /\ Str(b) /\ Str(c) /\ Str(d)
  BY OptionalStr, WordsOne, PhraseStr DEF LimitText, MaxText, EqualText, XorText
<1>2. Str(e)
  <2>1. Str(Words(<<"EXIST", "IF">>) \o ExprText(f.existIf))
    BY PhraseStr, ExprTextStr, StrJoin
  <2> QED
    BY <2>1, StrWord DEF ExistText
<1>3. Descs(f) = a \o b \o c \o d \o e
  BY DEF Descs
<1>d. DescText(f) = IF Descs(f) = <<>> THEN <<>> ELSE Words(<<"DESC">>) \o Descs(f)
  BY DEF DescText, Descs, LimitText, MaxText, EqualText, XorText, ExistText
<1> HIDE DEF a, b, c, d, e
<1>4. Str(a \o b) /\ (a \o b = <<>> <=> a = <<>> /\ b = <<>>)
  BY <1>1, StrJoin
<1>5. Str(a \o b \o c) /\ (a \o b \o c = <<>> <=> a \o b = <<>> /\ c = <<>>)
  BY <1>1, <1>4, StrJoin
<1>6. Str(a \o b \o c \o d) /\ (a \o b \o c \o d = <<>> <=> a \o b \o c = <<>> /\ d = <<>>)
  BY <1>1, <1>5, StrJoin
<1>7. Str(a \o b \o c \o d \o e) /\ (a \o b \o c \o d \o e = <<>> <=> a \o b \o c \o d = <<>> /\ e = <<>>)
  BY <1>2, <1>6, StrJoin
<1>8. Str(DescText(f))
  <2>1. Str(Words(<<"DESC">>)) /\ Str(Descs(f))
    BY <1>3, <1>7, WordsOne
  <2>2. Str(Words(<<"DESC">>) \o Descs(f))
    BY <2>1, StrJoin
  <2> QED
    BY <1>d, <2>2, StrWord
<1> QED
  BY <1>1, <1>2, <1>3, <1>4, <1>5, <1>6, <1>7, <1>8, <1>d DEF a, b, c, d, e

LEMMA TypeTextStr == \A t : Str(TypeText(t))
<1> SUFFICES ASSUME NEW t PROVE Str(TypeText(t))
  OBVIOUS
<1>1. \E w : TypeText(t) \in {Square \o Square \o <<w>>, Square \o <<w>>, <<w>>}
  BY DEF TypeText, Square
<1>2. \A w : Str(<<w>>) /\ Str(Square \o <<w>>) /\ Str(Square \o Square \o <<w>>)
  <2> SUFFICES ASSUME NEW w PROVE Str(<<w>>) /\ Str(Square \o <<w>>) /\ Str(Square \o Square \o <<w>>)
    OBVIOUS
  <2>1. Str(<<w>>) /\ Str(Square)
    BY StrWord, SquareStr
  <2> DEFINE v == <<w>>
             q == Square
  <2> HIDE DEF v, q
  <2>2. Str(q \o v) /\ Str(q \o q)
    BY <2>1, StrJoin DEF v, q
  <2>3. Str((q \o q) \o v)
    BY <2>1, <2>2, StrJoin DEF v
  <2> QED
    BY <2>1, <2>2, <2>3 DEF v, q
<1> QED
  BY <1>1, <1>2

LEMMA FieldTextStr == ASSUME NEW f, Str(f.existIf) PROVE Str(Name(f.name) \o TypeText(f.type)) /\ Str(FieldText(f))
<1>1. Str(Name(f.name)) /\ Str(TypeText(f.type)) /\ Str(DescText(f))
  BY NameOne, TypeTextStr, DescsStr
<1>2. Str(Name(f.name) \o TypeText(f.type))
  BY <1>1, StrJoin
<1>3. Str((Name(f.name) \o TypeText(f.type)) \o DescText(f))
  BY <1>1, <1>2, StrJoin
<1> QED
  BY <1>2, <1>3 DEF FieldText

LEMMA ItemTextStr == \A i : Str(ItemText(i))
<1> SUFFICES ASSUME NEW i PROVE Str(ItemText(i))
  OBVIOUS
<1>1. Str(Name(i.name)) /\ Str(Words(<<"ASSIGN">>)) /\ Str(Number(i.idVal)) /\ Str(<<>>)
  BY NameOne, WordsOne, StrWord DEF Number
<1>2. Str(Words(<<"ASSIGN">>) \o Number(i.idVal))
  BY <1>1, StrJoin
<1>3. Str(Name(i.name) \o (Words(<<"ASSIGN">>) \o Number(i.idVal))) /\ Str(Name(i.name) \o <<>>)
  BY <1>1, <1>2, StrJoin
<1> QED
  BY <1>3 DEF ItemText

(* A group and a message under construction.                               *)
ItemTexts(items) == [k \in DOMAIN items |-> ItemText(items[k])]
FieldTexts(fields) == [k \in DOMAIN fields |-> FieldText(fields[k])]
FieldNotes(fields) == [k \in DOMAIN fields |-> IF fields[k].comment = NoName THEN <<>> ELSE <<fields[k].comment>>]

GroupHead(d) == Words(<<IF d.isMsgId THEN "DEFMID" ELSE "DEFID">>) \o Name(d.name) \o Words(<<"LBRACE">>)
GroupSoFar(d) == GroupHead(d) \o Joined(ItemTexts(d.items), Words(<<"COMMA">>))

MsgHead(d) == Words(<<"DEFMSG">>) \o Name(d.name) \o Words(<<"LBRACE">>)
MsgSoFar(d) == MsgHead(d) \o FlattenSeq(FieldTexts(d.fields))

LEMMA ItemParts ==
  ASSUME NEW items, Str(items)
  PROVE  /\ Parts(ItemTexts(items)) /\ Len(ItemTexts(items)) = Len(items)
         /\ \A k \in DOMAIN items : ItemTexts(items)[k] = ItemText(items[k])
<1> DEFINE u == ItemTexts(items)
           n == Len(items)
<1>1. n \in Nat /\ DOMAIN items = 1..n
  BY StrShape
<1>2. u = [k \in 1..n |-> u[k]] /\ \A k \in DOMAIN items : u[k] = ItemText(items[k])
  BY <1>1 DEF ItemTexts
<1> HIDE DEF u, n
<1>3. Str(u) /\ Len(u) = n
  BY <1>1, <1>2, StrMade
<1>4. \A k \in DOMAIN u : Str(u[k])
  BY <1>1, <1>2, ItemTextStr
<1> QED
  BY <1>2, <1>3, <1>4 DEF Parts, u, n

LEMMA FieldParts ==
  ASSUME NEW fields, Str(fields), \A k \in DOMAIN fields : FieldFormed(fields[k])
  PROVE  /\ Parts(FieldTexts(fields)) /\ Len(FieldTexts(fields)) = Len(fields)
         /\ \A k \in DOMAIN fields : FieldTexts(fields)[k] = FieldText(fields[k])
<1> DEFINE u == FieldTexts(fields)
           n == Len(fields)
<1>1. n \in Nat /\ DOMAIN fields = 1..n
  BY StrShape
<1>2. u = [k \in 1..n |-> u[k]] /\ \A k \in DOMAIN fields : u[k] = FieldText(fields[k])
  BY <1>1 DEF FieldTexts
<1> HIDE DEF u, n
<1>3. Str(u) /\ Len(u) = n
  BY <1>1, <1>2, StrMade
<1>4. \A k \in DOMAIN u : Str(u[k])
  BY <1>1, <1>2, FieldTextStr DEF FieldFormed
<1> QED
  BY <1>2, <1>3, <1>4 DEF Parts, u, n

LEMMA NoteParts ==
  ASSUME NEW fields, Str(fields)
  PROVE  /\ Parts(FieldNotes(fields)) /\ Len(FieldNotes(fields)) = Len(fields)
         /\ \A k \in DOMAIN fields :
              FieldNotes(fields)[k] = IF fields[k].comment = NoName THEN <<>> ELSE <<fields[k].comment>>
<1> DEFINE u == FieldNotes(fields)
           n == Len(fields)
<1>1. n \in Nat /\ DOMAIN fields = 1..n
  BY StrShape
<1>2. /\ u = [k \in 1..n |-> u[k]]
      /\ \A k \in DOMAIN fields : u[k] = IF fields[k].comment = NoName THEN <<>> ELSE <<fields[k].comment>>
  BY <1>1 DEF FieldNotes
<1> HIDE DEF u, n
<1>3. Str(u) /\ Len(u) = n
  BY <1>1, <1>2, StrMade
<1>4. \A k \in DOMAIN u : Str(u[k])
  BY <1>1, <1>2, StrWord
<1> QED
  BY <1>2, <1>3, <1>4 DEF Parts, u, n

LEMMA HeadStr == \A d : Str(GroupHead(d)) /\ Str(MsgHead(d))
<1> SUFFICES ASSUME NEW d PROVE Str(GroupHead(d)) /\ Str(MsgHead(d))
  OBVIOUS
<1>1. Str(Name(d.name)) /\ Str(Words(<<"LBRACE">>))
  BY NameOne, WordsOne
<1>2. ASSUME NEW x PROVE Str(Words(<<x>>) \o Name(d.name) \o Words(<<"LBRACE">>))
  <2>1. Str(Words(<<x>>) \o Name(d.name))
    BY <1>1, WordsOne, StrJoin
  <2> QED
    BY <1>1, <2>1, StrJoin
<1> QED
  BY <1>2 DEF GroupHead, MsgHead

LEMMA SoFarStr ==
  ASSUME NEW d
  PROVE  /\ GroupFormed(d) => Str(GroupSoFar(d)) /\ DeclText(d) = GroupSoFar(d) \o Words(<<"RBRACE">>)
         /\ MsgFormed(d) => Str(MsgSoFar(d)) /\ DeclText(d) = MsgSoFar(d) \o Words(<<"RBRACE">>)
         /\ GroupFormed(d) => Comments(d) = d.notes
         /\ MsgFormed(d) => /\ Comments(d) = d.notes \o FlattenSeq(FieldNotes(d.fields))
                            /\ Len(Comments(d)) = Len(d.notes) + Len(FlattenSeq(FieldNotes(d.fields)))
                            /\ Len(d.notes) \in Nat /\ Len(FlattenSeq(FieldNotes(d.fields))) \in Nat
                            /\ Str(Comments(d))
<1>1. ASSUME GroupFormed(d)
      PROVE  /\ Str(GroupSoFar(d)) /\ DeclText(d) = GroupSoFar(d) \o Words(<<"RBRACE">>)
             /\ Comments(d) = d.notes
  <2>1. Str(Joined(ItemTexts(d.items), Words(<<"COMMA">>)))
    BY <1>1, ItemParts, JoinedStr, WordsOne DEF GroupFormed
  <2>2. Str(GroupSoFar(d))
    BY <2>1, HeadStr, StrJoin DEF GroupSoFar
  <2> QED
    BY <1>1, <2>2 DEF GroupFormed, DeclText, Comments, GroupSoFar, GroupHead, ItemTexts
<1>2. ASSUME MsgFormed(d)
      PROVE  /\ Str(MsgSoFar(d)) /\ DeclText(d) = MsgSoFar(d) \o Words(<<"RBRACE">>)
             /\ Comments(d) = d.notes \o FlattenSeq(FieldNotes(d.fields))
             /\ Len(Comments(d)) = Len(d.notes) + Len(FlattenSeq(FieldNotes(d.fields)))
             /\ Len(d.notes) \in Nat /\ Len(FlattenSeq(FieldNotes(d.fields))) \in Nat
             /\ Str(Comments(d))
  <2>1. Str(FlattenSeq(FieldTexts(d.fields)))
    BY <1>2, FieldParts, FlattenStr DEF MsgFormed
  <2>2. Str(MsgSoFar(d))
    BY <2>1, HeadStr, StrJoin DEF MsgSoFar
  <2>3. DeclText(d) = MsgSoFar(d) \o Words(<<"RBRACE">>)
    BY <1>2 DEF MsgFormed, DeclText, MsgSoFar, MsgHead, FieldTexts
  <2>4. Comments(d) = d.notes \o FlattenSeq(FieldNotes(d.fields))
    BY <1>2 DEF MsgFormed, Comments, FieldNotes
  <2>5. Str(d.notes) /\ Str(FlattenSeq(FieldNotes(d.fields)))
    BY <1>2, NoteParts, FlattenStr DEF MsgFormed
  <2> QED
    BY <2>2, <2>3, <2>4, <2>5, StrJoin, StrShape
<1> QED
  BY <1>1, <1>2

LEMMA DeclStr == ASSUME NEW d, Formed(d) PROVE Str(DeclText(d)) /\ Str(Comments(d))
<1>w. \A x : Str(Words(<<x>>))
  BY WordsOne
<1>j. ASSUME NEW x, NEW n, NEW s, Str(s) PROVE Str(Words(<<x>>) \o Name(n) \o s)
  <2>1. Str(Words(<<x>>) \o Name(n))
    BY <1>w, NameOne, StrJoin
  <2> QED
    BY <1>j, <2>1, StrJoin
<1>1. CASE d.kind = "const"
  <2>1. Str(ExprText(d.val))
    BY <1>1, ExprTextStr DEF Formed
  <2> QED
    BY <1>1, <1>j, <2>1, StrWord DEF DeclText, Comments
<1>2. CASE d.kind = "extern"
  BY <1>2, <1>j, TypeTextStr, StrWord DEF DeclText, Comments
<1>3. CASE d.kind = "typedef"
  BY <1>3, <1>j, TypeTextStr, StrWord DEF DeclText, Comments
<1>4. CASE d.kind = "bind"
  <2>1. Str(IF d.msgName = NoName THEN Words(<<"NIL">>) ELSE Name(d.msgName))
    BY <1>w, NameOne
  <2> QED
    BY <1>4, <1>j, <2>1, StrWord DEF DeclText, Comments
<1>5. CASE d.kind = "comment"
  BY <1>5, StrWord DEF DeclText, Comments
<1>6. CASE d.kind = "group"
  <2>1. GroupFormed(d)
    BY <1>6 DEF Formed
  <2>2. Str(GroupSoFar(d)) /\ DeclText(d) = GroupSoFar(d) \o Words(<<"RBRACE">>) /\ Comments(d) = d.notes
    BY <2>1, SoFarStr
  <2> QED
    BY <1>w, <2>1, <2>2, StrJoin DEF GroupFormed
<1>7. CASE d.kind = "msg"
  <2>1. MsgFormed(d)
    BY <1>7 DEF Formed
  <2>2. Str(MsgSoFar(d)) /\ DeclText(d) = MsgSoFar(d) \o Words(<<"RBRACE">>) /\ Str(Comments(d))
    BY <2>1, SoFarStr
  <2> QED
    BY <1>w, <2>2, StrJoin
<1> QED
  BY <1>1, <1>2, <1>3, <1>4, <1>5, <1>6, <1>7 DEF Formed, Kinds

(* A program, one declaration more.                                        *)
Texts(ds) == [i \in DOMAIN ds |-> DeclText(ds[i])]
Notices(ds) == [i \in DOMAIN ds |-> Comments(ds[i])]

ProgramFormed(ds) == Str(ds) /\ \A i \in DOMAIN ds : Formed(ds[i])

LEMMA ProgramParts ==
  ASSUME NEW ds, ProgramFormed(ds)
  PROVE  /\ Parts(Texts(ds)) /\ Len(Texts(ds)) = Len(ds) /\ \A i \in DOMAIN ds : Texts(ds)[i] = DeclText(ds[i])
         /\ Parts(Notices(ds)) /\ Len(Notices(ds)) = Len(ds) /\ \A i \in DOMAIN ds : Notices(ds)[i] = Comments(ds[i])
<1> DEFINE u == Texts(ds)
           v == Notices(ds)
           n == Len(ds)
<1>1. n \in Nat /\ DOMAIN ds = 1..n
  BY StrShape DEF ProgramFormed
<1>2. /\ u = [k \in 1..n |-> u[k]] /\ \A k \in DOMAIN ds : u[k] = DeclText(ds[k])
      /\ v = [k \in 1..n |-> v[k]] /\ \A k \in DOMAIN ds : v[k] = Comments(ds[k])
  BY <1>1 DEF Texts, Notices
<1> HIDE DEF u, v, n
<1>3. Str(u) /\ Len(u) = n /\ Str(v) /\ Len(v) = n /\ DOMAIN u = DOMAIN ds /\ DOMAIN v = DOMAIN ds
  BY <1>1, <1>2, StrMade
<1>4. \A k \in DOMAIN ds : Str(u[k]) /\ Str(v[k])
  BY <1>2, DeclStr DEF ProgramFormed
<1> QED
  BY <1>2, <1>3, <1>4 DEF Parts, u, v, n

LEMMA ProgramLonger ==
  ASSUME NEW ds, ProgramFormed(ds), NEW d, Formed(d)
  PROVE  /\ ProgramFormed(Append(ds, d))
         /\ FlattenSeq(Texts(Append(ds, d))) = FlattenSeq(Texts(ds)) \o DeclText(d)
         /\ FlattenSeq(Notices(Append(ds, d))) = FlattenSeq(Notices(ds)) \o Comments(d)
<1> DEFINE es == Append(ds, d)
           n == Len(ds)
<1>1. n \in Nat /\ DOMAIN ds = 1..n /\ Str(ds)
  BY StrShape DEF ProgramFormed
<1>2. Str(es) /\ Len(es) = n + 1 /\ es[n + 1] = d /\ \A k \in 1..n : es[k] = ds[k]
  BY <1>1, StrAppend
<1> HIDE DEF es
<1>3. DOMAIN es = 1..n + 1
  BY <1>2, StrShape
<1>4. ProgramFormed(es)
  <2>1. ASSUME NEW k \in 1..n + 1 PROVE Formed(es[k])
    <3>1. k \in 1..n \/ k = n + 1
      BY <1>1
    <3> QED
      BY <1>1, <1>2, <3>1 DEF ProgramFormed
  <2> QED
    BY <1>2, <1>3, <2>1 DEF ProgramFormed
<1>5. /\ Parts(Texts(ds)) /\ Len(Texts(ds)) = n /\ (\A i \in 1..n : Texts(ds)[i] = DeclText(ds[i]))
      /\ Parts(Notices(ds)) /\ Len(Notices(ds)) = n /\ (\A i \in 1..n : Notices(ds)[i] = Comments(ds[i]))
  BY <1>1, ProgramParts
<1>6. /\ Parts(Texts(es)) /\ Len(Texts(es)) = n + 1 /\ (\A i \in 1..n + 1 : Texts(es)[i] = DeclText(es[i]))
      /\ Parts(Notices(es)) /\ Len(Notices(es)) = n + 1 /\ (\A i \in 1..n + 1 : Notices(es)[i] = Comments(es[i]))
  BY <1>2, <1>3, <1>4, ProgramParts
<1> DEFINE s == Texts(ds)
           t == Texts(es)
           u == Notices(ds)
           v == Notices(es)
<1> HIDE DEF s, t, u, v, n
<1>7. t[n + 1] = DeclText(d) /\ v[n + 1] = Comments(d) /\ \A k \in 1..n : t[k] = s[k] /\ v[k] = u[k]
  <2>1. n + 1 \in 1..n + 1 /\ \A k \in 1..n : k \in 1..n + 1
    BY <1>1
  <2>2. \A k \in 1..n : /\ t[k] = DeclText(es[k]) /\ s[k] = DeclText(ds[k]) /\ es[k] = ds[k]
                        /\ v[k] = Comments(es[k]) /\ u[k] = Comments(ds[k])
    BY <1>2, <1>5, <1>6, <2>1 DEF s, t, u, v, n
  <2> QED
    BY <1>2, <1>6, <2>1, <2>2 DEF t, v, n
<1>8. Str(DeclText(d)) /\ Str(Comments(d))
  BY DeclStr
<1>9. FlattenSeq(t) = FlattenSeq(s) \o t[Len(t)]
  <2>1. Parts(s) /\ Str(t) /\ Len(t) = Len(s) + 1 /\ (\A k \in 1..Len(s) : t[k] = s[k]) /\ Str(t[Len(t)])
    BY <1>5, <1>6, <1>7, <1>8 DEF Parts, s, t
  <2> QED
    BY <2>1, FlattenLonger
<1>10. FlattenSeq(v) = FlattenSeq(u) \o v[Len(v)]
  <2>1. Parts(u) /\ Str(v) /\ Len(v) = Len(u) + 1 /\ (\A k \in 1..Len(u) : v[k] = u[k]) /\ Str(v[Len(v)])
    BY <1>5, <1>6, <1>7, <1>8 DEF Parts, u, v
  <2> QED
    BY <2>1, FlattenLonger
<1> QED
  BY <1>4, <1>6, <1>7, <1>9, <1>10 DEF s, t, u, v, es, n

-----------------------------------------------------------------------------
(* The last field of the message under construction.                       *)
LastField(d) == d.fields[Len(d.fields)]

Changed(f, part, v) == [f EXCEPT ![part] = v]

WithPart(d, part, v) ==
  LET e == With(d, Len(d.fields), part, v)
      g == Changed(LastField(d), part, v)
  IN  /\ MsgFormed(e) /\ e.name = d.name /\ e.notes = d.notes
      /\ Len(e.fields) = Len(d.fields) /\ LastField(e) = g /\ FieldFormed(LastField(d))
      /\ g[part] = v /\ \A x \in FieldNames : x # part => g[x] = LastField(d)[x]
      /\ \E u : /\ Str(u)
                /\ FlattenSeq(FieldTexts(d.fields)) = u \o FieldText(LastField(d))
                /\ FlattenSeq(FieldTexts(e.fields)) = u \o FieldText(g)
      /\ \E u : /\ Str(u)
                /\ FlattenSeq(FieldNotes(d.fields))
                     = u \o IF LastField(d).comment = NoName THEN <<>> ELSE <<LastField(d).comment>>
                /\ FlattenSeq(FieldNotes(e.fields)) = u \o IF g.comment = NoName THEN <<>> ELSE <<g.comment>>

LEMMA WithField ==
  ASSUME NEW d, MsgFormed(d), Len(d.fields) # 0, NEW part \in FieldNames, NEW v,
         part = "existIf" => Str(v)
  PROVE  WithPart(d, part, v)
<1> DEFINE n == Len(d.fields)
           f == d.fields[n]
           g == [f EXCEPT ![part] = v]
           gs == [d.fields EXCEPT ![n] = g]
           e == [d EXCEPT !.fields = gs]
<1>1. n \in Nat /\ DOMAIN d.fields = 1..n /\ n \in 1..n /\ Str(d.fields)
  BY StrShape DEF MsgFormed
<1>2. FieldFormed(f) /\ DOMAIN f = FieldNames
  BY <1>1 DEF MsgFormed, FieldFormed, Record
<1>3. g[part] = v /\ (\A x \in FieldNames : x # part => g[x] = f[x]) /\ g = [x \in FieldNames |-> g[x]]
  BY <1>2
<1>4. FieldFormed(g)
  <2>1. "existIf" \in FieldNames
    BY DEF FieldNames
  <2>2. Str(g.existIf)
    BY <1>2, <1>3, <2>1 DEF FieldFormed
  <2> QED
    BY <1>3, <2>2 DEF FieldFormed, Record
<1>e. e = With(d, n, part, v)
  BY DEF With
<1>l. f = LastField(d)
  BY DEF LastField
<1> HIDE DEF f, g, n
<1>5. /\ gs = [k \in 1..n |-> gs[k]] /\ gs[n] = g /\ \A k \in 1..n : k # n => gs[k] = d.fields[k]
  BY <1>1 DEF n
<1> HIDE DEF gs
<1>6. Str(gs) /\ Len(gs) = n /\ DOMAIN gs = 1..n
  BY <1>1, <1>5, StrMade
<1>7. /\ e = [x \in MsgNames |-> e[x]] /\ e.fields = gs /\ e.name = d.name /\ e.notes = d.notes /\ e.kind = d.kind
  BY DEF MsgFormed, Record, MsgNames
<1> HIDE DEF e
<1>8. MsgFormed(e)
  <2>1. \A k \in 1..n : FieldFormed(gs[k])
    BY <1>1, <1>4, <1>5 DEF MsgFormed, n
  <2> QED
    BY <1>6, <1>7, <2>1 DEF MsgFormed, Record
<1>9. \E u : /\ Str(u)
             /\ FlattenSeq(FieldTexts(d.fields)) = u \o FieldText(f)
             /\ FlattenSeq(FieldTexts(gs)) = u \o FieldText(g)
  <2> DEFINE s == FieldTexts(d.fields)
             t == FieldTexts(gs)
  <2>1. Parts(s) /\ Len(s) = n /\ \A k \in 1..n : s[k] = FieldText(d.fields[k])
    BY <1>1, FieldParts DEF MsgFormed, n
  <2>2. Parts(t) /\ Len(t) = n /\ \A k \in 1..n : t[k] = FieldText(gs[k])
    BY <1>6, <1>7, <1>8, FieldParts DEF MsgFormed
  <2>3. s[n] = FieldText(f) /\ t[n] = FieldText(g) /\ \A k \in 1..n - 1 : s[k] = t[k]
    <3>1. \A k \in 1..n - 1 : k \in 1..n /\ k # n
      BY <1>1
    <3> QED
      BY <1>1, <1>5, <2>1, <2>2, <3>1 DEF f
  <2> HIDE DEF s, t
  <2>4. \E u : Str(u) /\ FlattenSeq(s) = u \o s[Len(s)] /\ FlattenSeq(t) = u \o t[Len(s)]
    <3>1. Len(s) = Len(t) /\ Len(s) # 0 /\ \A k \in 1..Len(s) - 1 : s[k] = t[k]
      BY <1>1, <2>1, <2>2, <2>3
    <3> QED
      BY <2>1, <2>2, <3>1, FlattenLast
  <2> QED
    BY <2>1, <2>3, <2>4 DEF s, t
<1>10. \E u : /\ Str(u)
              /\ FlattenSeq(FieldNotes(d.fields)) = u \o IF f.comment = NoName THEN <<>> ELSE <<f.comment>>
              /\ FlattenSeq(FieldNotes(gs)) = u \o IF g.comment = NoName THEN <<>> ELSE <<g.comment>>
  <2> DEFINE s == FieldNotes(d.fields)
             t == FieldNotes(gs)
             Note1(x) == IF x.comment = NoName THEN <<>> ELSE <<x.comment>>
  <2>1. Parts(s) /\ Len(s) = n /\ \A k \in 1..n : s[k] = Note1(d.fields[k])
    BY <1>1, NoteParts DEF n
  <2>2. Parts(t) /\ Len(t) = n /\ \A k \in 1..n : t[k] = Note1(gs[k])
    BY <1>6, NoteParts
  <2>3. s[n] = Note1(f) /\ t[n] = Note1(g) /\ \A k \in 1..n - 1 : s[k] = t[k]
    <3>1. \A k \in 1..n - 1 : k \in 1..n /\ k # n
      BY <1>1
    <3> HIDE DEF Note1
    <3> QED
      BY <1>1, <1>5, <2>1, <2>2, <3>1 DEF f
  <2> HIDE DEF s, t
  <2>4. \E u : Str(u) /\ FlattenSeq(s) = u \o s[Len(s)] /\ FlattenSeq(t) = u \o t[Len(s)]
    <3>1. Len(s) = Len(t) /\ Len(s) # 0 /\ \A k \in 1..Len(s) - 1 : s[k] = t[k]
      BY <1>1, <2>1, <2>2, <2>3
    <3> QED
      BY <2>1, <2>2, <3>1, FlattenLast
  <2> QED
    BY <2>1, <2>3, <2>4 DEF s, t
<1>11. LastField(e) = g /\ Len(e.fields) = n
  BY <1>5, <1>6, <1>7 DEF LastField
<1>12. With(d, Len(d.fields), part, v) = e /\ Changed(LastField(d), part, v) = g
  BY <1>e, <1>l DEF n, g, Changed
<1> QED
  BY <1>2, <1>3, <1>7, <1>8, <1>9, <1>10, <1>11, <1>12, <1>l DEF n, WithPart

(* The descriptors of a field: one more, behind the others.                *)
PartFor == [LIMIT |-> "limit", MAX |-> "max", EQ |-> "equ", XOR |-> "xor", EXIST |-> "existIf"]

DescWords(x, v) == CASE x = "LIMIT" -> Words(<<"LIMIT", "BY">>) \o Name(v)
                     [] x = "EXIST" -> Words(<<"EXIST", "IF">>) \o ExprText(v)
                     [] OTHER       -> Words(<<x>>) \o Name(v)

Blank(f, x) == /\ DescRank[x] <= 1 => f.limit = NoName
               /\ DescRank[x] <= 2 => f.max = NoName
               /\ DescRank[x] <= 3 => f.equ = NoName
               /\ DescRank[x] <= 4 => f.xor = NoName
               /\ f.existIf = <<>>

LEMMA Ranks == /\ DOMAIN DescRank = {"LIMIT", "MAX", "EQ", "XOR", "EXIST"}
               /\ DescRank["LIMIT"] = 1 /\ DescRank["MAX"] = 2 /\ DescRank["EQ"] = 3
               /\ DescRank["XOR"] = 4 /\ DescRank["EXIST"] = 5
               /\ PartFor["LIMIT"] = "limit" /\ PartFor["MAX"] = "max" /\ PartFor["EQ"] = "equ"
               /\ PartFor["XOR"] = "xor" /\ PartFor["EXIST"] = "existIf"
  BY DEF DescRank, PartFor

LEMMA DescsGrow ==
  ASSUME NEW f, Str(f.existIf), NEW x \in DOMAIN DescRank, Blank(f, x),
         NEW v, IF x = "EXIST" THEN v # <<>> /\ Str(v) ELSE v # NoName,
         NEW g, g[PartFor[x]] = v, \A y \in FieldNames : y # PartFor[x] => g[y] = f[y]
  PROVE  /\ Descs(g) = Descs(f) \o DescWords(x, v) /\ Str(DescWords(x, v)) /\ Descs(g) # <<>>
         /\ Str(g.existIf)
<1>n. \A y \in {"limit", "max", "equ", "xor", "existIf"} : y \in FieldNames
  BY DEF FieldNames
<1>s. Str(g.existIf)
  BY <1>n, Ranks
<1>f. /\ Str(LimitText(f)) /\ Str(MaxText(f)) /\ Str(EqualText(f)) /\ Str(XorText(f)) /\ Str(ExistText(f))
      /\ Str(LimitText(f) \o MaxText(f)) /\ Str(LimitText(f) \o MaxText(f) \o EqualText(f))
      /\ Str(LimitText(f) \o MaxText(f) \o EqualText(f) \o XorText(f)) /\ Str(Descs(f))
  BY DescsStr
<1>g. /\ Str(LimitText(g)) /\ Str(MaxText(g)) /\ Str(EqualText(g)) /\ Str(XorText(g)) /\ Str(ExistText(g))
      /\ Descs(g) = <<>> <=> /\ LimitText(g) = <<>> /\ MaxText(g) = <<>> /\ EqualText(g) = <<>>
                             /\ XorText(g) = <<>> /\ ExistText(g) = <<>>
  BY <1>s, DescsStr
<1>e. ExistText(f) = <<>>
  BY DEF Blank, ExistText
<1>0. <<>> \o <<>> = <<>>
  BY StrWord, StrNothing
<1>1. CASE x = "LIMIT"
  <2>1. /\ g.limit = v /\ g.max = NoName /\ g.equ = NoName /\ g.xor = NoName /\ g.existIf = <<>>
        /\ f.limit = NoName /\ f.max = NoName /\ f.equ = NoName /\ f.xor = NoName
    BY <1>1, <1>n, Ranks DEF Blank
  <2> DEFINE w == Words(<<"LIMIT", "BY">>) \o Name(v)
  <2>2. /\ LimitText(g) = w /\ MaxText(g) = <<>> /\ EqualText(g) = <<>> /\ XorText(g) = <<>> /\ ExistText(g) = <<>>
        /\ LimitText(f) = <<>> /\ MaxText(f) = <<>> /\ EqualText(f) = <<>> /\ XorText(f) = <<>>
    BY <1>1, <2>1 DEF LimitText, MaxText, EqualText, XorText, ExistText, Optional
  <2>3. DescWords(x, v) = w
    BY <1>1 DEF DescWords
  <2>4. w # <<>> /\ Str(w)
    BY PhraseStr, NameOne, StrJoin
  <2> HIDE DEF w
  <2>5. w \o <<>> = w /\ <<>> \o w = w
    BY <2>4, StrNothing
  <2>6. Descs(g) = w /\ Descs(f) = <<>>
    BY <1>0, <1>e, <2>2, <2>5 DEF Descs
  <2> QED
    BY <1>s, <2>3, <2>4, <2>5, <2>6
<1>2. CASE x = "MAX"
  <2>1. /\ g.limit = f.limit /\ g.max = v /\ g.equ = NoName /\ g.xor = NoName /\ g.existIf = <<>>
        /\ f.max = NoName /\ f.equ = NoName /\ f.xor = NoName
    BY <1>2, <1>n, Ranks DEF Blank
  <2> DEFINE w == Words(<<"MAX">>) \o Name(v)
             a == LimitText(f)
  <2>2. /\ LimitText(g) = a /\ MaxText(g) = w /\ EqualText(g) = <<>> /\ XorText(g) = <<>> /\ ExistText(g) = <<>>
        /\ MaxText(f) = <<>> /\ EqualText(f) = <<>> /\ XorText(f) = <<>>
    BY <1>2, <2>1 DEF LimitText, MaxText, EqualText, XorText, ExistText, Optional
  <2>3. DescWords(x, v) = w
    BY <1>2 DEF DescWords
  <2>4. w # <<>> /\ Str(w)
    BY WordsOne, NameOne, StrJoin
  <2> HIDE DEF w, a
  <2>a. Str(a)
    BY <1>f DEF a
  <2>5. a \o <<>> = a /\ (a \o w) \o <<>> = a \o w
    BY <2>a, <2>4, StrNothing, StrJoin
  <2>6. Descs(g) = a \o w /\ Descs(f) = a
    BY <1>e, <2>2, <2>5 DEF Descs, a
  <2>7. a \o w # <<>>
    BY <2>a, <2>4, StrJoin
  <2> QED
    BY <1>s, <2>3, <2>4, <2>6, <2>7
<1>3. CASE x = "EQ"
  <2>1. /\ g.limit = f.limit /\ g.max = f.max /\ g.equ = v /\ g.xor = NoName /\ g.existIf = <<>>
        /\ f.equ = NoName /\ f.xor = NoName
    BY <1>3, <1>n, Ranks DEF Blank
  <2> DEFINE w == Words(<<"EQ">>) \o Name(v)
             a == LimitText(f) \o MaxText(f)
  <2>2. /\ LimitText(g) = LimitText(f) /\ MaxText(g) = MaxText(f) /\ EqualText(g) = w /\ XorText(g) = <<>>
        /\ ExistText(g) = <<>> /\ EqualText(f) = <<>> /\ XorText(f) = <<>>
    BY <1>3, <2>1 DEF LimitText, MaxText, EqualText, XorText, ExistText, Optional
  <2>3. DescWords(x, v) = w
    BY <1>3 DEF DescWords
  <2>4. w # <<>> /\ Str(w)
    BY WordsOne, NameOne, StrJoin
  <2> HIDE DEF w, a
  <2>a. Str(a)
    BY <1>f DEF a
  <2>5. a \o <<>> = a /\ (a \o w) \o <<>> = a \o w
    BY <2>a, <2>4, StrNothing, StrJoin
  <2>6. Descs(g) = a \o w /\ Descs(f) = a
    BY <1>e, <2>2, <2>5 DEF Descs, a
  <2>7. a \o w # <<>>
    BY <2>a, <2>4, StrJoin
  <2> QED
    BY <1>s, <2>3, <2>4, <2>6, <2>7
<1>4. CASE x = "XOR"
  <2>1. /\ g.limit = f.limit /\ g.max = f.max /\ g.equ = f.equ /\ g.xor = v /\ g.existIf = <<>>
        /\ f.xor = NoName
    BY <1>4, <1>n, Ranks DEF Blank
  <2> DEFINE w == Words(<<"XOR">>) \o Name(v)
             a == LimitText(f) \o MaxText(f) \o EqualText(f)
  <2>2. /\ LimitText(g) = LimitText(f) /\ MaxText(g) = MaxText(f) /\ EqualText(g) = EqualText(f) /\ XorText(g) = w
        /\ ExistText(g) = <<>> /\ XorText(f) = <<>>
    BY <1>4, <2>1 DEF LimitText, MaxText, EqualText, XorText, ExistText, Optional
  <2>3. DescWords(x, v) = w
    BY <1>4 DEF DescWords
  <2>4. w # <<>> /\ Str(w)
    BY WordsOne, NameOne, StrJoin
  <2> HIDE DEF w, a
  <2>a. Str(a)
    BY <1>f DEF a
  <2>5. a \o <<>> = a /\ (a \o w) \o <<>> = a \o w
    BY <2>a, <2>4, StrNothing, StrJoin
  <2>6. Descs(g) = a \o w /\ Descs(f) = a
    BY <1>e, <2>2, <2>5 DEF Descs, a
  <2>7. a \o w # <<>>
    BY <2>a, <2>4, StrJoin
  <2> QED
    BY <1>s, <2>3, <2>4, <2>6, <2>7
<1>5. CASE x = "EXIST"
  <2>1. g.limit = f.limit /\ g.max = f.max /\ g.equ = f.equ /\ g.xor = f.xor /\ g.existIf = v
    BY <1>5, <1>n, Ranks DEF Blank
  <2> DEFINE w == Words(<<"EXIST", "IF">>) \o ExprText(v)
             a == LimitText(f) \o MaxText(f) \o EqualText(f) \o XorText(f)
  <2>2. /\ LimitText(g) = LimitText(f) /\ MaxText(g) = MaxText(f) /\ EqualText(g) = EqualText(f)
        /\ XorText(g) = XorText(f) /\ ExistText(g) = w
    BY <1>5, <2>1 DEF LimitText, MaxText, EqualText, XorText, ExistText, Optional
  <2>3. DescWords(x, v) = w
    BY <1>5 DEF DescWords
  <2>4. w # <<>> /\ Str(w)
    BY <1>5, PhraseStr, ExprTextStr, StrJoin
  <2> HIDE DEF w, a
  <2>a. Str(a)
    BY <1>f DEF a
  <2>5. a \o <<>> = a
    BY <2>a, StrNothing
  <2>6. Descs(g) = a \o w /\ Descs(f) = a
    BY <1>e, <2>2, <2>5 DEF Descs, a
  <2>7. a \o w # <<>>
    BY <2>a, <2>4, StrJoin
  <2> QED
    BY <1>s, <2>3, <2>4, <2>6, <2>7
<1> QED
  BY <1>1, <1>2, <1>3, <1>4, <1>5, Ranks

-----------------------------------------------------------------------------
(* Where the descriptors of the last field stand: behind its arrow, token  *)
(* a, and in the order in which they are written.                          *)
Stood(a, p, x) == \E i \in a + 1..p - 1 : Is(i, x) /\ DescribedAt(a, i)

Behind(a, p, w, f) ==
  /\ a \in 1..p - 1 /\ Is(a, "DESC")
  /\ \A j \in a + 1..p - 1 : Tok(j).t \notin {"DESC", "RBRACE"}
  /\ f.limit # NoName => Stood(a, p, "LIMIT")
  /\ f.max # NoName => Stood(a, p, "MAX")
  /\ f.equ # NoName => Stood(a, p, "EQ")
  /\ f.xor # NoName => Stood(a, p, "XOR")
  /\ f.existIf # <<>> => Stood(a, p, "EXIST")
  /\ \A j \in a + 1..p - 1 : Is(j, "EXIST") => f.existIf # <<>> /\ ~Is(p, "EQ")
  /\ w = "arrow" <=> Descs(f) = <<>>

DescInv(p, w, d) == w \in {"arrow", "descs"} => \E a : Behind(a, p, w, LastField(d))

LEMMA DescNext ==
  ASSUME Plain, GoodText, NEW p \in Nat \ {0}, NEW a, NEW w, NEW f, Behind(a, p, w, f),
         NEW x \in DOMAIN DescRank, Is(p, x)
  PROVE  Blank(f, x) /\ DescribedAt(a, p) /\ \A j \in a + 1..p - 1 : ~Is(j, "EXIST")
<1>0. a \in Nat /\ a < p /\ Tok(p).t = x
  BY DEF Behind, Is
<1>1. p \in DOMAIN text /\ a \in DOMAIN text
  <2>1. x # "EOF"
    BY Ranks
  <2> QED
    BY <1>0, <2>1, TokenIn DEF Behind, Is, GoodText, IsSequence
<1>2. DescribedAt(a, p)
  <2>1. \A j \in a + 1..p : j \in a + 1..p - 1 \/ j = p
    BY <1>0
  <2>2. x \notin {"DESC", "RBRACE"} /\ (x = "EXIST" => x # "EQ")
    BY Ranks
  <2>3. \A j \in a + 1..p : Tok(j).t \notin {"DESC", "RBRACE"}
    BY <1>0, <2>1, <2>2 DEF Behind
  <2>4. Is(p, "EQ") => \A j \in a + 1..p : ~Is(j, "EXIST")
    BY <1>0, <2>1 DEF Behind, Is
  <2> QED
    BY <1>0, <2>3, <2>4 DEF DescribedAt, Behind
<1>3. ASSUME NEW y \in DOMAIN DescRank, Stood(a, p, y) PROVE DescRank[y] < DescRank[x]
  <2>1. PICK i \in a + 1..p - 1 : Is(i, y) /\ DescribedAt(a, i)
    BY <1>3 DEF Stood
  <2>2. i \in DOMAIN text /\ i < p
    BY <1>0, <1>1, <2>1 DEF GoodText, IsSequence
  <2>3. DescRank[Tok(i).t] < DescRank[Tok(p).t]
    BY <1>1, <1>2, <2>1, <2>2 DEF Plain, InOrder
  <2> QED
    BY <1>0, <2>1, <2>3 DEF Is
<1>4. DescRank[x] \in 1..5 /\ {"LIMIT", "MAX", "EQ", "XOR", "EXIST"} = DOMAIN DescRank
  BY Ranks
<1>5. /\ Stood(a, p, "LIMIT") => 1 < DescRank[x]
      /\ Stood(a, p, "MAX") => 2 < DescRank[x]
      /\ Stood(a, p, "EQ") => 3 < DescRank[x]
      /\ Stood(a, p, "XOR") => 4 < DescRank[x]
      /\ Stood(a, p, "EXIST") => 5 < DescRank[x]
  BY <1>3, <1>4, Ranks
<1>6. Blank(f, x)
  BY <1>4, <1>5 DEF Blank, Behind
<1> QED
  BY <1>2, <1>6 DEF Blank, Behind

LEMMA DescBehind ==
  ASSUME Plain, GoodText, NEW p \in Nat \ {0}, NEW a, NEW w, NEW f, Behind(a, p, w, f), Str(f.existIf),
         NEW x \in DOMAIN DescRank, Is(p, x),
         NEW q \in Nat, p < q, Calm(p + 1, q - 1), x = "EXIST" => ~Is(q, "EQ"),
         NEW v, IF x = "EXIST" THEN v # <<>> /\ Str(v) ELSE v # NoName,
         NEW g, g[PartFor[x]] = v, \A y \in FieldNames : y # PartFor[x] => g[y] = f[y]
  PROVE  Behind(a, q, "descs", g) /\ Descs(g) = Descs(f) \o DescWords(x, v) /\ Str(DescWords(x, v))
<1>1. Blank(f, x) /\ DescribedAt(a, p) /\ \A j \in a + 1..p - 1 : ~Is(j, "EXIST")
  BY DescNext
<1>2. Descs(g) = Descs(f) \o DescWords(x, v) /\ Str(DescWords(x, v)) /\ Descs(g) # <<>>
  BY <1>1, DescsGrow
<1>3. a \in Nat \ {0} /\ a < p /\ a \in 1..q - 1
  BY DEF Behind
<1>4. \A j \in a + 1..q - 1 : j \in a + 1..p - 1 \/ j = p \/ (j \in p + 1..q - 1 /\ Tok(j).t \notin Loud)
  BY <1>3 DEF Calm
<1>5. x \notin {"DESC", "RBRACE"} /\ Tok(p).t = x
  BY Ranks DEF Is
<1>6. \A j \in a + 1..q - 1 : Tok(j).t \notin {"DESC", "RBRACE"}
  BY <1>4, <1>5 DEF Behind, Loud
<1>7. \A y : Stood(a, p, y) => Stood(a, q, y)
  <2>1. \A i \in a + 1..p - 1 : i \in a + 1..q - 1
    BY <1>3
  <2> QED
    BY <2>1 DEF Stood
<1>8. Stood(a, q, x)
  <2>1. p \in a + 1..q - 1
    BY <1>3
  <2> QED
    BY <1>1, <2>1 DEF Stood
<1>9. \A j \in a + 1..q - 1 : Is(j, "EXIST") => j = p /\ x = "EXIST"
  BY <1>1, <1>4, <1>5 DEF Is, Loud
<1>10. \A y \in {"limit", "max", "equ", "xor", "existIf"} : y \in FieldNames
  BY DEF FieldNames
<1>11. /\ g.limit # NoName => Stood(a, q, "LIMIT")
       /\ g.max # NoName => Stood(a, q, "MAX")
       /\ g.equ # NoName => Stood(a, q, "EQ")
       /\ g.xor # NoName => Stood(a, q, "XOR")
       /\ g.existIf # <<>> => Stood(a, q, "EXIST")
  <2>1. CASE x = "LIMIT"
    BY <1>7, <1>8, <1>10, <2>1, Ranks DEF Behind
  <2>2. CASE x = "MAX"
    BY <1>7, <1>8, <1>10, <2>2, Ranks DEF Behind
  <2>3. CASE x = "EQ"
    BY <1>7, <1>8, <1>10, <2>3, Ranks DEF Behind
  <2>4. CASE x = "XOR"
    BY <1>7, <1>8, <1>10, <2>4, Ranks DEF Behind
  <2>5. CASE x = "EXIST"
    BY <1>7, <1>8, <1>10, <2>5, Ranks DEF Behind
  <2> QED
    BY <2>1, <2>2, <2>3, <2>4, <2>5, Ranks
<1>12. x = "EXIST" => g.existIf # <<>>
  BY Ranks
<1>13. \A j \in a + 1..q - 1 : Is(j, "EXIST") => g.existIf # <<>> /\ ~Is(q, "EQ")
  BY <1>9, <1>12
<1>14. "descs" # "arrow" /\ Is(a, "DESC")
  BY DEF Behind
<1> QED
  BY <1>2, <1>3, <1>6, <1>11, <1>13, <1>14 DEF Behind

-----------------------------------------------------------------------------
(* The invariant.  What has been read is what is written of the program so *)
(* far and of the group or message under construction.                     *)
Space(sp) == IF sp = NoName THEN <<>> ELSE Words(<<"MSPACE">>) \o Name(sp)

GroupPlaces == {"notes", "items"}
MsgPlaces   == {"fields", "arrow", "descs", "tail"}

Ahead(w, d) ==
  CASE w = "top"                     -> <<>>
    [] w \in GroupPlaces             -> GroupSoFar(d)
    [] w \in MsgPlaces \ {"arrow"}   -> MsgSoFar(d)
    [] w = "arrow"                   -> MsgSoFar(d) \o Words(<<"DESC">>)
AheadNotes(w, d) == IF w = "top" THEN 0 ELSE Len(Comments(d))

Told(p, w, d, ds, sp) ==
  /\ Read(p - 1) = (Space(sp) \o FlattenSeq(Texts(ds))) \o Ahead(w, d)
  /\ Len(Remarks(p - 1)) = Len(FlattenSeq(Notices(ds))) + AheadNotes(w, d)

OpenFormed(w, d) ==
  /\ w \in {"top"} \cup GroupPlaces \cup MsgPlaces
  /\ w \in GroupPlaces => GroupFormed(d) /\ (w = "notes" <=> d.items = <<>>)
  /\ w \in MsgPlaces => MsgFormed(d)
  /\ w \in {"arrow", "descs", "tail"} => Len(d.fields) # 0 /\ LastField(d).comment = NoName

(* A keyword stands apart from what is before it.                          *)
ApartAt(i) == Separated(i) \/ Is(i - 1, "SEMI") \/ Unrelated(i)
ApartInv(p, w) == /\ \A i \in 1..p - 1 : Tok(i).t \in Keywords => ApartAt(i)
                  /\ w = "top" => ApartAt(p)

(* Every type is written by a word, and no name stands for another type.   *)
Lonely(ds, ts, res) == /\ \A i \in DOMAIN ds : \A t \in Types(ds[i]) : Lone(t)
                       /\ \A t \in ts : Lone(t)
                       /\ DOMAIN res = {}

Stands(p, n) == \E j \in 1..p - 1 : text[j].v = n
TypeDefined(ds, n) == \E i \in DOMAIN ds : ds[i].kind = "typedef" /\ ds[i].name = n

Named(p, map, ds) ==
  \A n \in DOMAIN map : \/ n \in Builtins
                        \/ map[n] = StructOf(n)
                        \/ Stands(p, n) /\ (map[n] = Undef(n, NilType) \/ TypeDefined(ds, n))

TypesAhead(w, d) == IF w \in MsgPlaces THEN Types(d) ELSE {}

HeardAs(p, w, d, ds, sp, map, res) ==
  /\ p \in Nat \ {0} /\ p - 1 <= Len(text)
  /\ OpenFormed(w, d) /\ ProgramFormed(ds)
  /\ Told(p, w, d, ds, sp)
  /\ ApartInv(p, w)
  /\ DescInv(p, w, d)
  /\ Lonely(ds, TypesAhead(w, d), res)
  /\ Named(p, map, ds)

Heard == /\ HeardAs(pos, at, open, decls, mspace, tpMap, resolved)
         /\ status = "done" => at = "top" /\ Is(pos, "EOF")

FaithInv == GoodText /\ Str(decls) /\ (Plain => Heard)

LEMMA AheadStr ==
  ASSUME NEW w, NEW d, OpenFormed(w, d)
  PROVE  Str(Ahead(w, d)) /\ AheadNotes(w, d) \in Nat
<1>1. CASE w = "top"
  <2>1. w \notin GroupPlaces /\ w \notin MsgPlaces
    BY <1>1 DEF GroupPlaces, MsgPlaces
  <2>2. Ahead(w, d) = <<>> /\ AheadNotes(w, d) = 0
    BY <1>1, <2>1 DEF Ahead, AheadNotes
  <2> QED
    BY <2>2, StrWord
<1>2. CASE w \in GroupPlaces
  <2>1. GroupFormed(d) /\ w # "top" /\ w \notin MsgPlaces
    BY <1>2 DEF OpenFormed, GroupPlaces, MsgPlaces
  <2>2. Str(GroupSoFar(d)) /\ Comments(d) = d.notes /\ Str(d.notes)
    BY <2>1, SoFarStr DEF GroupFormed
  <2>3. Ahead(w, d) = GroupSoFar(d)
    BY <1>2, <2>1 DEF Ahead, MsgPlaces
  <2> QED
    BY <2>1, <2>2, <2>3, StrShape DEF AheadNotes
<1>3. CASE w \in MsgPlaces
  <2>1. MsgFormed(d) /\ w # "top" /\ w \notin GroupPlaces
    BY <1>3 DEF OpenFormed, GroupPlaces, MsgPlaces
  <2>2. Str(MsgSoFar(d)) /\ Str(Comments(d))
    BY <2>1, SoFarStr
  <2>3. Str(MsgSoFar(d) \o Words(<<"DESC">>))
    BY <2>2, WordsOne, StrJoin
  <2>4. Ahead(w, d) = IF w = "arrow" THEN MsgSoFar(d) \o Words(<<"DESC">>) ELSE MsgSoFar(d)
    BY <1>3, <2>1 DEF Ahead
  <2> QED
    BY <2>1, <2>2, <2>3, <2>4, StrShape DEF AheadNotes
<1> QED
  BY <1>1, <1>2, <1>3 DEF OpenFormed

LEMMA ProgramStr ==
  ASSUME NEW ds, ProgramFormed(ds), NEW sp
  PROVE  /\ Str(Space(sp)) /\ Str(FlattenSeq(Texts(ds))) /\ Str(Space(sp) \o FlattenSeq(Texts(ds)))
         /\ Str(FlattenSeq(Notices(ds))) /\ Len(FlattenSeq(Notices(ds))) \in Nat
<1>1. Str(FlattenSeq(Texts(ds))) /\ Str(FlattenSeq(Notices(ds)))
  BY ProgramParts, FlattenStr
<1>2. Str(Words(<<"MSPACE">>) \o Name(sp))
  BY WordsOne, NameOne, StrJoin
<1>3. Str(Space(sp))
  BY <1>2, StrWord DEF Space
<1> QED
  BY <1>1, <1>3, StrJoin, StrShape

(* A turn that adds words to what is under construction.                   *)
LEMMA ToldOn ==
  ASSUME NEW p, NEW w, NEW d, NEW ds, NEW sp, Told(p, w, d, ds, sp), ProgramFormed(ds), OpenFormed(w, d),
         NEW q, NEW ws, NEW c, Reads(p, q - 1, ws, c),
         NEW w2, NEW d2, Ahead(w2, d2) = Ahead(w, d) \o ws, AheadNotes(w2, d2) = AheadNotes(w, d) + c
  PROVE  Told(q, w2, d2, ds, sp)
<1> DEFINE a == Space(sp) \o FlattenSeq(Texts(ds))
           b == Ahead(w, d)
<1>1. Str(a) /\ Str(b) /\ Str(ws) /\ c \in Nat /\ AheadNotes(w, d) \in Nat /\ Len(FlattenSeq(Notices(ds))) \in Nat
  BY AheadStr, ProgramStr DEF Reads
<1>2. Read(p - 1) = a \o b /\ Read(q - 1) = Read(p - 1) \o ws
  BY DEF Told, Reads
<1> HIDE DEF a, b
<1>3. (a \o b) \o ws = a \o (b \o ws)
  <2>1. Str(a) /\ Str(b) /\ Str(ws)
    BY <1>1
  <2> QED
    BY <2>1, StrAssoc
<1>4. Read(q - 1) = a \o Ahead(w2, d2)
  BY <1>2, <1>3 DEF b
<1>5. Len(Remarks(q - 1)) = Len(FlattenSeq(Notices(ds))) + AheadNotes(w2, d2)
  <2>1. /\ Len(Remarks(p - 1)) = Len(FlattenSeq(Notices(ds))) + AheadNotes(w, d)
        /\ Len(Remarks(q - 1)) = Len(Remarks(p - 1)) + c
    BY DEF Told, Reads
  <2> QED
    BY <1>1, <2>1
<1> QED
  BY <1>4, <1>5 DEF Told, a

(* A turn that ends a declaration.                                         *)
LEMMA ToldDecl ==
  ASSUME NEW p, NEW w, NEW d, NEW ds, NEW sp, Told(p, w, d, ds, sp), ProgramFormed(ds), OpenFormed(w, d),
         NEW q, NEW ws, NEW c, Reads(p, q - 1, ws, c),
         NEW e, Formed(e), DeclText(e) = Ahead(w, d) \o ws, Len(Comments(e)) = AheadNotes(w, d) + c, NEW d2
  PROVE  Told(q, "top", d2, Append(ds, e), sp) /\ ProgramFormed(Append(ds, e))
<1> DEFINE s == Space(sp)
           a == FlattenSeq(Texts(ds))
           b == Ahead(w, d)
           n == FlattenSeq(Notices(ds))
           es == Append(ds, e)
<1>1. /\ Str(s) /\ Str(a) /\ Str(s \o a) /\ Str(b) /\ Str(ws) /\ c \in Nat /\ AheadNotes(w, d) \in Nat
      /\ Str(n) /\ Len(n) \in Nat
  BY AheadStr, ProgramStr DEF Reads
<1>2. Read(p - 1) = (s \o a) \o b /\ Read(q - 1) = Read(p - 1) \o ws
  BY DEF Told, Reads
<1>3. /\ ProgramFormed(es)
      /\ FlattenSeq(Texts(es)) = a \o DeclText(e)
      /\ FlattenSeq(Notices(es)) = n \o Comments(e)
  BY ProgramLonger
<1>4. Str(DeclText(e)) /\ Str(Comments(e))
  BY DeclStr
<1>5. Len(FlattenSeq(Notices(es))) = Len(n) + Len(Comments(e))
  BY <1>1, <1>3, <1>4, StrJoin
<1> HIDE DEF s, a, b, n, es
<1>6. Read(q - 1) = (s \o FlattenSeq(Texts(es))) \o <<>>
  <2>1. ((s \o a) \o b) \o ws = (s \o a) \o (b \o ws)
    <3>1. Str(s \o a) /\ Str(b) /\ Str(ws)
      BY <1>1
    <3> QED
      BY <3>1, StrAssoc
  <2>2. (s \o a) \o DeclText(e) = s \o (a \o DeclText(e))
    <3> DEFINE x == DeclText(e)
    <3>1. Str(s) /\ Str(a) /\ Str(x)
      BY <1>1, <1>4
    <3> HIDE DEF x
    <3>2. (s \o a) \o x = s \o (a \o x)
      BY <3>1, StrAssoc
    <3> QED
      BY <3>2 DEF x
  <2>3. b \o ws = DeclText(e)
    BY DEF b
  <2>4. Str(a \o DeclText(e))
    BY <1>1, <1>4, StrJoin
  <2>5. Str(s \o (a \o DeclText(e)))
    BY <1>1, <2>4, StrJoin
  <2>6. (s \o (a \o DeclText(e))) \o <<>> = s \o (a \o DeclText(e))
    BY <2>5, StrNothing
  <2> QED
    BY <1>2, <1>3, <2>1, <2>2, <2>3, <2>6
<1>7. Len(Remarks(q - 1)) = Len(FlattenSeq(Notices(es))) + 0
  <2>1. /\ Len(Remarks(p - 1)) = Len(n) + AheadNotes(w, d)
        /\ Len(Remarks(q - 1)) = Len(Remarks(p - 1)) + c
    BY DEF Told, Reads, n
  <2> QED
    BY <1>1, <1>5, <2>1
<1>8. Ahead("top", d2) = <<>> /\ AheadNotes("top", d2) = 0
  <2>1. "top" \notin GroupPlaces /\ "top" \notin MsgPlaces
    BY DEF GroupPlaces, MsgPlaces
  <2> QED
    BY <2>1 DEF Ahead, AheadNotes
<1> QED
  BY <1>3, <1>6, <1>7, <1>8 DEF Told, s, es

(* Keywords: none in what a turn reads behind its first word.              *)
Low(a, b) == \A j \in a..b : Tok(j).t \notin Keywords

LEMMA CalmLow == \A a, b : Calm(a, b) => Low(a, b)
  BY DEF Calm, Low, Loud

LEMMA ApartOn ==
  ASSUME NEW p \in Nat \ {0}, NEW w, ApartInv(p, w), NEW q \in Nat, p <= q, Low(p + 1, q - 1),
         p < q /\ w # "top" => Tok(p).t \notin Keywords,
         NEW w2, w2 = "top" => ApartAt(q)
  PROVE  ApartInv(q, w2)
<1> SUFFICES ASSUME NEW i \in 1..q - 1, Tok(i).t \in Keywords PROVE ApartAt(i)
  BY DEF ApartInv
<1>1. i \in 1..p - 1 \/ i = p \/ i \in p + 1..q - 1
  OBVIOUS
<1>2. i \notin p + 1..q - 1
  BY DEF Low
<1> QED
  BY <1>1, <1>2 DEF ApartInv

LEMMA NamedOn ==
  ASSUME NEW p \in Nat \ {0}, NEW map, NEW ds, Named(p, map, ds), NEW q \in Nat, p <= q,
         NEW es, \A n : TypeDefined(ds, n) => TypeDefined(es, n)
  PROVE  Named(q, map, es)
<1>1. \A n : Stands(p, n) => Stands(q, n)
  <2>1. \A j \in 1..p - 1 : j \in 1..q - 1
    OBVIOUS
  <2> QED
    BY <2>1 DEF Stands
<1> QED
  BY <1>1 DEF Named

LEMMA NamedPut ==
  ASSUME NEW p, NEW map, NEW ds, Named(p, map, ds), NEW n, NEW x,
         x = StructOf(n) \/ (Stands(p, n) /\ (x = Undef(n, NilType) \/ TypeDefined(ds, n)))
  PROVE  Named(p, Put(map, n, x), ds)
<1> DEFINE g == Put(map, n, x)
<1>1. /\ DOMAIN g = DOMAIN map \cup {n} /\ g[n] = x
      /\ \A y \in DOMAIN map : y # n => g[y] = map[y]
  BY DEF Put
<1> HIDE DEF g
<1>2. Named(p, g, ds)
  BY <1>1 DEF Named
<1> QED
  BY <1>2 DEF g

LEMMA DefinedLonger ==
  ASSUME NEW ds, Str(ds), NEW d
  PROVE  \A n : TypeDefined(ds, n) => TypeDefined(Append(ds, d), n)
<1> DEFINE es == Append(ds, d)
           m == Len(ds)
<1>1. m \in Nat /\ DOMAIN ds = 1..m /\ Str(es) /\ Len(es) = m + 1 /\ \A k \in 1..m : es[k] = ds[k]
  <2>1. m \in Nat /\ DOMAIN ds = 1..m
    BY StrShape
  <2>2. Str(es) /\ Len(es) = m + 1 /\ \A k \in 1..m : es[k] = ds[k]
    BY StrAppend
  <2> QED
    BY <2>1, <2>2
<1>2. DOMAIN es = 1..m + 1
  BY <1>1, StrShape
<1> HIDE DEF es, m
<1>3. \A k \in 1..m : k \in 1..m + 1
  BY <1>1
<1>4. \A n : TypeDefined(ds, n) => TypeDefined(es, n)
  BY <1>1, <1>2, <1>3 DEF TypeDefined
<1> QED
  BY <1>4 DEF es

LEMMA LonelyLonger ==
  ASSUME NEW ds, Str(ds), NEW ts, NEW res, Lonely(ds, ts, res), NEW d, \A t \in Types(d) : Lone(t)
  PROVE  Lonely(Append(ds, d), {}, res)
<1> DEFINE es == Append(ds, d)
           m == Len(ds)
<1>1. m \in Nat /\ DOMAIN ds = 1..m /\ Str(es) /\ Len(es) = m + 1 /\ es[m + 1] = d /\ \A k \in 1..m : es[k] = ds[k]
  <2>1. m \in Nat /\ DOMAIN ds = 1..m
    BY StrShape
  <2>2. Str(es) /\ Len(es) = m + 1 /\ es[m + 1] = d /\ \A k \in 1..m : es[k] = ds[k]
    BY StrAppend
  <2> QED
    BY <2>1, <2>2
<1>2. DOMAIN es = 1..m + 1
  BY <1>1, StrShape
<1> HIDE DEF es, m
<1>3. \A k \in 1..m + 1 : k \in 1..m \/ k = m + 1
  BY <1>1
<1>4. Lonely(es, {}, res)
  BY <1>1, <1>2, <1>3 DEF Lonely
<1> QED
  BY <1>4 DEF es

(* A type_spec of such a text.                                             *)
LEMMA SpecHeard ==
  ASSUME Plain, GoodText, Heard, NEW i \in Nat \ {0}, pos <= i, IsSpec(i)
  PROVE  /\ Reads(i, SpecEnd(i) - 1, TypeText(TypeAt(i)), 0) /\ Calm(i, SpecEnd(i) - 1)
         /\ SpecEnd(i) \in Nat \ {0} /\ i <= SpecEnd(i) - 1
         /\ Lone(TypeAt(i))
         /\ SpecEnd(i) - 1 \in DOMAIN text /\ Base(i) = text[SpecEnd(i) - 1]
         /\ \A q \in Nat : SpecEnd(i) <= q => Named(q, Mapped(i), decls)
<1> DEFINE e == SpecEnd(i) - 1
           v == Base(i).v
<1>0. Brackets(i) <= 2
  <2>1. CASE i \in DOMAIN text
    BY <2>1 DEF Plain
  <2>2. CASE i \notin DOMAIN text
    <3>1. Pairs \subseteq DOMAIN text /\ IsSequence(text)
      BY DEF Pairs, GoodText
    <3>2. Brackets(i) \in 0..Len(text) /\ \A j \in 0..Brackets(i) - 1 : i + 2 * j \in Pairs
      BY <3>1, ChainEnds DEF Brackets
    <3>3. ASSUME Brackets(i) > 2 PROVE FALSE
      <4>1. 0 \in 0..Brackets(i) - 1 /\ i + 2 * 0 = i
        BY <3>2, <3>3 DEF GoodText, IsSequence
      <4> QED
        BY <2>2, <3>1, <3>2, <4>1
    <3> QED
      BY <3>2, <3>3 DEF GoodText, IsSequence
  <2> QED
    BY <2>1, <2>2
<1>1. /\ Reads(i, e, SpecText(i), 0) /\ Calm(i, e)
      /\ SpecEnd(i) \in Nat \ {0} /\ i <= e /\ e \in DOMAIN text /\ Base(i) = Tok(e)
  BY <1>0, ReadsSpec
<1>2. Tok(e) = text[e] /\ e \in Nat \ {0} /\ pos <= e /\ pos \in Nat
  <2>1. pos \in Nat /\ e = SpecEnd(i) - 1
    BY DEF Heard, HeardAs
  <2> HIDE DEF e
  <2>2. Tok(e) = text[e]
    BY <1>1 DEF Tok
  <2> QED
    BY <1>1, <2>1, <2>2
<1>3. Base(i).t \in {"PRIM", "ID"}
  BY DEF IsSpec
<1>4. Base(i).t = "ID" => v \notin Builtins
  BY <1>1, <1>2 DEF Plain, Is
<1>5. ~TypeDefined(decls, v) \/ ~Stands(pos, v)
  <2>1. SUFFICES ASSUME TypeDefined(decls, v), Stands(pos, v) PROVE FALSE
    OBVIOUS
  <2>2. PICK k \in DOMAIN decls : decls[k].kind = "typedef" /\ decls[k].name = v
    BY <2>1 DEF TypeDefined
  <2>3. PICK j \in 1..pos - 1 : text[j].v = v
    BY <2>1 DEF Stands
  <2>4. j \in DOMAIN text /\ j # e /\ e \in DOMAIN text
    BY <1>1, <1>2 DEF Heard, HeardAs, GoodText, IsSequence
  <2>5. text[e].v = v
    BY <1>1, <1>2
  <2> HIDE DEF v, e
  <2> QED
    BY <2>2, <2>3, <2>4, <2>5 DEF Plain
<1>6. WrittenBy(BaseType(i), Base(i))
  <2>1. CASE Base(i).t = "PRIM"
    BY <2>1 DEF WrittenBy, BaseType
  <2>2. CASE Base(i).t = "ID" /\ v \notin DOMAIN tpMap
    BY <2>2 DEF WrittenBy, BaseType, NamedType
  <2>3. CASE Base(i).t = "ID" /\ v \in DOMAIN tpMap
    <3>1. tpMap[v] = StructOf(v) \/ tpMap[v] = Undef(v, NilType)
      BY <1>4, <1>5, <2>3 DEF Heard, HeardAs, Named
    <3> QED
      BY <2>3, <3>1 DEF WrittenBy, BaseType, NamedType
  <2> QED
    BY <1>3, <2>1, <2>2, <2>3
<1>7. TypeText(TypeAt(i)) = SpecText(i) /\ Lone(TypeAt(i))
  BY <1>0, <1>6, SpecWritten
<1>8. ASSUME NEW q \in Nat, SpecEnd(i) <= q PROVE Named(q, Mapped(i), decls)
  <2>1. pos <= q /\ e \in 1..q - 1 /\ text[e].v = v
    <3>1. text[e].v = v
      BY <1>1, <1>2
    <3>2. e = SpecEnd(i) - 1 /\ SpecEnd(i) \in Nat
      BY <1>1
    <3> HIDE DEF e, v
    <3> QED
      BY <1>2, <1>8, <3>1, <3>2
  <2>2. Named(q, tpMap, decls)
    BY <2>1, NamedOn DEF Heard, HeardAs
  <2>3. Stands(q, v)
    BY <2>1 DEF Stands
  <2>4. CASE Mapped(i) = tpMap
    BY <2>2, <2>4
  <2>5. CASE v \notin DOMAIN tpMap /\ Mapped(i) = Put(tpMap, v, Undef(v, NilType))
    <3> DEFINE u == Undef(v, NilType)
    <3>1. u = Undef(v, NilType)
      OBVIOUS
    <3> HIDE DEF u, v
    <3>2. Named(q, Put(tpMap, v, u), decls)
      BY <2>2, <2>3, <3>1, NamedPut
    <3> QED
      BY <2>5, <3>1, <3>2
  <2> QED
    BY <2>4, <2>5 DEF Mapped
<1> QED
  BY <1>1, <1>2, <1>7, <1>8

(* The turns, by their form.  One that ends a declaration.                 *)
LEMMA DeclStep ==
  ASSUME Heard, NEW q, NEW ws, NEW c, Reads(pos, q - 1, ws, c), q \in Nat \ {0}, pos < q, Calm(pos + 1, q - 1),
         at # "top" => Tok(pos).t \notin Keywords, ApartAt(q),
         NEW d, Formed(d), DeclText(d) = Ahead(at, open) \o ws, Len(Comments(d)) = AheadNotes(at, open) + c,
         \A t \in Types(d) : Lone(t), NEW map, Named(q, map, Append(decls, d)), NEW e
  PROVE  HeardAs(q, "top", e, Append(decls, d), mspace, map, resolved)
<1>1. /\ pos \in Nat \ {0} /\ OpenFormed(at, open) /\ ProgramFormed(decls)
      /\ Told(pos, at, open, decls, mspace) /\ ApartInv(pos, at)
      /\ Lonely(decls, TypesAhead(at, open), resolved)
  BY DEF Heard, HeardAs
<1>2. Told(q, "top", e, Append(decls, d), mspace) /\ ProgramFormed(Append(decls, d))
  BY <1>1, ToldDecl
<1>3. ApartInv(q, "top")
  <2>1. q \in Nat /\ pos <= q /\ Low(pos + 1, q - 1)
    BY <1>1, CalmLow
  <2> QED
    BY <1>1, <2>1, ApartOn
<1>4. Lonely(Append(decls, d), {}, resolved)
  <2>1. Str(decls)
    BY <1>1 DEF ProgramFormed
  <2> QED
    BY <1>1, <2>1, LonelyLonger
<1>5. TypesAhead("top", e) = {} /\ OpenFormed("top", e) /\ DescInv(q, "top", e)
  BY DEF TypesAhead, OpenFormed, DescInv, GroupPlaces, MsgPlaces
<1>6. q - 1 <= Len(text)
  BY DEF Reads
<1> QED
  BY <1>2, <1>3, <1>4, <1>5, <1>6 DEF HeardAs

(* One that goes on with what is under construction.                       *)
LEMMA TurnStep ==
  ASSUME Heard, NEW q, NEW ws, NEW c, Reads(pos, q - 1, ws, c), q \in Nat \ {0}, pos <= q, Low(pos + 1, q - 1),
         pos < q /\ at # "top" => Tok(pos).t \notin Keywords,
         NEW w, w # "top", NEW d, OpenFormed(w, d),
         Ahead(w, d) = Ahead(at, open) \o ws, AheadNotes(w, d) = AheadNotes(at, open) + c,
         DescInv(q, w, d), \A t \in TypesAhead(w, d) : Lone(t), NEW map, Named(q, map, decls)
  PROVE  HeardAs(q, w, d, decls, mspace, map, resolved)
<1>1. /\ pos \in Nat \ {0} /\ OpenFormed(at, open) /\ ProgramFormed(decls)
      /\ Told(pos, at, open, decls, mspace) /\ ApartInv(pos, at)
      /\ Lonely(decls, TypesAhead(at, open), resolved)
  BY DEF Heard, HeardAs
<1>2. Told(q, w, d, decls, mspace)
  BY <1>1, ToldOn
<1>3. ApartInv(q, w)
  <2>1. q \in Nat
    OBVIOUS
  <2> QED
    BY <1>1, <2>1, ApartOn
<1>4. Lonely(decls, TypesAhead(w, d), resolved)
  BY <1>1 DEF Lonely
<1>5. q - 1 <= Len(text)
  BY DEF Reads
<1> QED
  BY <1>1, <1>2, <1>3, <1>4, <1>5 DEF HeardAs

(* The places.                                                             *)
LEMMA Places ==
  ASSUME NEW d
  PROVE  /\ Ahead("top", d) = <<>> /\ AheadNotes("top", d) = 0
         /\ \A w \in GroupPlaces : Ahead(w, d) = GroupSoFar(d) /\ w # "top" /\ w \notin MsgPlaces
         /\ \A w \in MsgPlaces : w # "top" /\ w \notin GroupPlaces
         /\ \A w \in MsgPlaces : w # "arrow" => Ahead(w, d) = MsgSoFar(d)
         /\ Ahead("arrow", d) = MsgSoFar(d) \o Words(<<"DESC">>)
         /\ \A w : w # "top" => AheadNotes(w, d) = Len(Comments(d))
         /\ \A w : w \notin MsgPlaces => TypesAhead(w, d) = {}
         /\ \A w \in MsgPlaces : TypesAhead(w, d) = Types(d)
<1>1. /\ "top" \notin GroupPlaces /\ "top" \notin MsgPlaces /\ GroupPlaces \cap MsgPlaces = {}
      /\ "arrow" \in MsgPlaces
  BY DEF GroupPlaces, MsgPlaces
<1>2. Ahead("top", d) = <<>>
  BY <1>1 DEF Ahead
<1>3. \A w \in GroupPlaces : Ahead(w, d) = GroupSoFar(d)
  <2> SUFFICES ASSUME NEW w \in GroupPlaces PROVE Ahead(w, d) = GroupSoFar(d)
    OBVIOUS
  <2>1. w # "top" /\ w \notin MsgPlaces /\ w # "arrow"
    BY <1>1
  <2> QED
    BY <2>1 DEF Ahead
<1>4. \A w \in MsgPlaces : w # "arrow" => Ahead(w, d) = MsgSoFar(d)
  <2> SUFFICES ASSUME NEW w \in MsgPlaces, w # "arrow" PROVE Ahead(w, d) = MsgSoFar(d)
    OBVIOUS
  <2>1. w # "top" /\ w \notin GroupPlaces
    BY <1>1
  <2> QED
    BY <2>1 DEF Ahead
<1>5. Ahead("arrow", d) = MsgSoFar(d) \o Words(<<"DESC">>)
  <2>1. "arrow" # "top" /\ "arrow" \notin GroupPlaces
    BY <1>1
  <2> QED
    BY <2>1 DEF Ahead
<1> QED
  BY <1>1, <1>2, <1>3, <1>4, <1>5 DEF AheadNotes, TypesAhead

(* Two words at the beginning of a turn.                                   *)
LEMMA ReadsTwo ==
  ASSUME GoodText, NEW p \in Nat \ {0}, NEW x \in Fixed, Is(p, x), Tok(p + 1).t \in {"ID", "EXPR"}
  PROVE  /\ Reads(p, p + 1, Words(<<x>>) \o Name(Tok(p + 1).v), 0)
         /\ Calm(p + 1, p + 1) /\ Tok(p + 1).v # NoName
<1>1. Reads(p, p, Words(<<x>>), 0)
  BY ReadsWord
<1>2. p + 1 \in Nat \ {0}
  OBVIOUS
<1>3. Reads(p + 1, p + 1, Name(Tok(p + 1).v), 0) /\ Calm(p + 1, p + 1) /\ Tok(p + 1).v # NoName
  BY <1>2, ReadsName
<1>4. 0 = 0 + 0 /\ p + 1 = p + 1
  OBVIOUS
<1> QED
  BY <1>1, <1>3, <1>4, ReadsThen

(* A turn at the top: its words, then a separator or none.                 *)
LEMMA TopStep ==
  ASSUME GoodText, Heard, at = "top", NEW i \in Nat \ {0}, pos < i,
         NEW ws, NEW c, Reads(pos, i - 1, ws, c), Calm(pos + 1, i - 1), Separated(i),
         NEW d, Formed(d), DeclText(d) = ws, Len(Comments(d)) = c, \A t \in Types(d) : Lone(t),
         NEW map, \A q \in Nat : i <= q => Named(q, map, decls)
  PROVE  HeardAs(Past(i), "top", open, Append(decls, d), mspace, map, resolved)
<1> DEFINE q == Past(i)
<1>1. Reads(pos, q - 1, ws, c) /\ Calm(pos + 1, q - 1) /\ q \in Nat \ {0} /\ ApartAt(q)
  BY ReadsPast DEF ApartAt
<1>2. i <= q /\ pos < q /\ q \in Nat
  <2>1. q \in {i, i + 1} /\ pos \in Nat
    BY DEF Past, Heard, HeardAs
  <2> HIDE DEF q
  <2> QED
    BY <2>1
<1> HIDE DEF q
<1>3. DeclText(d) = Ahead(at, open) \o ws /\ Len(Comments(d)) = AheadNotes(at, open) + c
  <2>1. Ahead(at, open) = <<>> /\ AheadNotes(at, open) = 0
    BY Places
  <2>2. Str(ws) /\ c \in Nat
    BY DEF Reads
  <2>3. <<>> \o ws = ws /\ 0 + c = c
    BY <2>2, StrNothing
  <2> QED
    BY <2>1, <2>3
<1>4. Named(q, map, Append(decls, d))
  <2>1. Named(q, map, decls) /\ Str(decls) /\ q \in Nat \ {0} /\ q <= q
    BY <1>1, <1>2 DEF Heard, HeardAs, ProgramFormed
  <2>2. \A n : TypeDefined(decls, n) => TypeDefined(Append(decls, d), n)
    BY <2>1, DefinedLonger
  <2> QED
    BY <1>2, <2>1, <2>2, NamedOn
<1>5. HeardAs(q, "top", open, Append(decls, d), mspace, map, resolved)
  BY <1>1, <1>2, <1>3, <1>4, DeclStep
<1> QED
  BY <1>5 DEF q

(* A map that stays.                                                       *)
LEMMA NamedStays ==
  ASSUME Heard, NEW q \in Nat, pos <= q
  PROVE  Named(q, tpMap, decls)
  BY NamedOn DEF Heard, HeardAs

HeardNext == HeardAs(pos', at', open', decls', mspace', tpMap', resolved')

(* The declarations.                                                       *)
LEMMA TopWord ==
  ASSUME NEW d
  PROVE  /\ d.kind \in {"const", "comment", "bind"} => Types(d) = {}
         /\ d.kind \in {"const", "extern", "typedef", "bind"} => Comments(d) = <<>>
         /\ d.kind = "comment" => Comments(d) = <<d.value>> /\ DeclText(d) = <<>>
         /\ d.kind = "const" => DeclText(d) = Words(<<"CONST">>) \o Name(d.name) \o ExprText(d.val)
         /\ d.kind = "extern" => DeclText(d) = Words(<<"EXTERN">>) \o Name(d.name) \o TypeText(d.type)
         /\ d.kind = "typedef" => DeclText(d) = Words(<<"TYPE">>) \o Name(d.name) \o TypeText(d.impl)
         /\ d.kind = "bind" => DeclText(d) = Words(<<"DEFBIND">>) \o Name(d.msgId)
                                 \o IF d.msgName = NoName THEN Words(<<"NIL">>) ELSE Name(d.msgName)
         /\ d.kind = "extern" => Types(d) = {d.type}
         /\ d.kind = "typedef" => Types(d) = {d.impl}
<1>1. Len(<<>>) = 0
  OBVIOUS
<1>2. d.kind \in {"const", "comment", "bind"} => Types(d) = {}
  BY DEF Types
<1>3. d.kind \in {"const", "extern", "typedef", "bind"} => Comments(d) = <<>>
  BY DEF Comments
<1>4. d.kind = "comment" => Comments(d) = <<d.value>> /\ DeclText(d) = <<>>
  BY DEF Comments, DeclText
<1>5. d.kind = "const" => DeclText(d) = Words(<<"CONST">>) \o Name(d.name) \o ExprText(d.val)
  BY DEF DeclText
<1>6. d.kind = "extern" => DeclText(d) = Words(<<"EXTERN">>) \o Name(d.name) \o TypeText(d.type)
  BY DEF DeclText
<1>7. d.kind = "typedef" => DeclText(d) = Words(<<"TYPE">>) \o Name(d.name) \o TypeText(d.impl)
  BY DEF DeclText
<1>8. d.kind = "bind" => DeclText(d) = Words(<<"DEFBIND">>) \o Name(d.msgId)
                                 \o IF d.msgName = NoName THEN Words(<<"NIL">>) ELSE Name(d.msgName)
  BY DEF DeclText
<1>9. /\ d.kind = "extern" => Types(d) = {d.type}
      /\ d.kind = "typedef" => Types(d) = {d.impl}
  BY DEF Types
<1> QED
  BY <1>2, <1>3, <1>4, <1>5, <1>6, <1>7, <1>8, <1>9

LEMMA ConstHeard == ASSUME GoodText, Heard, ConstDecl PROVE HeardNext
<1> DEFINE i == pos + 2
           v == Tok(pos + 1).v
           n == ExprLen(i)
           ops == Operands(i, n)
           d == [kind |-> "const", name |-> v, val |-> ops]
<1>1. pos \in Nat \ {0} /\ i \in Nat \ {0} /\ pos + 1 \in Nat \ {0}
  BY DEF Heard, HeardAs
<1>2. /\ at = "top" /\ Is(pos, "CONST") /\ Is(pos + 1, "ID") /\ n > 0 /\ Separated(i + n)
      /\ pos' = Past(i + n) /\ decls' = Append(decls, d)
      /\ UNCHANGED <<at, open, mspace, tpMap, resolved>>
  BY <1>1 DEF ConstDecl, AtTop, Seen, Declare, KeepTypes
<1>3. Reads(pos, pos + 1, Words(<<"CONST">>) \o Name(v), 0) /\ Calm(pos + 1, pos + 1)
  <2>1. "CONST" \in Fixed /\ Tok(pos + 1).t \in {"ID", "EXPR"}
    BY <1>2 DEF Fixed, Is
  <2> QED
    BY <1>1, <1>2, <2>1, ReadsTwo
<1>4. /\ Reads(i, (i + n) - 1, ExprText(ops), 0) /\ Calm(i, (i + n) - 1)
      /\ i + n \in Nat \ {0} /\ i <= (i + n) - 1 /\ Str(ops)
  BY <1>1, <1>2, ReadsExpr
<1> HIDE DEF v, n, ops
<1>5. Reads(pos, (i + n) - 1, (Words(<<"CONST">>) \o Name(v)) \o ExprText(ops), 0) /\ Calm(pos + 1, (i + n) - 1)
  <2>1. i = (pos + 1) + 1 /\ 0 = 0 + 0
    BY <1>1
  <2> QED
    BY <1>3, <1>4, <2>1, ReadsThen
<1>6. /\ Formed(d) /\ DeclText(d) = (Words(<<"CONST">>) \o Name(v)) \o ExprText(ops)
      /\ Len(Comments(d)) = 0 /\ \A t \in Types(d) : Lone(t)
  <2>1. d.kind = "const" /\ d.name = v /\ d.val = ops
    OBVIOUS
  <2> HIDE DEF d
  <2> QED
    BY <1>4, <2>1, TopWord, StrWord, StrShape DEF Formed, Kinds
<1>7. pos < i + n
  BY <1>1, <1>4
<1>8. \A q \in Nat : i + n <= q => Named(q, tpMap, decls)
  <2>1. \A q \in Nat : i + n <= q => pos <= q
    BY <1>1, <1>4, <1>7
  <2> QED
    BY <2>1, NamedStays
<1> HIDE DEF d
<1>9. HeardAs(Past(i + n), "top", open, Append(decls, d), mspace, tpMap, resolved)
  BY <1>2, <1>4, <1>5, <1>6, <1>7, <1>8, TopStep
<1> QED
  BY <1>2, <1>9 DEF HeardNext

LEMMA ExternHeard == ASSUME Plain, GoodText, Heard, Extern PROVE HeardNext
<1> DEFINE i == pos + 2
           v == Tok(pos + 1).v
           ty == TypeAt(i)
           e == SpecEnd(i)
           d == [kind |-> "extern", name |-> v, type |-> ty]
<1>1. pos \in Nat \ {0} /\ i \in Nat \ {0} /\ pos + 1 \in Nat \ {0} /\ pos <= i
  BY DEF Heard, HeardAs
<1>2. /\ at = "top" /\ Is(pos, "EXTERN") /\ Is(pos + 1, "ID") /\ IsSpec(i) /\ Separated(e)
      /\ pos' = Past(e) /\ decls' = Append(decls, d) /\ tpMap' = Mapped(i)
      /\ UNCHANGED <<at, open, mspace, resolved>>
  BY <1>1 DEF Extern, AtTop, Seen, Declare
<1>3. Reads(pos, pos + 1, Words(<<"EXTERN">>) \o Name(v), 0) /\ Calm(pos + 1, pos + 1)
  <2>1. "EXTERN" \in Fixed /\ Tok(pos + 1).t \in {"ID", "EXPR"}
    BY <1>2 DEF Fixed, Is
  <2> QED
    BY <1>1, <1>2, <2>1, ReadsTwo
<1>4. /\ Reads(i, e - 1, TypeText(ty), 0) /\ Calm(i, e - 1)
      /\ e \in Nat \ {0} /\ i <= e - 1 /\ Lone(ty)
      /\ \A q \in Nat : e <= q => Named(q, Mapped(i), decls)
  BY <1>1, <1>2, SpecHeard
<1> HIDE DEF v, ty, e
<1>5. Reads(pos, e - 1, (Words(<<"EXTERN">>) \o Name(v)) \o TypeText(ty), 0) /\ Calm(pos + 1, e - 1)
  <2>1. i = (pos + 1) + 1 /\ 0 = 0 + 0
    BY <1>1
  <2> QED
    BY <1>3, <1>4, <2>1, ReadsThen
<1>6. /\ Formed(d) /\ DeclText(d) = (Words(<<"EXTERN">>) \o Name(v)) \o TypeText(ty)
      /\ Len(Comments(d)) = 0 /\ \A t \in Types(d) : Lone(t)
  <2>1. d.kind = "extern" /\ d.name = v /\ d.type = ty /\ {"kind", "name", "type"} \subseteq DOMAIN d
    OBVIOUS
  <2> HIDE DEF d
  <2> QED
    BY <1>4, <2>1, TopWord, StrWord, StrShape DEF Formed, Kinds
<1>7. pos < e
  BY <1>1, <1>4
<1> HIDE DEF d
<1>8. HeardAs(Past(e), "top", open, Append(decls, d), mspace, Mapped(i), resolved)
  BY <1>2, <1>4, <1>5, <1>6, <1>7, TopStep
<1> QED
  BY <1>2, <1>8 DEF HeardNext

LEMMA BindHeard == ASSUME GoodText, Heard, Bind PROVE HeardNext
<1> DEFINE i == pos + 2
           v == Tok(pos + 1).v
           m == IF Is(i, "NIL") THEN NoName ELSE Tok(i).v
           ws == IF m = NoName THEN Words(<<"NIL">>) ELSE Name(m)
           d == [kind |-> "bind", msgId |-> v, msgName |-> m]
<1>1. pos \in Nat \ {0} /\ i \in Nat \ {0} /\ pos + 1 \in Nat \ {0} /\ pos + 3 \in Nat \ {0} /\ pos < pos + 3
  BY DEF Heard, HeardAs
<1>2. /\ at = "top" /\ Is(pos, "DEFBIND") /\ Is(pos + 1, "ID") /\ Tok(i).t \in {"NIL", "ID"} /\ Separated(pos + 3)
      /\ pos' = Past(pos + 3) /\ decls' = Append(decls, d)
      /\ UNCHANGED <<at, open, mspace, tpMap, resolved>>
  BY <1>1 DEF Bind, AtTop, Seen, Declare, KeepTypes
<1>3. Reads(pos, pos + 1, Words(<<"DEFBIND">>) \o Name(v), 0) /\ Calm(pos + 1, pos + 1)
  <2>1. "DEFBIND" \in Fixed /\ Tok(pos + 1).t \in {"ID", "EXPR"}
    BY <1>2 DEF Fixed, Is
  <2> QED
    BY <1>1, <1>2, <2>1, ReadsTwo
<1>4. Reads(i, i, ws, 0) /\ Calm(i, i)
  <2>1. CASE Is(i, "NIL")
    <3>1. "NIL" \in Fixed /\ Tok(i).t \notin Loud /\ m = NoName
      BY <2>1 DEF Fixed, Loud, Keywords, Is
    <3>2. Reads(i, i, Words(<<"NIL">>), 0) /\ Calm(i, i)
      BY <1>1, <2>1, <3>1, ReadsWord, CalmOne
    <3> QED
      BY <3>1, <3>2
  <2>2. CASE ~Is(i, "NIL")
    <3>1. Tok(i).t \in {"ID", "EXPR"} /\ m = Tok(i).v
      BY <1>2, <2>2 DEF Is
    <3>2. Reads(i, i, Name(Tok(i).v), 0) /\ Calm(i, i) /\ Tok(i).v # NoName
      BY <1>1, <3>1, ReadsName
    <3> QED
      BY <3>1, <3>2
  <2> QED
    BY <2>1, <2>2
<1> HIDE DEF v, m, ws
<1>5. Reads(pos, (pos + 3) - 1, (Words(<<"DEFBIND">>) \o Name(v)) \o ws, 0) /\ Calm(pos + 1, (pos + 3) - 1)
  <2>1. i = (pos + 1) + 1 /\ 0 = 0 + 0 /\ (pos + 3) - 1 = i
    BY <1>1
  <2>2. Reads(pos, i, (Words(<<"DEFBIND">>) \o Name(v)) \o ws, 0) /\ Calm(pos + 1, i)
    BY <1>3, <1>4, <2>1, ReadsThen
  <2> QED
    BY <2>1, <2>2
<1>6. /\ Formed(d) /\ DeclText(d) = (Words(<<"DEFBIND">>) \o Name(v)) \o ws
      /\ Len(Comments(d)) = 0 /\ \A t \in Types(d) : Lone(t)
  <2>1. d.kind = "bind" /\ d.msgId = v /\ d.msgName = m
    OBVIOUS
  <2> HIDE DEF d
  <2> QED
    BY <2>1, TopWord, StrWord, StrShape DEF Formed, Kinds, ws
<1>7. \A q \in Nat : pos + 3 <= q => Named(q, tpMap, decls)
  <2>1. \A q \in Nat : pos + 3 <= q => pos <= q
    BY <1>1
  <2> QED
    BY <2>1, NamedStays
<1> HIDE DEF d
<1>8. HeardAs(Past(pos + 3), "top", open, Append(decls, d), mspace, tpMap, resolved)
  BY <1>1, <1>2, <1>5, <1>6, <1>7, TopStep
<1> QED
  BY <1>2, <1>8 DEF HeardNext

LEMMA CommentHeard == ASSUME GoodText, Heard, Comment PROVE HeardNext
<1> DEFINE v == Tok(pos).v
           q == pos + 1
           d == [kind |-> "comment", value |-> v]
<1>1. pos \in Nat \ {0} /\ q \in Nat \ {0} /\ pos < q /\ q - 1 = pos /\ pos <= q /\ q \in Nat
  BY DEF Heard, HeardAs
<1>2. /\ at = "top" /\ Is(pos, "SCOMMENT")
      /\ pos' = q /\ decls' = Append(decls, d)
      /\ UNCHANGED <<at, open, mspace, tpMap, resolved>>
  BY <1>1 DEF Comment, AtTop, Seen, Declare, KeepTypes
<1>3. Reads(pos, q - 1, <<>>, 1)
  <2>1. Reads(pos, pos, <<>>, IF "SCOMMENT" = "SEMI" THEN 0 ELSE 1)
    BY <1>1, <1>2, ReadsSkipped
  <2> QED
    BY <1>1, <2>1
<1>4. Calm(pos + 1, q - 1)
  BY <1>1 DEF Calm
<1>5. ApartAt(q)
  BY <1>1, <1>2 DEF ApartAt, Unrelated
<1> HIDE DEF v, q
<1>6. /\ Formed(d) /\ DeclText(d) = <<>> /\ Len(Comments(d)) = 1 /\ \A t \in Types(d) : Lone(t)
  <2>1. d.kind = "comment" /\ d.value = v
    OBVIOUS
  <2> HIDE DEF d
  <2> QED
    BY <2>1, TopWord, StrWord DEF Formed, Kinds
<1> HIDE DEF d
<1>7. DeclText(d) = Ahead(at, open) \o <<>> /\ Len(Comments(d)) = AheadNotes(at, open) + 1
  <2>1. Ahead(at, open) = <<>> /\ AheadNotes(at, open) = 0
    BY <1>2, Places
  <2>2. <<>> \o <<>> = <<>> /\ 1 = 0 + 1
    BY StrWord, StrNothing
  <2> QED
    BY <1>6, <2>1, <2>2
<1>8. Named(q, tpMap, Append(decls, d))
  <2>1. Named(q, tpMap, decls) /\ Str(decls)
    BY <1>1, NamedStays DEF Heard, HeardAs, ProgramFormed
  <2>2. \A n : TypeDefined(decls, n) => TypeDefined(Append(decls, d), n)
    BY <2>1, DefinedLonger
  <2>3. q <= q
    BY <1>1
  <2> QED
    BY <1>1, <2>1, <2>2, <2>3, NamedOn
<1>9. HeardAs(q, "top", open, Append(decls, d), mspace, tpMap, resolved)
  BY <1>1, <1>2, <1>3, <1>4, <1>5, <1>6, <1>7, <1>8, DeclStep
<1> QED
  BY <1>2, <1>9 DEF HeardNext

LEMMA DefineHeard == ASSUME Plain, GoodText, Heard, DefineType PROVE HeardNext
<1> DEFINE i == pos + 2
           v == Tok(pos + 1).v
           ty == TypeAt(i)
           e == SpecEnd(i)
           d == [kind |-> "typedef", name |-> v, impl |-> ty]
           ds == Append(decls, d)
<1>1. pos \in Nat \ {0} /\ i \in Nat \ {0} /\ pos + 1 \in Nat \ {0} /\ pos <= i
  BY DEF Heard, HeardAs
<1>2. /\ at = "top" /\ Is(pos, "TYPE") /\ Is(pos + 1, "ID") /\ IsSpec(i)
      /\ pos' = e /\ decls' = ds /\ tpMap' = Put(Mapped(i), v, ty)
      /\ UNCHANGED <<at, open, mspace, resolved>>
  BY <1>1 DEF DefineType, AtTypeDef, TypeDef, AtTop, Seen, Declare
<1>3. Reads(pos, pos + 1, Words(<<"TYPE">>) \o Name(v), 0) /\ Calm(pos + 1, pos + 1)
  <2>1. "TYPE" \in Fixed /\ Tok(pos + 1).t \in {"ID", "EXPR"}
    BY <1>2 DEF Fixed, Is
  <2> QED
    BY <1>1, <1>2, <2>1, ReadsTwo
<1>4. /\ Reads(i, e - 1, TypeText(ty), 0) /\ Calm(i, e - 1)
      /\ e \in Nat \ {0} /\ i <= e - 1 /\ Lone(ty)
      /\ \A q \in Nat : e <= q => Named(q, Mapped(i), decls)
  BY <1>1, <1>2, SpecHeard
<1>s. Stands(e, v)
  <2>1. Tok(pos + 1) = text[pos + 1]
    BY <1>1, <1>2, TokenIn DEF Is
  <2>2. pos + 1 \in 1..e - 1
    BY <1>1, <1>4
  <2> QED
    BY <2>1, <2>2 DEF Stands
<1> HIDE DEF v, ty, e
<1>5. Reads(pos, e - 1, (Words(<<"TYPE">>) \o Name(v)) \o TypeText(ty), 0) /\ Calm(pos + 1, e - 1)
  <2>1. i = (pos + 1) + 1 /\ 0 = 0 + 0
    BY <1>1
  <2> QED
    BY <1>3, <1>4, <2>1, ReadsThen
<1>k. d.kind = "typedef" /\ d.name = v /\ d.impl = ty /\ {"kind", "name", "impl"} \subseteq DOMAIN d
  OBVIOUS
<1> HIDE DEF d
<1>6. /\ Formed(d) /\ DeclText(d) = (Words(<<"TYPE">>) \o Name(v)) \o TypeText(ty)
      /\ Len(Comments(d)) = 0 /\ \A t \in Types(d) : Lone(t)
  BY <1>4, <1>k, TopWord, StrWord, StrShape DEF Formed, Kinds
<1>7. pos < e /\ e \in Nat
  BY <1>1, <1>4
<1>8. ApartAt(e)
  <2>1. pos \in 1..e - 1
    BY <1>1, <1>7
  <2>2. \A l \in pos + 1..e - 1 : Tok(l).t \notin Keywords
    BY <1>5 DEF Calm, Loud
  <2> QED
    BY <1>2, <2>1, <2>2 DEF ApartAt, Unrelated
<1>9. DeclText(d) = Ahead(at, open) \o ((Words(<<"TYPE">>) \o Name(v)) \o TypeText(ty))
      /\ Len(Comments(d)) = AheadNotes(at, open) + 0
  <2>1. Ahead(at, open) = <<>> /\ AheadNotes(at, open) = 0
    BY <1>2, Places
  <2>2. Str((Words(<<"TYPE">>) \o Name(v)) \o TypeText(ty))
    BY <1>5 DEF Reads
  <2>3. <<>> \o ((Words(<<"TYPE">>) \o Name(v)) \o TypeText(ty)) = (Words(<<"TYPE">>) \o Name(v)) \o TypeText(ty)
        /\ 0 = 0 + 0
    BY <2>2, StrNothing
  <2> QED
    BY <1>6, <2>1, <2>3
<1>10. Named(e, Put(Mapped(i), v, ty), ds)
  <2>1. Str(decls) /\ e <= e
    BY <1>7 DEF Heard, HeardAs, ProgramFormed
  <2>2. (\A n : TypeDefined(decls, n) => TypeDefined(ds, n))
    BY <2>1, DefinedLonger
  <2>3. Named(e, Mapped(i), ds)
    BY <1>4, <1>7, <2>1, <2>2, NamedOn
  <2>4. TypeDefined(ds, v)
    <3>1. Str(ds) /\ Len(ds) = Len(decls) + 1 /\ ds[Len(decls) + 1] = d
      BY <2>1, StrAppend
    <3>2. Len(decls) \in Nat /\ DOMAIN ds = 1..Len(ds)
      BY <2>1, <3>1, StrShape
    <3> HIDE DEF ds
    <3>3. Len(decls) + 1 \in DOMAIN ds
      BY <3>1, <3>2
    <3> QED
      BY <1>k, <3>1, <3>3 DEF TypeDefined
  <2> HIDE DEF ds
  <2> QED
    BY <1>s, <2>3, <2>4, NamedPut
<1>11. HeardAs(e, "top", open, ds, mspace, Put(Mapped(i), v, ty), resolved)
  BY <1>2, <1>4, <1>5, <1>6, <1>7, <1>8, <1>9, <1>10, DeclStep
<1> QED
  BY <1>2, <1>11 DEF HeardNext

(* No forward reference of such a text is resolved: its name stands twice. *)
LEMMA ResolveNot == ASSUME Plain, Plain', GoodText, Heard, ResolveType PROVE FALSE
<1> DEFINE i == pos + 2
           v == Tok(pos + 1).v
           e == SpecEnd(i) - 1
           d == [kind |-> "typedef", name |-> v, impl |-> TypeAt(i)]
<1>1. pos \in Nat \ {0} /\ i \in Nat \ {0} /\ pos + 1 \in Nat \ {0} /\ pos <= i
  BY DEF Heard, HeardAs
<1>2. /\ Is(pos, "TYPE") /\ Is(pos + 1, "ID") /\ IsSpec(i)
      /\ decls' = Append(decls, d) /\ UNCHANGED file
      /\ v \in DOMAIN Mapped(i) /\ Mapped(i)[v] = Undef(v, NilType)
  BY <1>1 DEF ResolveType, AtTypeDef, TypeDef, AtTop, Seen, Declare, Unresolved
<1>3. pos + 1 \in DOMAIN text /\ v = text[pos + 1].v
  BY <1>1, <1>2, TokenIn DEF Is
<1>4. /\ e \in DOMAIN text /\ Base(i) = text[e] /\ i <= e
  BY <1>1, <1>2, SpecHeard
<1>5. \A j, l \in DOMAIN text : text[j].v = v /\ text[l].v = v => j = l
  <2>1. \E k \in DOMAIN decls' : decls'[k].kind = "typedef" /\ decls'[k].name = v
    <3>1. Str(decls)
      BY DEF Heard, HeardAs, ProgramFormed
    <3> DEFINE ds == Append(decls, d)
    <3>2. d.kind = "typedef" /\ d.name = v
      OBVIOUS
    <3> HIDE DEF d
    <3>3. Str(ds) /\ Len(ds) = Len(decls) + 1 /\ ds[Len(decls) + 1] = d
      BY <3>1, StrAppend
    <3>4. Len(decls) \in Nat /\ DOMAIN ds = 1..Len(ds)
      BY <3>1, <3>3, StrShape
    <3> HIDE DEF ds
    <3>5. Len(decls) + 1 \in DOMAIN ds
      BY <3>3, <3>4
    <3> QED
      BY <1>2, <3>2, <3>3, <3>5 DEF ds
  <2>2. text' = text
    BY <1>2 DEF text
  <2> HIDE DEF v
  <2>3. \A k \in DOMAIN decls' : decls'[k].kind = "typedef" =>
          \A j, l \in DOMAIN text' : text'[j].v = decls'[k].name /\ text'[l].v = decls'[k].name => j = l
    BY DEF Plain
  <2> QED
    BY <2>1, <2>2, <2>3
<1> HIDE DEF e, d
<1>6. CASE v \in DOMAIN tpMap
  <2>1. Mapped(i)[v] = tpMap[v]
    BY <1>6, MappedKeeps DEF Kept
  <2>2. v \notin Builtins
    BY <1>2, <1>3 DEF Plain
  <2>3. Undef(v, NilType) # StructOf(v)
    BY ElemFacts
  <2> HIDE DEF v
  <2>4. Stands(pos, v)
    BY <1>2, <1>6, <2>1, <2>2, <2>3 DEF Heard, HeardAs, Named
  <2>5. PICK j \in 1..pos - 1 : text[j].v = v
    BY <2>4 DEF Stands
  <2>6. j \in DOMAIN text /\ j # pos + 1
    BY <1>1, <2>5 DEF Heard, HeardAs, GoodText, IsSequence
  <2> QED
    BY <1>3, <1>5, <2>5, <2>6
<1>7. CASE v \notin DOMAIN tpMap
  <2>1. v = Base(i).v
    <3> HIDE DEF v
    <3> QED
      BY <1>2, <1>7 DEF Mapped, Put
  <2>2. e # pos + 1
    BY <1>1, <1>4
  <2> HIDE DEF v
  <2> QED
    BY <1>3, <1>4, <1>5, <2>1, <2>2
<1> QED
  BY <1>6, <1>7

(* mspace comes first: nothing but comments has been read.                 *)
LEMMA MspaceHeard == ASSUME Plain, GoodText, Heard, Mspace PROVE HeardNext
<1> DEFINE v == Tok(pos + 1).v
           i == pos + 2
           q == Past(i)
           ws == Words(<<"MSPACE">>) \o Name(v)
<1>1. pos \in Nat \ {0} /\ i \in Nat \ {0} /\ pos + 1 \in Nat \ {0} /\ pos - 1 \in Nat
  BY DEF Heard, HeardAs
<1>2. /\ at = "top" /\ Is(pos, "MSPACE") /\ Is(pos + 1, "ID") /\ Separated(i)
      /\ mspace' = v /\ pos' = q
      /\ UNCHANGED <<at, open, tpMap, resolved, decls>>
  BY <1>1 DEF Mspace, AtTop, Seen
<1>3. Reads(pos, pos + 1, ws, 0) /\ Calm(pos + 1, pos + 1) /\ v # NoName
  <2>1. "MSPACE" \in Fixed /\ Tok(pos + 1).t \in {"ID", "EXPR"}
    BY <1>2 DEF Fixed, Is
  <2> QED
    BY <1>1, <1>2, <2>1, ReadsTwo
<1> HIDE DEF v
<1>4. Reads(pos, q - 1, ws, 0) /\ Calm(pos + 1, q - 1) /\ q \in Nat \ {0} /\ ApartAt(q)
  <2>1. pos + 1 = i - 1
    BY <1>1
  <2>2. Reads(pos, i - 1, ws, 0) /\ Calm(pos + 1, i - 1)
    BY <1>3, <2>1
  <2> HIDE DEF ws
  <2> QED
    BY <1>1, <1>2, <2>2, ReadsPast DEF ApartAt
<1>5. q \in Nat /\ pos <= q
  <2>1. q \in {i, i + 1}
    BY DEF Past
  <2> HIDE DEF q
  <2> QED
    BY <1>1, <2>1
<1>6. Read(pos - 1) = <<>>
  <2> DEFINE s == [k \in 1..pos - 1 |-> Part(k)]
  <2>1. Parts(s)
    BY <1>1, ReadParts
  <2>2. pos \in DOMAIN text
    BY <1>1, <1>2, TokenIn DEF Is
  <2>3. \A k \in 1..pos - 1 : Is(k, "SCOMMENT")
    BY <1>2, <2>2 DEF Plain
  <2>4. \A k \in 1..pos - 1 : s[k] = <<>>
    BY <2>3 DEF Part, Punctuation, Is
  <2>5. Len(s) = pos - 1
    <3>1. s = [k \in 1..pos - 1 |-> s[k]]
      OBVIOUS
    <3> HIDE DEF s
    <3> QED
      BY <1>1, <3>1, StrMade
  <2> HIDE DEF s
  <2>6. FlattenSeq(s) = <<>>
    BY <2>1, <2>4, <2>5, FlattenNothing
  <2> QED
    BY <2>6 DEF Read, s
<1> HIDE DEF q
<1>7. /\ OpenFormed(at, open) /\ ProgramFormed(decls) /\ Told(pos, at, open, decls, mspace)
      /\ ApartInv(pos, at) /\ DescInv(pos, at, open) /\ Lonely(decls, TypesAhead(at, open), resolved)
  BY DEF Heard, HeardAs
<1>8. FlattenSeq(Texts(decls)) = <<>> /\ Ahead(at, open) = <<>> /\ AheadNotes(at, open) = 0
  <2> DEFINE a == Space(mspace)
             b == FlattenSeq(Texts(decls))
  <2>1. Str(a) /\ Str(b) /\ Str(a \o b)
    BY <1>7, ProgramStr
  <2>2. Ahead(at, open) = <<>> /\ AheadNotes(at, open) = 0
    BY <1>2, Places
  <2>3. (a \o b) \o <<>> = <<>>
    BY <1>6, <1>7, <2>2 DEF Told
  <2> HIDE DEF a, b
  <2>4. b = <<>>
    BY <2>1, <2>3, StrJoin, StrWord
  <2> QED
    BY <2>2, <2>4 DEF b
<1>9. Told(q, "top", open, decls, v)
  <2>1. Ahead("top", open) = <<>> /\ AheadNotes("top", open) = 0
    BY Places
  <2>2. Str(ws) /\ Read(q - 1) = <<>> \o ws /\ Len(Remarks(q - 1)) = Len(Remarks(pos - 1)) + 0
    BY <1>4, <1>6 DEF Reads
  <2>3. Space(v) = ws
    BY <1>3 DEF Space
  <2>4. <<>> \o ws = ws /\ ws \o <<>> = ws
    BY <2>2, StrNothing
  <2>5. Len(Remarks(pos - 1)) = Len(FlattenSeq(Notices(decls))) + 0
    BY <1>7, <1>8 DEF Told
  <2>6. Len(FlattenSeq(Notices(decls))) \in Nat
    BY <1>7, ProgramStr
  <2> HIDE DEF ws
  <2> QED
    <3>1. Read(q - 1) = (Space(v) \o FlattenSeq(Texts(decls))) \o Ahead("top", open)
      BY <1>8, <2>1, <2>2, <2>3, <2>4
    <3>2. Len(Remarks(q - 1)) = Len(FlattenSeq(Notices(decls))) + AheadNotes("top", open)
      BY <2>1, <2>2, <2>5, <2>6
    <3> QED
      BY <3>1, <3>2 DEF Told
<1>10. ApartInv(q, "top")
  <2>1. at = "top" /\ Low(pos + 1, q - 1)
    BY <1>2, <1>4, CalmLow
  <2> QED
    BY <1>1, <1>4, <1>5, <1>7, <2>1, ApartOn
<1>11. Named(q, tpMap, decls)
  BY <1>5, NamedStays
<1>12. DescInv(q, "top", open)
  BY DEF DescInv
<1>13. q - 1 <= Len(text)
  BY <1>4 DEF Reads
<1>14. HeardAs(q, at, open, decls, v, tpMap, resolved)
  BY <1>2, <1>4, <1>7, <1>9, <1>10, <1>11, <1>12, <1>13 DEF HeardAs
<1> QED
  BY <1>2, <1>14 DEF HeardNext, q

-----------------------------------------------------------------------------
(* The groups.                                                             *)
LEMMA EmptyJoined == Joined(<<>>, Words(<<"COMMA">>)) = <<>>
<1>1. [k \in {} |-> IF k = 1 THEN <<>>[k] ELSE Words(<<"COMMA">>) \o <<>>[k]] = <<>>
  OBVIOUS
<1>2. DOMAIN <<>> = {}
  OBVIOUS
<1> QED
  BY <1>1, <1>2, FlattenEmpty DEF Joined

LEMMA EnterGroupHeard == ASSUME GoodText, Heard, EnterGroup PROVE HeardNext
<1> DEFINE v == Tok(pos + 1).v
           d == [kind |-> "group", name |-> v, isMsgId |-> Is(pos, "DEFMID"), items |-> <<>>, notes |-> <<>>]
           q == pos + 3
           x == IF d.isMsgId THEN "DEFMID" ELSE "DEFID"
           ws == (Words(<<x>>) \o Name(v)) \o Words(<<"LBRACE">>)
<1>1. pos \in Nat \ {0} /\ pos + 1 \in Nat \ {0} /\ pos + 2 \in Nat \ {0} /\ q \in Nat \ {0} /\ q \in Nat /\ pos <= q
      /\ q - 1 = pos + 2 /\ pos < q
  BY DEF Heard, HeardAs
<1>2. /\ at = "top" /\ Is(pos + 1, "ID") /\ Is(pos + 2, "LBRACE") /\ (Is(pos, "DEFID") \/ Is(pos, "DEFMID"))
      /\ at' = "notes" /\ open' = d /\ pos' = q /\ UNCHANGED <<decls, mspace, tpMap, resolved>>
  BY <1>1 DEF EnterGroup, AtTop, Seen, Turn
<1>3. Is(pos, x) /\ x \in Fixed
  BY <1>2 DEF Is, Fixed
<1>4. Reads(pos, pos + 1, Words(<<x>>) \o Name(v), 0) /\ Calm(pos + 1, pos + 1)
  <2>1. Tok(pos + 1).t \in {"ID", "EXPR"}
    BY <1>2 DEF Is
  <2> HIDE DEF x
  <2> QED
    BY <1>1, <1>3, <2>1, ReadsTwo
<1>5. Reads(pos + 2, pos + 2, Words(<<"LBRACE">>), 0) /\ Calm(pos + 2, pos + 2)
  <2>1. "LBRACE" \in Fixed /\ Tok(pos + 2).t \notin Loud
    BY <1>2 DEF Fixed, Loud, Keywords, Is
  <2> QED
    BY <1>1, <1>2, <2>1, ReadsWord, CalmOne
<1>k. d.items = <<>> /\ d.notes = <<>> /\ d.name = v /\ d.kind = "group" /\ d = [y \in GroupNames |-> d[y]]
      /\ x = IF d.isMsgId THEN "DEFMID" ELSE "DEFID"
  BY DEF GroupNames
<1> HIDE DEF v, x, d
<1>6. Reads(pos, q - 1, ws, 0) /\ Calm(pos + 1, q - 1)
  <2>1. pos + 2 = (pos + 1) + 1 /\ 0 = 0 + 0
    BY <1>1
  <2>2. Reads(pos, pos + 2, ws, 0) /\ Calm(pos + 1, pos + 2)
    BY <1>4, <1>5, <2>1, ReadsThen
  <2> QED
    BY <1>1, <2>2
<1>7. OpenFormed("notes", d) /\ GroupFormed(d)
  BY <1>k, StrWord DEF OpenFormed, GroupFormed, Record, GroupPlaces, MsgPlaces
<1>8. Ahead("notes", d) = ws /\ AheadNotes("notes", d) = 0 /\ TypesAhead("notes", d) = {}
  <2>1. "notes" \in GroupPlaces
    BY DEF GroupPlaces
  <2>2. ItemTexts(d.items) = <<>>
    BY <1>k DEF ItemTexts
  <2>3. GroupSoFar(d) = ws \o <<>>
    BY <1>k, <2>2, EmptyJoined DEF GroupSoFar, GroupHead
  <2>4. Str(ws)
    BY <1>6 DEF Reads
  <2>5. ws \o <<>> = ws
    BY <2>4, StrNothing
  <2>6. Comments(d) = <<>>
    BY <1>7, <1>k, SoFarStr
  <2> QED
    BY <2>1, <2>3, <2>5, <2>6, Places, StrWord, StrShape
<1>9. Ahead("notes", d) = Ahead(at, open) \o ws /\ AheadNotes("notes", d) = AheadNotes(at, open) + 0
  <2>1. Ahead(at, open) = <<>> /\ AheadNotes(at, open) = 0
    BY <1>2, Places
  <2>2. Str(ws)
    BY <1>6 DEF Reads
  <2>3. <<>> \o ws = ws /\ 0 + 0 = 0
    BY <2>2, StrNothing
  <2> QED
    BY <1>8, <2>1, <2>3
<1>10. Named(q, tpMap, decls)
  BY <1>1, NamedStays
<1>11. DescInv(q, "notes", d) /\ \A t \in TypesAhead("notes", d) : Lone(t)
  BY <1>8 DEF DescInv
<1> HIDE DEF q, ws
<1>l. Low(pos + 1, q - 1)
  BY <1>6, CalmLow
<1>12. HeardAs(q, "notes", d, decls, mspace, tpMap, resolved)
  BY <1>1, <1>2, <1>6, <1>7, <1>9, <1>10, <1>11, <1>l, TurnStep
<1> QED
  BY <1>2, <1>12 DEF HeardNext

(* An item of a group: its words.                                          *)
LEMMA ReadsItem ==
  ASSUME Plain, GoodText, NEW i \in Nat \ {0}, ItemLen(i) > 0
  PROVE  /\ Reads(i, (i + ItemLen(i)) - 1, ItemText(ItemAt(i)), 0) /\ Calm(i, (i + ItemLen(i)) - 1)
         /\ ItemLen(i) \in {1, 3} /\ i + ItemLen(i) \in Nat \ {0} /\ i < i + ItemLen(i)
<1> DEFINE v == Tok(i).v
<1>1. Is(i, "ID") /\ ItemAt(i).name = v
  BY DEF ItemLen, ItemAt
<1>2. Reads(i, i, Name(v), 0) /\ Calm(i, i)
  <2>1. Tok(i).t \in {"ID", "EXPR"}
    BY <1>1 DEF Is
  <2> QED
    BY <2>1, ReadsName
<1> HIDE DEF v
<1>3. CASE ~Is(i + 1, "ASSIGN")
  <2>1. ItemLen(i) = 1 /\ ~ItemAt(i).base
    <3>1. ItemLen(i) = 1
      BY <1>1, <1>3 DEF ItemLen
    <3>2. ItemAt(i).base = (ItemLen(i) = 3)
      BY DEF ItemAt
    <3>3. ~(ItemLen(i) = 3)
      BY <3>1
    <3> QED
      BY <3>1, <3>2, <3>3
  <2>2. Str(Name(v))
    BY NameOne
  <2>3. Name(v) \o <<>> = Name(v)
    BY <2>2, StrNothing
  <2>4. ItemText(ItemAt(i)) = Name(v)
    BY <1>1, <2>1, <2>3 DEF ItemText
  <2>5. (i + 1) - 1 = i
    OBVIOUS
  <2> QED
    BY <1>2, <2>1, <2>4, <2>5
<1>4. CASE Is(i + 1, "ASSIGN") /\ Is(i + 2, "INT_CONST")
  <2> DEFINE m == Tok(i + 2).n
  <2>1. ItemLen(i) = 3 /\ ItemAt(i).base /\ ItemAt(i).idVal = IntConstVal(m)
    BY <1>1, <1>4 DEF ItemLen, ItemAt
  <2>2. i + 1 \in Nat \ {0} /\ i + 2 \in Nat \ {0} /\ (i + 3) - 1 = i + 2 /\ i + 1 = i + 1 /\ i + 2 = (i + 1) + 1 /\ 0 = 0 + 0
    OBVIOUS
  <2>3. Reads(i + 1, i + 1, Words(<<"ASSIGN">>), 0) /\ Calm(i + 1, i + 1)
    <3>1. "ASSIGN" \in Fixed /\ Tok(i + 1).t \notin Loud
      BY <1>4 DEF Fixed, Loud, Keywords, Is
    <3> QED
      BY <1>4, <2>2, <3>1, ReadsWord, CalmOne
  <2>4. Reads(i + 2, i + 2, Number(m), 0) /\ Calm(i + 2, i + 2) /\ m \in Nat
    BY <1>4, <2>2, ReadsNumber
  <2>5. m <= IntMax
    <3>1. i + 2 \in DOMAIN text /\ Tok(i + 2) = text[i + 2]
      BY <1>4, <2>2, TokenIn DEF Is
    <3> QED
      BY <3>1 DEF Plain
  <2>6. IntConstVal(m) = m
    <3> HIDE DEF m
    <3> QED
      BY <2>4, <2>5, DeclIntMaxAssumption DEF IntConstVal, UintMax
  <2> DEFINE j == i + 1
             ws == Words(<<"ASSIGN">>) \o Number(m)
  <2> HIDE DEF m
  <2>7. Reads(j, i + 2, ws, 0) /\ Calm(j, i + 2) /\ j = i + 1
    BY <2>2, <2>3, <2>4, ReadsThen
  <2> HIDE DEF j, ws
  <2>b. Reads(i, i + 2, Name(v) \o ws, 0) /\ Calm(i, i + 2)
    BY <1>2, <2>2, <2>7, ReadsThen
  <2>8. Reads(i, i + 2, Name(v) \o (Words(<<"ASSIGN">>) \o Number(m)), 0) /\ Calm(i, i + 2)
    BY <2>b DEF ws
  <2>9. ItemText(ItemAt(i)) = Name(v) \o (Words(<<"ASSIGN">>) \o Number(m))
    BY <1>1, <2>1, <2>6 DEF ItemText
  <2> QED
    BY <2>1, <2>2, <2>8, <2>9
<1> QED
  BY <1>1, <1>3, <1>4 DEF ItemLen

(* One item more.                                                          *)
LEMMA ItemMore ==
  ASSUME NEW d, GroupFormed(d), NEW i
  PROVE  LET e == WithItem(d, i)
             w == ItemText(ItemAt(i))
         IN  /\ GroupFormed(e) /\ e.items # <<>> /\ Comments(e) = Comments(d)
             /\ GroupSoFar(e) = GroupSoFar(d) \o (IF d.items = <<>> THEN w ELSE Words(<<"COMMA">>) \o w)
<1> DEFINE x == ItemAt(i)
           js == Append(d.items, x)
           e == [d EXCEPT !.items = js]
           w == ItemText(x)
           h == GroupHead(d)
           c == Words(<<"COMMA">>)
<1>1. Str(d.items) /\ Str(d.notes)
  BY DEF GroupFormed
<1>2. /\ Str(js) /\ Len(js) = Len(d.items) + 1 /\ js[Len(d.items) + 1] = x
      /\ \A k \in 1..Len(d.items) : js[k] = d.items[k]
  <2> HIDE DEF x
  <2> DEFINE s == d.items
  <2>1. Str(s)
    BY <1>1
  <2> HIDE DEF s
  <2>2. /\ Str(Append(s, x)) /\ Len(Append(s, x)) = Len(s) + 1 /\ Append(s, x)[Len(s) + 1] = x
        /\ \A k \in 1..Len(s) : Append(s, x)[k] = s[k]
    BY <2>1, StrAppend
  <2> QED
    BY <2>2 DEF s
<1>3. /\ Len(d.items) \in Nat /\ DOMAIN d.items = 1..Len(d.items) /\ DOMAIN js = 1..Len(js)
      /\ d.items = <<>> <=> Len(d.items) = 0
      /\ js = <<>> <=> Len(js) = 0
  <2>1. Len(d.items) \in Nat /\ DOMAIN d.items = 1..Len(d.items) /\ (d.items = <<>> <=> Len(d.items) = 0)
    BY <1>1, StrShape
  <2> HIDE DEF js
  <2>2. DOMAIN js = 1..Len(js) /\ (js = <<>> <=> Len(js) = 0)
    BY <1>2, StrShape
  <2> QED
    BY <2>1, <2>2
<1>e. e = WithItem(d, i)
  BY DEF WithItem
<1> HIDE DEF js, x
<1>4. /\ e = [y \in GroupNames |-> e[y]] /\ e.items = js /\ e.name = d.name /\ e.notes = d.notes /\ e.kind = d.kind
      /\ e.isMsgId = d.isMsgId
  BY DEF GroupFormed, Record, GroupNames
<1> HIDE DEF e
<1>5. GroupFormed(e) /\ e.items # <<>>
  BY <1>1, <1>2, <1>3, <1>4 DEF GroupFormed, Record
<1>6. Comments(e) = Comments(d)
  BY <1>4, <1>5, SoFarStr
<1>7. GroupHead(e) = h /\ Str(h)
  BY <1>4, HeadStr DEF GroupHead
<1>8. Joined(ItemTexts(js), c) = IF Len(d.items) = 0 THEN w ELSE Joined(ItemTexts(d.items), c) \o (c \o w)
  <2> DEFINE s == ItemTexts(d.items)
             t == ItemTexts(js)
  <2>1. Parts(s) /\ Len(s) = Len(d.items) /\ \A k \in 1..Len(d.items) : s[k] = ItemText(d.items[k])
    BY <1>1, <1>3, ItemParts
  <2>2. Parts(t) /\ Len(t) = Len(d.items) + 1 /\ \A k \in 1..Len(d.items) + 1 : t[k] = ItemText(js[k])
    BY <1>2, <1>3, ItemParts
  <2>3. Str(c)
    BY WordsOne
  <2> HIDE DEF s, t, c
  <2>4. \A k \in 1..Len(s) : t[k] = s[k]
    BY <1>2, <1>3, <2>1, <2>2
  <2>5. Len(t) = Len(s) + 1 /\ t[Len(t)] = w
    <3>1. Len(d.items) + 1 \in 1..Len(d.items) + 1
      BY <1>3
    <3> QED
      BY <1>2, <1>3, <2>1, <2>2, <3>1
  <2>6. Joined(t, c) = IF Len(s) = 0 THEN t[Len(t)] ELSE Joined(s, c) \o (c \o t[Len(t)])
    <3>1. Parts(s) /\ Parts(t)
      BY <2>1, <2>2
    <3>2. Len(t) = Len(s) + 1
      BY <2>5
    <3> QED
      BY <2>3, <2>4, <3>1, <3>2, JoinedLonger
  <2> QED
    BY <2>1, <2>5, <2>6 DEF s, t
<1>9. Str(w) /\ Str(c) /\ Str(c \o w)
  BY ItemTextStr, WordsOne, StrJoin
<1>10. Str(Joined(ItemTexts(d.items), c))
  BY <1>1, <1>9, ItemParts, JoinedStr
<1> HIDE DEF w, h, c
<1>11. CASE d.items = <<>>
  <2>1. Len(d.items) = 0
    BY <1>3, <1>11
  <2>2. Joined(ItemTexts(d.items), c) = <<>>
    BY <1>11, EmptyJoined DEF ItemTexts, c
  <2>3. GroupSoFar(d) = h
    BY <1>7, <2>2, StrNothing DEF GroupSoFar, h, c
  <2>4. GroupSoFar(e) = h \o w
    BY <1>4, <1>7, <1>8, <2>1 DEF GroupSoFar, c
  <2> QED
    BY <1>5, <1>6, <1>11, <1>e, <2>3, <2>4 DEF w, x
<1>12. CASE d.items # <<>>
  <2>1. Len(d.items) # 0
    BY <1>3, <1>12
  <2> DEFINE a == Joined(ItemTexts(d.items), c)
             b == c \o w
  <2>2. GroupSoFar(d) = h \o a
    BY DEF GroupSoFar, h, c
  <2>3. GroupSoFar(e) = h \o (a \o b)
    BY <1>4, <1>7, <1>8, <2>1 DEF GroupSoFar, c
  <2>4. Str(h) /\ Str(a) /\ Str(b)
    BY <1>7, <1>9, <1>10
  <2> HIDE DEF a, b
  <2>5. (h \o a) \o b = h \o (a \o b)
    BY <2>4, StrAssoc
  <2>6. GroupSoFar(e) = GroupSoFar(d) \o b
    BY <2>2, <2>3, <2>5
  <2> QED
    BY <1>5, <1>6, <1>12, <1>e, <2>6 DEF b, c, w, x
<1> QED
  BY <1>11, <1>12

(* A comment more, or a word that is not read, or nothing.                 *)
LEMMA NotedGroup ==
  ASSUME NEW d, GroupFormed(d), NEW n
  PROVE  LET e == Noted(d, n)
         IN  /\ GroupFormed(e) /\ e.items = d.items /\ GroupSoFar(e) = GroupSoFar(d)
             /\ Len(Comments(e)) = Len(Comments(d)) + 1 /\ Len(Comments(d)) \in Nat
<1> DEFINE s == d.notes
           ns == Append(s, n)
           e == [d EXCEPT !.notes = ns]
<1>e. e = Noted(d, n)
  BY DEF Noted
<1>1. Str(s) /\ Str(d.items)
  BY DEF GroupFormed
<1>2. /\ e = [y \in GroupNames |-> e[y]] /\ e.items = d.items /\ e.name = d.name /\ e.notes = ns /\ e.kind = d.kind
      /\ e.isMsgId = d.isMsgId
  BY DEF GroupFormed, Record, GroupNames
<1> HIDE DEF e, s
<1>3. Str(ns) /\ Len(ns) = Len(s) + 1 /\ Len(s) \in Nat
  BY <1>1, StrAppend, StrShape
<1> HIDE DEF ns
<1>4. GroupFormed(e)
  BY <1>1, <1>2, <1>3 DEF GroupFormed, Record
<1>5. GroupSoFar(e) = GroupSoFar(d)
  BY <1>2 DEF GroupSoFar, GroupHead
<1>6. Comments(e) = ns /\ Comments(d) = s
  BY <1>2, <1>4, SoFarStr DEF s
<1> QED
  BY <1>2, <1>3, <1>4, <1>5, <1>6, <1>e

(* The group, one turn on.                                                 *)
LEMMA GroupStep ==
  ASSUME Heard, at \in GroupPlaces, NEW q, NEW ws, NEW c, Reads(pos, q - 1, ws, c), q \in Nat \ {0}, pos < q,
         Calm(pos, q - 1),
         NEW w \in GroupPlaces, NEW d, GroupFormed(d), w = "notes" <=> d.items = <<>>,
         GroupSoFar(d) = GroupSoFar(open) \o ws, Len(Comments(d)) = Len(Comments(open)) + c
  PROVE  HeardAs(q, w, d, decls, mspace, tpMap, resolved)
<1>1. pos \in Nat \ {0} /\ pos <= q /\ q \in Nat
  BY DEF Heard, HeardAs
<1>2. w # "top" /\ w \notin MsgPlaces /\ at # "top"
  BY Places
<1>3. OpenFormed(w, d)
  BY <1>2 DEF OpenFormed, MsgPlaces
<1>4. Ahead(w, d) = Ahead(at, open) \o ws /\ AheadNotes(w, d) = AheadNotes(at, open) + c
  BY <1>2, Places
<1>5. DescInv(q, w, d) /\ \A t \in TypesAhead(w, d) : Lone(t)
  BY <1>2, Places DEF DescInv, MsgPlaces
<1>6. Low(pos + 1, q - 1) /\ Tok(pos).t \notin Keywords
  <2>1. \A j \in pos + 1..q - 1 : j \in pos..q - 1
    BY <1>1
  <2>2. pos \in pos..q - 1
    BY <1>1
  <2> QED
    BY <2>1, <2>2 DEF Calm, Low, Loud
<1>7. Named(q, tpMap, decls)
  BY <1>1, NamedStays
<1> QED
  BY <1>1, <1>2, <1>3, <1>4, <1>5, <1>6, <1>7, TurnStep

LEMMA AtGroup == ASSUME Heard, at \in GroupPlaces
                 PROVE  pos \in Nat \ {0} /\ GroupFormed(open) /\ (at = "notes" <=> open.items = <<>>)
  BY DEF Heard, HeardAs, OpenFormed

LEMMA FirstItemHeard == ASSUME Plain, GoodText, Heard, FirstItem PROVE HeardNext
<1> DEFINE q == pos + ItemLen(pos)
           d == WithItem(open, pos)
           w == ItemText(ItemAt(pos))
<1>1. /\ at = "notes" /\ ItemLen(pos) > 0
      /\ at' = "items" /\ open' = d /\ pos' = q /\ UNCHANGED <<decls, mspace, tpMap, resolved>>
  BY DEF FirstItem, Turn
<1>2. at \in GroupPlaces /\ "items" \in GroupPlaces /\ "items" # "notes"
  BY <1>1 DEF GroupPlaces
<1>3. pos \in Nat \ {0} /\ GroupFormed(open) /\ open.items = <<>>
  BY <1>1, <1>2, AtGroup
<1>4. Reads(pos, q - 1, w, 0) /\ Calm(pos, q - 1) /\ q \in Nat \ {0} /\ pos < q
  BY <1>1, <1>3, ReadsItem
<1>5. GroupFormed(d) /\ d.items # <<>> /\ Comments(d) = Comments(open) /\ GroupSoFar(d) = GroupSoFar(open) \o w
  BY <1>3, ItemMore
<1>6. Len(Comments(d)) = Len(Comments(open)) + 0
  BY <1>3, <1>5, SoFarStr, StrShape DEF GroupFormed
<1> HIDE DEF q, d, w
<1>7. HeardAs(q, "items", d, decls, mspace, tpMap, resolved)
  BY <1>2, <1>4, <1>5, <1>6, GroupStep
<1> QED
  BY <1>1, <1>7 DEF HeardNext

LEMMA NextItemHeard == ASSUME Plain, GoodText, Heard, NextItem PROVE HeardNext
<1> DEFINE i == pos + 1
           q == i + ItemLen(i)
           d == WithItem(open, i)
           w == ItemText(ItemAt(i))
           c == Words(<<"COMMA">>)
<1>1. pos \in Nat \ {0}
  BY DEF Heard, HeardAs
<1>2. /\ at = "items" /\ Is(pos, "COMMA") /\ ItemLen(i) > 0
      /\ at' = "items" /\ open' = d /\ pos' = q /\ UNCHANGED <<decls, mspace, tpMap, resolved>>
  BY <1>1 DEF NextItem, Turn, Seen
<1>3. at \in GroupPlaces /\ "items" \in GroupPlaces /\ "items" # "notes"
  BY <1>2 DEF GroupPlaces
<1>4. GroupFormed(open) /\ open.items # <<>> /\ i \in Nat \ {0} /\ i = pos + 1 /\ 0 = 0 + 0
  BY <1>1, <1>2, <1>3, AtGroup
<1>5. Reads(pos, pos, c, 0) /\ Calm(pos, pos)
  <2>1. ~Is(i, "RBRACE")
    BY <1>2 DEF ItemLen, Is
  <2> QED
    BY <1>1, <1>2, <2>1, ReadsComma
<1>6. Reads(i, q - 1, w, 0) /\ Calm(i, q - 1) /\ q \in Nat \ {0} /\ i < q
  BY <1>2, <1>4, ReadsItem
<1>7. GroupFormed(d) /\ d.items # <<>> /\ Comments(d) = Comments(open) /\ GroupSoFar(d) = GroupSoFar(open) \o (c \o w)
  BY <1>4, ItemMore
<1>8. Len(Comments(d)) = Len(Comments(open)) + 0
  BY <1>4, <1>7, SoFarStr, StrShape DEF GroupFormed
<1>9. pos < q
  BY <1>1, <1>6
<1> HIDE DEF q, d, w, c, i
<1>10. Reads(pos, q - 1, c \o w, 0) /\ Calm(pos, q - 1)
  BY <1>4, <1>5, <1>6, ReadsThen
<1>11. HeardAs(q, "items", d, decls, mspace, tpMap, resolved)
  BY <1>3, <1>6, <1>7, <1>8, <1>9, <1>10, GroupStep
<1> QED
  BY <1>2, <1>11 DEF HeardNext

LEMMA NotedItemHeard == ASSUME Plain, GoodText, Heard, NotedItem PROVE HeardNext
<1> DEFINE i == pos + 2
           b == Noted(open, Tok(pos + 1).v)
           q == i + ItemLen(i)
           d == WithItem(b, i)
           w == ItemText(ItemAt(i))
           c == Words(<<"COMMA">>)
<1>1. pos \in Nat \ {0} /\ pos + 1 \in Nat \ {0}
  BY DEF Heard, HeardAs
<1>2. /\ at = "items" /\ Is(pos, "COMMA") /\ Is(pos + 1, "SCOMMENT") /\ ItemLen(i) > 0
      /\ at' = "items" /\ open' = d /\ pos' = q /\ UNCHANGED <<decls, mspace, tpMap, resolved>>
  BY <1>1 DEF NotedItem, Turn, Seen
<1>3. at \in GroupPlaces /\ "items" \in GroupPlaces /\ "items" # "notes"
  BY <1>2 DEF GroupPlaces
<1>4. GroupFormed(open) /\ open.items # <<>> /\ i \in Nat \ {0} /\ i = (pos + 1) + 1 /\ 0 = 0 + 0 /\ 1 = 0 + 1 /\ 1 = 1 + 0
      /\ pos + 1 = pos + 1
  BY <1>1, <1>2, <1>3, AtGroup
<1>5. Reads(pos, pos, c, 0) /\ Calm(pos, pos)
  <2>1. ~Is(pos + 1, "RBRACE")
    BY <1>2 DEF Is
  <2> QED
    BY <1>1, <1>2, <2>1, ReadsComma
<1>6. Reads(pos + 1, pos + 1, <<>>, 1) /\ Calm(pos + 1, pos + 1)
  <2>1. Reads(pos + 1, pos + 1, <<>>, IF "SCOMMENT" = "SEMI" THEN 0 ELSE 1) /\ Calm(pos + 1, pos + 1)
    BY <1>1, <1>2, ReadsSkipped
  <2> QED
    BY <2>1
<1>7. Reads(i, q - 1, w, 0) /\ Calm(i, q - 1) /\ q \in Nat \ {0} /\ i < q
  BY <1>2, <1>4, ReadsItem
<1>8. GroupFormed(b) /\ b.items = open.items /\ GroupSoFar(b) = GroupSoFar(open) /\ Len(Comments(b)) = Len(Comments(open)) + 1
  BY <1>4, NotedGroup
<1> HIDE DEF b
<1>9. GroupFormed(d) /\ d.items # <<>> /\ Comments(d) = Comments(b) /\ GroupSoFar(d) = GroupSoFar(b) \o (c \o w)
  BY <1>4, <1>8, ItemMore
<1>10. pos < q
  BY <1>1, <1>4, <1>7
<1> HIDE DEF q, d, w, c
<1>11. Reads(pos, q - 1, c \o w, 1) /\ Calm(pos, q - 1)
  <2>1. Reads(pos, pos + 1, c \o <<>>, 1) /\ Calm(pos, pos + 1)
    <3> DEFINE m == pos + 1
    <3>1. m = pos + 1 /\ Reads(m, m, <<>>, 1) /\ Calm(m, m) /\ 1 = 0 + 1
      BY <1>6
    <3> HIDE DEF m
    <3>2. Reads(pos, m, c \o <<>>, 1) /\ Calm(pos, m)
      BY <1>5, <3>1, ReadsThen
    <3> QED
      BY <3>1, <3>2
  <2>2. c \o <<>> = c
    BY WordsOne, StrNothing DEF c
  <2>3. Reads(pos, pos + 1, c, 1)
    BY <2>1, <2>2
  <2> HIDE DEF i
  <2> QED
    BY <1>4, <1>7, <2>1, <2>3, ReadsThen
<1>12. GroupSoFar(d) = GroupSoFar(open) \o (c \o w) /\ Len(Comments(d)) = Len(Comments(open)) + 1
  BY <1>8, <1>9
<1>13. HeardAs(q, "items", d, decls, mspace, tpMap, resolved)
  BY <1>3, <1>7, <1>9, <1>10, <1>11, <1>12, GroupStep
<1> QED
  BY <1>2, <1>13 DEF HeardNext

LEMMA TrailingCommaHeard == ASSUME GoodText, Heard, TrailingComma PROVE HeardNext
<1> DEFINE q == pos + 1
<1>1. pos \in Nat \ {0} /\ q \in Nat \ {0} /\ pos < q /\ q - 1 = pos
  BY DEF Heard, HeardAs
<1>2. /\ at = "items" /\ Is(pos, "COMMA") /\ Is(pos + 1, "RBRACE")
      /\ at' = "items" /\ open' = open /\ pos' = q /\ UNCHANGED <<decls, mspace, tpMap, resolved>>
  BY <1>1 DEF TrailingComma, Turn, Seen
<1>3. at \in GroupPlaces /\ "items" \in GroupPlaces /\ "items" # "notes"
  BY <1>2 DEF GroupPlaces
<1>4. GroupFormed(open) /\ open.items # <<>>
  BY <1>2, <1>3, AtGroup
<1>5. Reads(pos, q - 1, <<>>, 0) /\ Calm(pos, q - 1)
  <2>1. Reads(pos, pos, <<>>, 0) /\ Calm(pos, pos)
    BY <1>1, <1>2, ReadsComma
  <2> QED
    BY <1>1, <2>1
<1>6. GroupSoFar(open) = GroupSoFar(open) \o <<>> /\ Len(Comments(open)) = Len(Comments(open)) + 0
  <2>1. Str(GroupSoFar(open)) /\ Comments(open) = open.notes /\ Str(open.notes)
    BY <1>4, SoFarStr DEF GroupFormed
  <2>2. GroupSoFar(open) \o <<>> = GroupSoFar(open) /\ Len(Comments(open)) \in Nat
    BY <2>1, StrNothing, StrShape
  <2> QED
    BY <2>2
<1> HIDE DEF q
<1>7. HeardAs(q, "items", open, decls, mspace, tpMap, resolved)
  BY <1>1, <1>3, <1>4, <1>5, <1>6, GroupStep
<1> QED
  BY <1>2, <1>7 DEF HeardNext

LEMMA NoteGroupHeard == ASSUME GoodText, Heard, Note, at \in GroupPlaces PROVE HeardNext
<1> DEFINE q == pos + 1
           d == Noted(open, Tok(pos).v)
<1>1. pos \in Nat \ {0} /\ q \in Nat \ {0} /\ pos < q /\ q - 1 = pos
  BY DEF Heard, HeardAs
<1>2. /\ Is(pos, "SCOMMENT")
      /\ at' = at /\ open' = d /\ pos' = q /\ UNCHANGED <<decls, mspace, tpMap, resolved>>
  BY <1>1 DEF Note, Turn, Seen
<1>3. GroupFormed(open) /\ (at = "notes" <=> open.items = <<>>)
  BY <1>2, AtGroup
<1>4. Reads(pos, q - 1, <<>>, 1) /\ Calm(pos, q - 1)
  <2>1. Reads(pos, pos, <<>>, IF "SCOMMENT" = "SEMI" THEN 0 ELSE 1) /\ Calm(pos, pos)
    BY <1>1, <1>2, ReadsSkipped
  <2> QED
    BY <1>1, <2>1
<1>5. GroupFormed(d) /\ d.items = open.items /\ GroupSoFar(d) = GroupSoFar(open) /\ Len(Comments(d)) = Len(Comments(open)) + 1
  BY <1>3, NotedGroup
<1> HIDE DEF q, d
<1>6. GroupSoFar(d) = GroupSoFar(open) \o <<>>
  <2>1. Str(GroupSoFar(open))
    BY <1>3, SoFarStr
  <2> QED
    BY <1>5, <2>1, StrNothing
<1>7. HeardAs(q, at, d, decls, mspace, tpMap, resolved)
  BY <1>1, <1>3, <1>4, <1>5, <1>6, GroupStep
<1> QED
  BY <1>2, <1>7 DEF HeardNext

(* A closing brace and a separator: the group or the message is a          *)
(* declaration.                                                            *)
LEMMA CloseHeard ==
  ASSUME GoodText, Heard, at # "top", at # "arrow", OpenFormed(at, open), Is(pos, "RBRACE"), Separated(pos + 1),
         \A t \in Types(open) : Lone(t), NEW map, \A q \in Nat : pos <= q => Named(q, map, Append(decls, open)), NEW e
  PROVE  HeardAs(Past(pos + 1), "top", e, Append(decls, open), mspace, map, resolved)
<1> DEFINE q == Past(pos + 1)
           ws == Words(<<"RBRACE">>)
<1>1. pos \in Nat \ {0} /\ pos + 1 \in Nat \ {0} /\ (pos + 1) - 1 = pos
  BY DEF Heard, HeardAs
<1>2. Reads(pos, q - 1, ws, 0) /\ Calm(pos + 1, q - 1) /\ q \in Nat \ {0} /\ ApartAt(q)
  <2>1. "RBRACE" \in Fixed
    BY DEF Fixed
  <2>2. Reads(pos, (pos + 1) - 1, ws, 0)
    BY <1>1, <2>1, ReadsWord
  <2>3. Calm(pos + 1, (pos + 1) - 1)
    BY <1>1 DEF Calm
  <2> HIDE DEF ws
  <2> QED
    BY <1>1, <2>2, <2>3, ReadsPast DEF ApartAt
<1>3. pos < q /\ q \in Nat /\ pos <= q
  <2>1. q \in {pos + 1, pos + 2}
    BY <1>1 DEF Past
  <2> HIDE DEF q
  <2> QED
    BY <1>1, <2>1
<1>4. Tok(pos).t \notin Keywords
  BY DEF Is, Keywords
<1>5. Formed(open) /\ DeclText(open) = Ahead(at, open) \o ws
      /\ Len(Comments(open)) = AheadNotes(at, open) + 0
  <2>1. AheadNotes(at, open) = Len(Comments(open))
    BY Places
  <2>2. CASE at \in GroupPlaces
    <3>1. GroupFormed(open)
      BY <2>2 DEF OpenFormed
    <3>2. Formed(open)
      BY <3>1 DEF Formed, GroupFormed, Kinds
    <3>3. DeclText(open) = GroupSoFar(open) \o ws /\ Ahead(at, open) = GroupSoFar(open)
      BY <2>2, <3>1, SoFarStr, Places
    <3>4. Str(Comments(open))
      BY <3>2, DeclStr
    <3>5. Len(Comments(open)) \in Nat
      BY <3>4, StrShape
    <3> QED
      BY <2>1, <3>2, <3>3, <3>5
  <2>3. CASE at \in MsgPlaces
    <3>1. MsgFormed(open)
      BY <2>3 DEF OpenFormed
    <3>2. Formed(open)
      BY <3>1 DEF Formed, MsgFormed, Kinds
    <3>3. DeclText(open) = MsgSoFar(open) \o ws /\ Ahead(at, open) = MsgSoFar(open)
      BY <2>3, <3>1, SoFarStr, Places
    <3>4. Str(Comments(open))
      BY <3>2, DeclStr
    <3>5. Len(Comments(open)) \in Nat
      BY <3>4, StrShape
    <3> QED
      BY <2>1, <3>2, <3>3, <3>5
  <2> QED
    BY <2>2, <2>3 DEF OpenFormed
<1>6. Named(q, map, Append(decls, open))
  BY <1>3
<1> HIDE DEF q, ws
<1>7. HeardAs(q, "top", e, Append(decls, open), mspace, map, resolved)
  BY <1>2, <1>3, <1>4, <1>5, <1>6, DeclStep
<1> QED
  BY <1>7 DEF q

LEMMA LeaveGroupHeard == ASSUME GoodText, Heard, LeaveGroup PROVE HeardNext
<1>1. /\ at \in GroupPlaces /\ at # "top" /\ at # "arrow" /\ Is(pos, "RBRACE") /\ Separated(pos + 1)
      /\ decls' = Append(decls, open) /\ at' = "top" /\ open' = NoDecl /\ pos' = Past(pos + 1)
      /\ UNCHANGED <<mspace, tpMap, resolved>>
  <2>1. pos \in Nat
    BY DEF Heard, HeardAs
  <2> QED
    BY <2>1 DEF LeaveGroup, Close, Seen, GroupPlaces
<1>2. OpenFormed(at, open) /\ GroupFormed(open) /\ Str(decls) /\ pos \in Nat
  BY <1>1, AtGroup DEF Heard, HeardAs, ProgramFormed
<1>3. \A t \in Types(open) : Lone(t)
  <2>1. open.kind = "group"
    BY <1>2 DEF GroupFormed
  <2> QED
    BY <2>1 DEF Types
<1>4. \A q \in Nat : pos <= q => Named(q, tpMap, Append(decls, open))
  <2> SUFFICES ASSUME NEW q \in Nat, pos <= q PROVE Named(q, tpMap, Append(decls, open))
    OBVIOUS
  <2>1. pos \in Nat \ {0} /\ Named(pos, tpMap, decls)
    BY DEF Heard, HeardAs
  <2>2. \A n : TypeDefined(decls, n) => TypeDefined(Append(decls, open), n)
    BY <1>2, DefinedLonger
  <2> QED
    BY <2>1, <2>2, NamedOn
<1>5. HeardAs(Past(pos + 1), "top", NoDecl, Append(decls, open), mspace, tpMap, resolved)
  BY <1>1, <1>2, <1>3, <1>4, CloseHeard
<1> QED
  BY <1>1, <1>5 DEF HeardNext

-----------------------------------------------------------------------------
(* The messages.                                                           *)
LEMMA EmptyMsg ==
  ASSUME NEW d, MsgFormed(d), d.fields = <<>>, d.notes = <<>>
  PROVE  MsgSoFar(d) = MsgHead(d) /\ Len(Comments(d)) = 0 /\ Types(d) = {}
<1>1. FieldTexts(d.fields) = <<>> /\ FieldNotes(d.fields) = <<>>
  BY DEF FieldTexts, FieldNotes
<1>2. MsgSoFar(d) = MsgHead(d) \o <<>>
  BY <1>1, FlattenEmpty DEF MsgSoFar
<1>3. MsgHead(d) \o <<>> = MsgHead(d)
  BY HeadStr, StrNothing
<1>4. Comments(d) = <<>> \o <<>>
  BY <1>1, FlattenEmpty, SoFarStr
<1>5. <<>> \o <<>> = <<>> /\ Len(<<>>) = 0
  BY StrWord, StrNothing
<1>6. Types(d) = {d.fields[k].type : k \in DOMAIN d.fields}
  BY DEF Types, MsgFormed
<1>7. DOMAIN d.fields = {}
  OBVIOUS
<1>8. Types(d) = {}
  BY <1>6, <1>7
<1> QED
  BY <1>2, <1>3, <1>4, <1>5, <1>8

LEMMA EnterMsgHeard == ASSUME GoodText, Heard, EnterMsg PROVE HeardNext
<1> DEFINE v == Tok(pos + 1).v
           d == [kind |-> "msg", name |-> v, fields |-> <<>>, notes |-> <<>>]
           q == pos + 3
           ws == (Words(<<"DEFMSG">>) \o Name(v)) \o Words(<<"LBRACE">>)
<1>1. pos \in Nat \ {0} /\ pos + 1 \in Nat \ {0} /\ pos + 2 \in Nat \ {0} /\ q \in Nat \ {0} /\ q \in Nat /\ pos <= q
      /\ q - 1 = pos + 2 /\ pos < q
  BY DEF Heard, HeardAs
<1>2. /\ at = "top" /\ Is(pos, "DEFMSG") /\ Is(pos + 1, "ID") /\ Is(pos + 2, "LBRACE")
      /\ at' = "fields" /\ open' = d /\ pos' = q /\ UNCHANGED <<decls, mspace, tpMap, resolved>>
  BY <1>1 DEF EnterMsg, AtTop, Seen, Turn
<1>3. Reads(pos, pos + 1, Words(<<"DEFMSG">>) \o Name(v), 0) /\ Calm(pos + 1, pos + 1)
  <2>1. Tok(pos + 1).t \in {"ID", "EXPR"} /\ "DEFMSG" \in Fixed
    BY <1>2 DEF Is, Fixed
  <2> QED
    BY <1>1, <1>2, <2>1, ReadsTwo
<1>4. Reads(pos + 2, pos + 2, Words(<<"LBRACE">>), 0) /\ Calm(pos + 2, pos + 2)
  <2>1. "LBRACE" \in Fixed /\ Tok(pos + 2).t \notin Loud
    BY <1>2 DEF Fixed, Loud, Keywords, Is
  <2> QED
    BY <1>1, <1>2, <2>1, ReadsWord, CalmOne
<1>k. d.fields = <<>> /\ d.notes = <<>> /\ d.name = v /\ d.kind = "msg" /\ d = [y \in MsgNames |-> d[y]]
  BY DEF MsgNames
<1> HIDE DEF v, d
<1>5. Reads(pos, q - 1, ws, 0) /\ Calm(pos + 1, q - 1)
  <2>1. pos + 2 = (pos + 1) + 1 /\ 0 = 0 + 0
    BY <1>1
  <2>2. Reads(pos, pos + 2, ws, 0) /\ Calm(pos + 1, pos + 2)
    BY <1>3, <1>4, <2>1, ReadsThen
  <2> QED
    BY <1>1, <2>2
<1>6. MsgFormed(d)
  <2>1. DOMAIN d.fields = {}
    BY <1>k
  <2> QED
    BY <1>k, <2>1, StrWord DEF MsgFormed, Record
<1>7. OpenFormed("fields", d)
  BY <1>6 DEF OpenFormed, GroupPlaces, MsgPlaces
<1>8. Ahead("fields", d) = ws /\ AheadNotes("fields", d) = 0 /\ TypesAhead("fields", d) = {}
  <2>1. "fields" \in MsgPlaces /\ "fields" # "arrow"
    BY DEF MsgPlaces
  <2>2. MsgSoFar(d) = MsgHead(d) /\ Len(Comments(d)) = 0 /\ Types(d) = {}
    BY <1>6, <1>k, EmptyMsg
  <2>3. MsgHead(d) = ws
    BY <1>k DEF MsgHead
  <2> QED
    BY <2>1, <2>2, <2>3, Places
<1>9. Ahead("fields", d) = Ahead(at, open) \o ws /\ AheadNotes("fields", d) = AheadNotes(at, open) + 0
  <2>1. Ahead(at, open) = <<>> /\ AheadNotes(at, open) = 0
    BY <1>2, Places
  <2>2. Str(ws)
    BY <1>5 DEF Reads
  <2>3. <<>> \o ws = ws /\ 0 + 0 = 0
    BY <2>2, StrNothing
  <2> QED
    BY <1>8, <2>1, <2>3
<1>10. Named(q, tpMap, decls)
  BY <1>1, NamedStays
<1>11. DescInv(q, "fields", d) /\ \A t \in TypesAhead("fields", d) : Lone(t)
  BY <1>8 DEF DescInv
<1> HIDE DEF q, ws
<1>l. Low(pos + 1, q - 1)
  BY <1>5, CalmLow
<1>12. HeardAs(q, "fields", d, decls, mspace, tpMap, resolved)
  BY <1>1, <1>2, <1>5, <1>7, <1>9, <1>10, <1>11, <1>l, TurnStep
<1> QED
  BY <1>2, <1>12 DEF HeardNext

(* The message, one turn on.                                               *)
LEMMA AtMsg ==
  ASSUME Heard, at \in MsgPlaces
  PROVE  /\ pos \in Nat \ {0} /\ pos - 1 <= Len(text) /\ MsgFormed(open) /\ OpenFormed(at, open)
         /\ at \in {"arrow", "descs", "tail"} => Len(open.fields) # 0 /\ LastField(open).comment = NoName
         /\ DescInv(pos, at, open)
         /\ \A t \in Types(open) : Lone(t)
<1>1. TypesAhead(at, open) = Types(open)
  BY Places
<1>2. OpenFormed(at, open) /\ Lonely(decls, TypesAhead(at, open), resolved)
  BY DEF Heard, HeardAs
<1>3. \A t \in Types(open) : Lone(t)
  BY <1>1, <1>2 DEF Lonely
<1> QED
  BY <1>2, <1>3 DEF Heard, HeardAs, OpenFormed

LEMMA MsgStep ==
  ASSUME Heard, at \in MsgPlaces, NEW q, NEW ws, NEW c, Reads(pos, q - 1, ws, c), q \in Nat \ {0}, pos <= q,
         Low(pos, q - 1),
         NEW w \in MsgPlaces, NEW d, MsgFormed(d),
         w \in {"arrow", "descs", "tail"} => Len(d.fields) # 0 /\ LastField(d).comment = NoName,
         Ahead(w, d) = Ahead(at, open) \o ws, Len(Comments(d)) = Len(Comments(open)) + c,
         DescInv(q, w, d), \A t \in Types(d) : Lone(t), NEW map, Named(q, map, decls)
  PROVE  HeardAs(q, w, d, decls, mspace, map, resolved)
<1>1. pos \in Nat \ {0} /\ q \in Nat
  BY DEF Heard, HeardAs
<1>2. w # "top" /\ w \notin GroupPlaces /\ at # "top"
  BY Places
<1>3. OpenFormed(w, d)
  BY <1>2 DEF OpenFormed
<1>4. AheadNotes(w, d) = AheadNotes(at, open) + c
  BY <1>2, Places
<1>5. \A t \in TypesAhead(w, d) : Lone(t)
  BY Places
<1>6. Low(pos + 1, q - 1) /\ (pos < q /\ at # "top" => Tok(pos).t \notin Keywords)
  <2>1. \A j \in pos + 1..q - 1 : j \in pos..q - 1
    BY <1>1
  <2>2. pos < q => pos \in pos..q - 1
    BY <1>1
  <2> QED
    BY <2>1, <2>2 DEF Low
<1> QED
  BY <1>1, <1>2, <1>3, <1>4, <1>5, <1>6, TurnStep

(* A comment of its own.                                                   *)
LEMMA FormedBuilding ==
  ASSUME NEW d, MsgFormed(d)
  PROVE  Building(d) /\ {"kind", "name"} \subseteq DOMAIN d
<1>1. DOMAIN d = MsgNames
  BY DEF MsgFormed, Record
<1>2. \A k \in DOMAIN d.fields : "type" \in DOMAIN d.fields[k]
  BY DEF MsgFormed, FieldFormed, Record, FieldNames
<1>3. IsSequence(d.fields)
  BY StrShape DEF MsgFormed
<1> QED
  BY <1>1, <1>2, <1>3 DEF Building, Shaped, MsgFormed, MsgNames

LEMMA NotedMsg ==
  ASSUME NEW d, MsgFormed(d), NEW n
  PROVE  LET e == Noted(d, n)
         IN  /\ MsgFormed(e) /\ e.fields = d.fields /\ MsgSoFar(e) = MsgSoFar(d) /\ Types(e) = Types(d)
             /\ Len(Comments(e)) = Len(Comments(d)) + 1
<1> DEFINE s == d.notes
           ns == Append(s, n)
           e == [d EXCEPT !.notes = ns]
<1>e. e = Noted(d, n)
  BY DEF Noted
<1>1. Str(s)
  BY DEF MsgFormed
<1>2. e = [y \in MsgNames |-> e[y]] /\ e.fields = d.fields /\ e.name = d.name /\ e.notes = ns /\ e.kind = d.kind
  BY DEF MsgFormed, Record, MsgNames
<1> HIDE DEF e, s
<1>3. Str(ns) /\ Len(ns) = Len(s) + 1 /\ Len(s) \in Nat
  BY <1>1, StrAppend, StrShape
<1> HIDE DEF ns
<1>4. MsgFormed(e)
  BY <1>2, <1>3 DEF MsgFormed, Record
<1>5. MsgSoFar(e) = MsgSoFar(d)
  BY <1>2 DEF MsgSoFar, MsgHead
<1>6. Len(Comments(e)) = Len(Comments(d)) + 1
  <2> DEFINE m == Len(FlattenSeq(FieldNotes(d.fields)))
  <2>1. Len(Comments(d)) = Len(s) + m /\ m \in Nat
    BY SoFarStr DEF s
  <2>2. Len(Comments(e)) = Len(ns) + m
    BY <1>2, <1>4, SoFarStr
  <2> HIDE DEF m
  <2> QED
    BY <1>3, <2>1, <2>2
<1>7. Types(e) = Types(d)
  BY <1>2 DEF Types, MsgFormed
<1> QED
  BY <1>2, <1>4, <1>5, <1>6, <1>7, <1>e

LEMMA NoteMsgHeard == ASSUME GoodText, Heard, Note, at = "fields" PROVE HeardNext
<1> DEFINE q == pos + 1
           d == Noted(open, Tok(pos).v)
<1>0. at \in MsgPlaces /\ "fields" \in MsgPlaces
  BY DEF MsgPlaces
<1>1. pos \in Nat \ {0} /\ q \in Nat \ {0} /\ pos <= q /\ q - 1 = pos /\ q \in Nat
  BY DEF Heard, HeardAs
<1>2. /\ Is(pos, "SCOMMENT")
      /\ at' = "fields" /\ open' = d /\ pos' = q /\ UNCHANGED <<decls, mspace, tpMap, resolved>>
  BY <1>1 DEF Note, Turn, Seen
<1>3. MsgFormed(open) /\ \A t \in Types(open) : Lone(t)
  BY <1>0, AtMsg
<1>4. Reads(pos, q - 1, <<>>, 1) /\ Low(pos, q - 1)
  <2>1. Reads(pos, pos, <<>>, IF "SCOMMENT" = "SEMI" THEN 0 ELSE 1) /\ Calm(pos, pos)
    BY <1>1, <1>2, ReadsSkipped
  <2> QED
    BY <1>1, <2>1, CalmLow
<1>5. MsgFormed(d) /\ MsgSoFar(d) = MsgSoFar(open) /\ Types(d) = Types(open) /\ Len(Comments(d)) = Len(Comments(open)) + 1
  BY <1>3, NotedMsg
<1>6. Named(q, tpMap, decls)
  BY <1>1, NamedStays
<1> HIDE DEF q, d
<1>7. Ahead("fields", d) = Ahead(at, open) \o <<>>
  <2>1. Str(MsgSoFar(open))
    BY <1>3, SoFarStr
  <2>2. Ahead("fields", d) = MsgSoFar(d) /\ Ahead(at, open) = MsgSoFar(open)
    BY <1>0, Places
  <2> QED
    BY <1>5, <2>1, <2>2, StrNothing
<1>8. DescInv(q, "fields", d)
  BY DEF DescInv
<1>9. \A t \in Types(d) : Lone(t)
  BY <1>3, <1>5
<1>10. HeardAs(q, "fields", d, decls, mspace, tpMap, resolved)
  BY <1>0, <1>1, <1>4, <1>5, <1>6, <1>7, <1>8, <1>9, MsgStep
<1> QED
  BY <1>2, <1>10 DEF HeardNext

LEMMA LeaveMsgHeard == ASSUME GoodText, Heard, LeaveMsg PROVE HeardNext
<1> DEFINE n == open.name
           x == StructOf(n)
           map == Put(tpMap, n, x)
<1>1. /\ at \in MsgPlaces /\ at # "top" /\ at # "arrow" /\ Is(pos, "RBRACE") /\ Separated(pos + 1)
      /\ decls' = Append(decls, open) /\ at' = "top" /\ open' = NoDecl /\ pos' = Past(pos + 1)
      /\ tpMap' = map /\ UNCHANGED <<mspace, resolved>>
  <2>1. pos \in Nat
    BY DEF Heard, HeardAs
  <2> QED
    BY <2>1 DEF LeaveMsg, Close, Seen, MsgPlaces
<1>2. OpenFormed(at, open) /\ Str(decls) /\ pos \in Nat /\ \A t \in Types(open) : Lone(t)
  BY <1>1, AtMsg DEF Heard, HeardAs, ProgramFormed
<1>3. \A q \in Nat : pos <= q => Named(q, map, Append(decls, open))
  <2> SUFFICES ASSUME NEW q \in Nat, pos <= q PROVE Named(q, map, Append(decls, open))
    OBVIOUS
  <2>1. pos \in Nat \ {0} /\ Named(pos, tpMap, decls)
    BY DEF Heard, HeardAs
  <2>2. \A y : TypeDefined(decls, y) => TypeDefined(Append(decls, open), y)
    BY <1>2, DefinedLonger
  <2>3. Named(q, tpMap, Append(decls, open))
    BY <2>1, <2>2, NamedOn
  <2>4. x = StructOf(n)
    OBVIOUS
  <2> HIDE DEF x, n
  <2> QED
    BY <2>3, <2>4, NamedPut
<1> HIDE DEF map
<1>4. HeardAs(Past(pos + 1), "top", NoDecl, Append(decls, open), mspace, map, resolved)
  BY <1>1, <1>2, <1>3, CloseHeard
<1> QED
  BY <1>1, <1>4 DEF HeardNext

(* One field more, without descriptors.                                    *)
LEMMA FieldMore ==
  ASSUME NEW d, MsgFormed(d), NEW n, NEW t
  PROVE  LET f == NewField(n, t)
             e == [d EXCEPT !.fields = Append(@, f)]
         IN  /\ MsgFormed(e) /\ Len(e.fields) # 0 /\ LastField(e) = f
             /\ MsgSoFar(e) = MsgSoFar(d) \o (Name(n) \o TypeText(t))
             /\ Len(Comments(e)) = Len(Comments(d)) /\ Types(e) = Types(d) \cup {t}
             /\ Descs(f) = <<>>
<1> DEFINE f == NewField(n, t)
           s == d.fields
           fs == Append(s, f)
           e == [d EXCEPT !.fields = fs]
           w == Name(n) \o TypeText(t)
<1>e. e = [d EXCEPT !.fields = Append(@, f)]
  OBVIOUS
<1>1. Str(s) /\ \A k \in DOMAIN s : FieldFormed(s[k])
  BY DEF MsgFormed
<1>2. /\ FieldFormed(f) /\ f.name = n /\ f.type = t /\ f.limit = NoName /\ f.max = NoName /\ f.equ = NoName
      /\ f.xor = NoName /\ f.existIf = <<>> /\ f.comment = NoName
  <2>1. f = [y \in FieldNames |-> f[y]]
    BY DEF NewField, FieldNames
  <2>2. /\ f.name = n /\ f.type = t /\ f.limit = NoName /\ f.max = NoName /\ f.equ = NoName
        /\ f.xor = NoName /\ f.existIf = <<>> /\ f.comment = NoName
    BY DEF NewField
  <2> QED
    BY <2>1, <2>2, StrWord DEF FieldFormed, Record
<1>b. Building(e) /\ Types(e) = Types(d) \cup {t}
  BY <1>e, FormedBuilding, BuildingField
<1>3. /\ e = [y \in MsgNames |-> e[y]] /\ e.fields = fs /\ e.name = d.name /\ e.notes = d.notes /\ e.kind = d.kind
  BY DEF MsgFormed, Record, MsgNames
<1> HIDE DEF f, e, s
<1>4. /\ Str(fs) /\ Len(fs) = Len(s) + 1 /\ fs[Len(s) + 1] = f
      /\ \A k \in 1..Len(s) : fs[k] = s[k]
  BY <1>1, StrAppend
<1>5. Len(s) \in Nat /\ DOMAIN s = 1..Len(s)
  BY <1>1, StrShape
<1> HIDE DEF fs
<1>6. DOMAIN fs = 1..Len(s) + 1
  BY <1>4, StrShape
<1>7. \A k \in DOMAIN fs : FieldFormed(fs[k])
  <2>1. \A k \in DOMAIN fs : k \in 1..Len(s) \/ k = Len(s) + 1
    BY <1>5, <1>6
  <2> QED
    BY <1>1, <1>2, <1>4, <1>5, <2>1
<1>8. MsgFormed(e)
  BY <1>3, <1>4, <1>7 DEF MsgFormed, Record
<1>9. Len(e.fields) # 0 /\ LastField(e) = f
  BY <1>3, <1>4, <1>5 DEF LastField
<1>10. Descs(f) = <<>>
  <2>1. LimitText(f) = <<>> /\ MaxText(f) = <<>> /\ EqualText(f) = <<>> /\ XorText(f) = <<>> /\ ExistText(f) = <<>>
    BY <1>2 DEF LimitText, MaxText, EqualText, XorText, ExistText, Optional
  <2>2. <<>> \o <<>> = <<>>
    BY StrWord, StrNothing
  <2> QED
    BY <2>1, <2>2 DEF Descs
<1>11. FieldText(f) = w /\ Str(w)
  <2>1. DescText(f) = <<>>
    BY <1>2, <1>10, DescsStr, StrWord
  <2>2. Str(Name(f.name) \o TypeText(f.type))
    BY <1>2, FieldTextStr, StrWord
  <2>3. w \o <<>> = w
    BY <1>2, <2>2, StrNothing
  <2> QED
    BY <1>2, <2>1, <2>2, <2>3 DEF FieldText
<1>12. FlattenSeq(FieldTexts(fs)) = FlattenSeq(FieldTexts(s)) \o w
  <2> DEFINE p == FieldTexts(s)
             q == FieldTexts(fs)
  <2>1. Parts(p) /\ Len(p) = Len(s) /\ \A k \in 1..Len(s) : p[k] = FieldText(s[k])
    BY <1>1, <1>5, FieldParts
  <2>2. Parts(q) /\ Len(q) = Len(s) + 1 /\ \A k \in 1..Len(s) + 1 : q[k] = FieldText(fs[k])
    BY <1>4, <1>6, <1>7, FieldParts
  <2> HIDE DEF p, q, w
  <2>3. \A k \in 1..Len(p) : q[k] = p[k]
    BY <1>4, <1>5, <2>1, <2>2
  <2>4. Len(q) = Len(p) + 1 /\ q[Len(q)] = w /\ Str(w)
    <3>1. Len(s) + 1 \in 1..Len(s) + 1
      BY <1>5
    <3> QED
      BY <1>4, <1>11, <2>1, <2>2, <3>1
  <2>5. FlattenSeq(q) = FlattenSeq(p) \o q[Len(q)]
    <3>1. Parts(p) /\ Str(q) /\ Str(q[Len(q)])
      BY <2>1, <2>2, <2>4 DEF Parts
    <3>2. Len(q) = Len(p) + 1
      BY <2>4
    <3> QED
      BY <2>3, <3>1, <3>2, FlattenLonger
  <2> QED
    BY <2>4, <2>5 DEF p, q
<1>13. FlattenSeq(FieldNotes(fs)) = FlattenSeq(FieldNotes(s)) \o <<>>
  <2> DEFINE p == FieldNotes(s)
             q == FieldNotes(fs)
             Note1(x) == IF x.comment = NoName THEN <<>> ELSE <<x.comment>>
  <2>1. Parts(p) /\ Len(p) = Len(s) /\ \A k \in 1..Len(s) : p[k] = Note1(s[k])
    BY <1>1, <1>5, NoteParts
  <2>2. Parts(q) /\ Len(q) = Len(s) + 1 /\ \A k \in 1..Len(s) + 1 : q[k] = Note1(fs[k])
    BY <1>4, <1>6, NoteParts
  <2>n. Note1(f) = <<>>
    BY <1>2
  <2> HIDE DEF p, q, Note1
  <2>3. \A k \in 1..Len(p) : q[k] = p[k]
    BY <1>4, <1>5, <2>1, <2>2
  <2>4. Len(q) = Len(p) + 1 /\ q[Len(q)] = <<>>
    <3>1. Len(s) + 1 \in 1..Len(s) + 1
      BY <1>5
    <3> QED
      BY <1>4, <2>1, <2>2, <2>n, <3>1
  <2>5. FlattenSeq(q) = FlattenSeq(p) \o q[Len(q)]
    <3>1. Parts(p) /\ Str(q) /\ Str(q[Len(q)])
      BY <2>1, <2>2, <2>4, StrWord DEF Parts
    <3>2. Len(q) = Len(p) + 1
      BY <2>4
    <3> QED
      BY <2>3, <3>1, <3>2, FlattenLonger
  <2> QED
    BY <2>4, <2>5 DEF p, q
<1>14. MsgSoFar(e) = MsgSoFar(d) \o w
  <2> DEFINE h == MsgHead(d)
             a == FlattenSeq(FieldTexts(s))
  <2>1. MsgHead(e) = h
    BY <1>3 DEF MsgHead
  <2>2. Str(h) /\ Str(a) /\ Str(w)
    BY <1>1, <1>11, HeadStr, FieldParts, FlattenStr
  <2>3. MsgSoFar(d) = h \o a /\ MsgSoFar(e) = h \o (a \o w)
    BY <1>3, <1>12, <2>1 DEF MsgSoFar, s
  <2> HIDE DEF h, a, w
  <2> QED
    BY <2>2, <2>3, StrAssoc
<1>15. Len(Comments(e)) = Len(Comments(d))
  <2>1. Str(FlattenSeq(FieldNotes(s)))
    BY <1>1, NoteParts, FlattenStr
  <2>2. FlattenSeq(FieldNotes(fs)) = FlattenSeq(FieldNotes(s))
    BY <1>13, <2>1, StrNothing
  <2>3. Comments(e) = Comments(d)
    BY <1>3, <1>8, <2>2, SoFarStr DEF s
  <2> QED
    BY <2>3
<1> QED
  BY <1>8, <1>9, <1>10, <1>14, <1>15, <1>b, <1>e DEF f

LEMMA FieldHeard == ASSUME Plain, GoodText, Heard, Field PROVE HeardNext
<1> DEFINE i == pos + 1
           v == Tok(pos).v
           ty == TypeAt(i)
           e == SpecEnd(i)
           f == NewField(v, ty)
           d == [open EXCEPT !.fields = Append(@, f)]
           ws == Name(v) \o TypeText(ty)
           map == Mapped(i)
<1>0. at \in MsgPlaces /\ {"arrow", "tail"} \subseteq MsgPlaces /\ at # "arrow"
  BY DEF Field, MsgPlaces
<1>1. pos \in Nat \ {0} /\ i \in Nat \ {0} /\ pos <= i /\ i = pos + 1 /\ 0 = 0 + 0
  BY DEF Heard, HeardAs
<1>2. /\ Is(pos, "ID") /\ IsSpec(i) /\ open' = d /\ tpMap' = map
      /\ UNCHANGED <<resolved, mspace, decls>>
      /\ IF Is(e, "DESC") THEN at' = "arrow" /\ pos' = e + 1 ELSE at' = "tail" /\ pos' = e + 0
  BY <1>1 DEF Field, Seen
<1>3. Reads(pos, pos, Name(v), 0) /\ Calm(pos, pos)
  <2>1. Tok(pos).t \in {"ID", "EXPR"}
    BY <1>2 DEF Is
  <2> QED
    BY <1>1, <2>1, ReadsName
<1>4. /\ Reads(i, e - 1, TypeText(ty), 0) /\ Calm(i, e - 1)
      /\ e \in Nat \ {0} /\ i <= e - 1 /\ Lone(ty)
      /\ \A q \in Nat : e <= q => Named(q, map, decls)
  BY <1>1, <1>2, SpecHeard
<1>5. MsgFormed(open) /\ \A t \in Types(open) : Lone(t)
  BY <1>0, AtMsg
<1>6. /\ MsgFormed(d) /\ Len(d.fields) # 0 /\ LastField(d) = f
      /\ MsgSoFar(d) = MsgSoFar(open) \o ws
      /\ Len(Comments(d)) = Len(Comments(open)) /\ Types(d) = Types(open) \cup {ty}
      /\ Descs(f) = <<>>
  BY <1>5, FieldMore
<1>7. /\ f.comment = NoName /\ f.limit = NoName /\ f.max = NoName /\ f.equ = NoName
      /\ f.xor = NoName /\ f.existIf = <<>>
  BY DEF NewField
<1> HIDE DEF v, ty, e, f, d, map
<1>8. Reads(pos, e - 1, ws, 0) /\ Calm(pos, e - 1)
  BY <1>1, <1>3, <1>4, ReadsThen
<1>9. \A t \in Types(d) : Lone(t)
  BY <1>4, <1>5, <1>6
<1>10. e \in Nat /\ e + 1 \in Nat \ {0} /\ pos <= e /\ pos <= e + 1 /\ e = (e - 1) + 1 /\ (e + 1) - 1 = e /\ e <= e
       /\ e <= e + 1 /\ e + 1 \in Nat
  BY <1>1, <1>4
<1>11. Len(Comments(d)) = Len(Comments(open)) + 0 /\ Str(MsgSoFar(open)) /\ Str(ws)
  <2>1. Str(Comments(open)) /\ Str(MsgSoFar(open))
    BY <1>5, SoFarStr
  <2>2. Len(Comments(open)) \in Nat
    BY <2>1, StrShape
  <2> QED
    BY <1>6, <1>8, <2>1, <2>2 DEF Reads
<1>12. CASE Is(e, "DESC")
  <2> DEFINE q == e + 1
             w == Words(<<"DESC">>)
  <2>1. Reads(e, e, w, 0)
    <3>1. "DESC" \in Fixed
      BY DEF Fixed
    <3> QED
      BY <1>4, <1>12, <3>1, ReadsWord
  <2> HIDE DEF w, ws
  <2>2. Reads(pos, q - 1, ws \o w, 0)
    <3>1. Reads(pos, e, ws \o w, 0)
      BY <1>1, <1>8, <1>10, <2>1, ReadsThen
    <3> QED
      BY <1>10, <3>1
  <2>3. Low(pos, q - 1)
    <3>1. \A j \in pos..q - 1 : j \in pos..e - 1 \/ j = e
      BY <1>1, <1>10
    <3>2. "DESC" \notin Keywords
      BY DEF Keywords
    <3>3. Low(pos, e - 1)
      BY <1>8, CalmLow
    <3> HIDE DEF q
    <3> QED
      BY <1>12, <3>1, <3>2, <3>3 DEF Low, Is
  <2>4. Ahead("arrow", d) = Ahead(at, open) \o (ws \o w)
    <3>1. Ahead("arrow", d) = MsgSoFar(d) \o w /\ Ahead(at, open) = MsgSoFar(open)
      BY <1>0, Places DEF w
    <3>2. Str(w)
      BY WordsOne DEF w
    <3> DEFINE m == MsgSoFar(open)
    <3>3. Str(m) /\ Str(ws)
      BY <1>11
    <3>4. MsgSoFar(d) = m \o ws
      BY <1>6
    <3>5. Ahead(at, open) = m
      BY <3>1
    <3> HIDE DEF m
    <3>6. (m \o ws) \o w = m \o (ws \o w)
      BY <3>2, <3>3, StrAssoc
    <3> QED
      BY <3>1, <3>4, <3>5, <3>6
  <2>5. Behind(e, q, "arrow", f)
    <3>1. e \in 1..q - 1 /\ e + 1..q - 1 = {}
      BY <1>4, <1>10
    <3> HIDE DEF q
    <3> QED
      BY <1>6, <1>7, <1>12, <3>1 DEF Behind
  <2>6. DescInv(q, "arrow", d)
    <3> HIDE DEF q
    <3> QED
      BY <1>6, <2>5 DEF DescInv
  <2>7. Named(q, map, decls)
    BY <1>4, <1>10
  <2>8. q \in Nat \ {0} /\ pos <= q /\ pos' = q /\ at' = "arrow"
    BY <1>2, <1>10, <1>12
  <2> HIDE DEF q
  <2>9. HeardAs(q, "arrow", d, decls, mspace, map, resolved)
    <3>1. "arrow" \in MsgPlaces /\ Len(d.fields) # 0 /\ LastField(d).comment = NoName
      BY <1>0, <1>6, <1>7
    <3> QED
      BY <1>0, <1>6, <1>9, <1>11, <2>2, <2>3, <2>4, <2>6, <2>7, <2>8, <3>1, MsgStep
  <2> QED
    BY <1>2, <2>8, <2>9 DEF HeardNext
<1>13. CASE ~Is(e, "DESC")
  <2>1. pos' = e /\ at' = "tail"
    BY <1>2, <1>10, <1>13
  <2>2. Low(pos, e - 1)
    BY <1>8, CalmLow
  <2>3. Ahead("tail", d) = Ahead(at, open) \o ws
    <3>1. "tail" \in MsgPlaces /\ "tail" # "arrow"
      BY <1>0
    <3>2. Ahead("tail", d) = MsgSoFar(d) /\ Ahead(at, open) = MsgSoFar(open)
      BY <1>0, <3>1, Places
    <3> QED
      BY <1>6, <3>2
  <2>4. DescInv(e, "tail", d)
    BY DEF DescInv
  <2>5. Named(e, map, decls)
    BY <1>4, <1>10
  <2> HIDE DEF ws
  <2>6. HeardAs(e, "tail", d, decls, mspace, map, resolved)
    <3>1. "tail" \in MsgPlaces /\ Len(d.fields) # 0 /\ LastField(d).comment = NoName
      BY <1>0, <1>6, <1>7
    <3> QED
      BY <1>0, <1>4, <1>6, <1>8, <1>9, <1>10, <1>11, <2>2, <2>3, <2>4, <2>5, <3>1, MsgStep
  <2> QED
    BY <1>2, <2>1, <2>6 DEF HeardNext
<1> QED
  BY <1>12, <1>13

(* A part of the last field.                                               *)
NewPart(d, part, v) ==
  LET e == With(d, Len(d.fields), part, v)
      f == LastField(d)
      g == Changed(f, part, v)
  IN  /\ MsgFormed(e) /\ Len(e.fields) # 0 /\ LastField(e) = g /\ Types(e) = Types(d)
      /\ FieldFormed(f) /\ FieldFormed(g)
      /\ g[part] = v /\ \A x \in FieldNames : x # part => g[x] = f[x]
      /\ \E u : Str(u) /\ MsgSoFar(d) = u \o FieldText(f) /\ MsgSoFar(e) = u \o FieldText(g)
      /\ part # "comment" => Len(Comments(e)) = Len(Comments(d)) + 0
      /\ part = "comment" /\ f.comment = NoName /\ v # NoName => Len(Comments(e)) = Len(Comments(d)) + 1

LEMMA PartHeard ==
  ASSUME NEW d, MsgFormed(d), Len(d.fields) # 0, NEW part \in FieldNames, part # "type", NEW v,
         part = "existIf" => Str(v)
  PROVE  NewPart(d, part, v)
<1> DEFINE e == With(d, Len(d.fields), part, v)
           f == LastField(d)
           g == Changed(f, part, v)
           Note1(x) == IF x.comment = NoName THEN <<>> ELSE <<x.comment>>
<1>0. WithPart(d, part, v)
  BY WithField
<1>1. /\ MsgFormed(e) /\ e.name = d.name /\ e.notes = d.notes
      /\ Len(e.fields) = Len(d.fields) /\ LastField(e) = g /\ FieldFormed(f)
      /\ g[part] = v /\ \A x \in FieldNames : x # part => g[x] = f[x]
  BY <1>0 DEF WithPart
<1>2. \E u : /\ Str(u)
             /\ FlattenSeq(FieldTexts(d.fields)) = u \o FieldText(f)
             /\ FlattenSeq(FieldTexts(e.fields)) = u \o FieldText(g)
  BY <1>0 DEF WithPart
<1>3. \E u : /\ Str(u)
             /\ FlattenSeq(FieldNotes(d.fields)) = u \o Note1(f)
             /\ FlattenSeq(FieldNotes(e.fields)) = u \o Note1(g)
  BY <1>0 DEF WithPart
<1>4. Types(e) = Types(d)
  BY FormedBuilding, BuildingOn
<1>5. g = LastField(e) /\ \E k \in DOMAIN e.fields : LastField(e) = e.fields[k]
  <2>1. Str(e.fields)
    BY <1>1 DEF MsgFormed
  <2>2. Len(e.fields) \in Nat /\ DOMAIN e.fields = 1..Len(e.fields)
    BY <2>1, StrShape
  <2>3. Len(e.fields) \in DOMAIN e.fields
    BY <1>1, <2>2
  <2> HIDE DEF e, g
  <2> QED
    BY <1>1, <2>3 DEF LastField
<1> HIDE DEF e, g, f, Note1
<1>6. FieldFormed(g)
  BY <1>1, <1>5 DEF MsgFormed
<1>7. \E u : Str(u) /\ MsgSoFar(d) = u \o FieldText(f) /\ MsgSoFar(e) = u \o FieldText(g)
  <2> DEFINE h == MsgHead(d)
             a == FieldText(f)
             b == FieldText(g)
  <2>1. PICK u : /\ Str(u)
                 /\ FlattenSeq(FieldTexts(d.fields)) = u \o a
                 /\ FlattenSeq(FieldTexts(e.fields)) = u \o b
    BY <1>2
  <2>2. MsgHead(e) = h
    BY <1>1 DEF MsgHead
  <2>3. Str(h) /\ Str(a) /\ Str(b)
    BY <1>1, <1>6, HeadStr, FieldTextStr DEF FieldFormed
  <2>4. MsgSoFar(d) = h \o (u \o a) /\ MsgSoFar(e) = h \o (u \o b)
    BY <2>1, <2>2 DEF MsgSoFar
  <2> HIDE DEF h, a, b
  <2>5. (h \o u) \o a = h \o (u \o a) /\ (h \o u) \o b = h \o (u \o b)
    <3>1. Str(h) /\ Str(u) /\ Str(a) /\ Str(b)
      BY <2>1, <2>3
    <3>2. (h \o u) \o a = h \o (u \o a)
      BY <3>1, StrAssoc
    <3>3. (h \o u) \o b = h \o (u \o b)
      BY <3>1, StrAssoc
    <3> QED
      BY <3>2, <3>3
  <2>6. Str(h \o u)
    BY <2>1, <2>3, StrJoin
  <2>7. MsgSoFar(d) = (h \o u) \o a /\ MsgSoFar(e) = (h \o u) \o b
    BY <2>4, <2>5
  <2> QED
    BY <2>6, <2>7 DEF a, b
<1>8. PICK u : /\ Str(u)
               /\ FlattenSeq(FieldNotes(d.fields)) = u \o Note1(f)
               /\ FlattenSeq(FieldNotes(e.fields)) = u \o Note1(g)
  BY <1>3
<1> DEFINE a == Len(FlattenSeq(FieldNotes(d.fields)))
           b == Len(FlattenSeq(FieldNotes(e.fields)))
           c == Len(d.notes)
<1>9. Len(Comments(d)) = c + a /\ c \in Nat /\ a \in Nat
  BY SoFarStr
<1>10. Len(Comments(e)) = c + b /\ b \in Nat
  BY <1>1, SoFarStr
<1>11. Len(u) \in Nat /\ Str(<<>>) /\ \A x : Str(<<x>>) /\ Len(<<x>>) = 1
  BY <1>8, StrShape, StrWord
<1>12. part # "comment" => Len(Comments(e)) = Len(Comments(d)) + 0
  <2> SUFFICES ASSUME part # "comment" PROVE Len(Comments(e)) = Len(Comments(d)) + 0
    OBVIOUS
  <2>1. g.comment = f.comment
    BY <1>1 DEF FieldNames
  <2>2. Note1(g) = Note1(f)
    BY <2>1 DEF Note1
  <2>3. a = b
    BY <1>8, <2>2
  <2> HIDE DEF a, b, c
  <2> QED
    BY <1>9, <1>10, <2>3
<1>13. part = "comment" /\ f.comment = NoName /\ v # NoName => Len(Comments(e)) = Len(Comments(d)) + 1
  <2> SUFFICES ASSUME part = "comment", f.comment = NoName, v # NoName PROVE Len(Comments(e)) = Len(Comments(d)) + 1
    OBVIOUS
  <2>1. Note1(f) = <<>> /\ Note1(g) = <<v>>
    BY <1>1 DEF Note1
  <2>2. a = Len(u \o <<>>) /\ b = Len(u \o <<v>>)
    BY <1>8, <2>1
  <2>3. Len(u \o <<>>) = Len(u)
    BY <1>8, StrNothing
  <2>4. Len(u \o <<v>>) = Len(u) + Len(<<v>>)
    BY <1>8, <1>11, StrJoin
  <2> HIDE DEF a, b, c
  <2>5. Len(<<v>>) = 1
    BY <1>11
  <2> QED
    BY <1>9, <1>10, <1>11, <2>2, <2>3, <2>4, <2>5
<1>14. Len(e.fields) # 0
  BY <1>1
<1> QED
  BY <1>1, <1>4, <1>6, <1>7, <1>12, <1>13, <1>14 DEF e, f, g, NewPart

(* A descriptor: the words of it, behind those of the field so far.        *)
SoFar(f) == (Name(f.name) \o TypeText(f.type)) \o (Words(<<"DESC">>) \o Descs(f))

LEMMA AheadDescs ==
  ASSUME NEW d, NEW u, Str(u), NEW f, Str(f.existIf), MsgSoFar(d) = u \o FieldText(f),
         NEW w \in {"arrow", "descs"}, w = "arrow" <=> Descs(f) = <<>>
  PROVE  Ahead(w, d) = u \o SoFar(f) /\ Str(SoFar(f))
<1> DEFINE n == Name(f.name) \o TypeText(f.type)
           c == Words(<<"DESC">>)
           s == Descs(f)
<1>1. Str(n) /\ Str(c) /\ Str(s) /\ Str(c \o s)
  BY FieldTextStr, WordsOne, DescsStr, StrJoin
<1>2. "arrow" \in MsgPlaces /\ "descs" \in MsgPlaces /\ "descs" # "arrow"
  BY DEF MsgPlaces
<1>3. FieldText(f) = n \o DescText(f) /\ DescText(f) = IF s = <<>> THEN <<>> ELSE c \o s
  BY DescsStr DEF FieldText
<1>4. SoFar(f) = n \o (c \o s)
  BY DEF SoFar
<1>a. Ahead("arrow", d) = MsgSoFar(d) \o c /\ Ahead("descs", d) = MsgSoFar(d)
  BY <1>2, Places
<1>b. w = "arrow" <=> s = <<>>
  OBVIOUS
<1> DEFINE h == SoFar(f)
           cs == c \o s
<1>g. h = SoFar(f) /\ cs = c \o s
  OBVIOUS
<1> HIDE DEF n, c, s, h, cs
<1>h. h = n \o cs /\ Str(h)
  <2>1. Str(n) /\ Str(cs)
    BY <1>1, <1>g
  <2>2. Str(n \o cs)
    BY <2>1, StrJoin
  <2> QED
    BY <1>4, <1>g, <2>2
<1>5. CASE w = "arrow"
  <2>1. MsgSoFar(d) = u \o n
    BY <1>1, <1>3, <1>5, <1>b, StrNothing
  <2>2. c \o s = c
    BY <1>1, <1>5, <1>b, StrNothing
  <2>3. (u \o n) \o c = u \o (n \o c)
    BY <1>1, StrAssoc
  <2>4. cs = c
    BY <1>g, <2>2
  <2>5. Ahead(w, d) = u \o h
    BY <1>5, <1>a, <1>h, <2>1, <2>3, <2>4
  <2> QED
    BY <1>g, <1>h, <2>5
<1>6. CASE w = "descs"
  <2>1. MsgSoFar(d) = u \o (n \o (c \o s))
    BY <1>2, <1>3, <1>6, <1>b
  <2>2. Ahead(w, d) = u \o h
    BY <1>6, <1>a, <1>g, <1>h, <2>1
  <2> QED
    BY <1>g, <1>h, <2>2
<1> QED
  BY <1>5, <1>6

LEMMA DescHeard ==
  ASSUME Plain, GoodText, Heard, InField, NEW x \in DOMAIN DescRank, Is(pos, x),
         NEW v, IF x = "EXIST" THEN v # <<>> /\ Str(v) ELSE v # NoName,
         NEW q \in Nat \ {0}, pos < q, Reads(pos, q - 1, DescWords(x, v), 0), Calm(pos + 1, q - 1),
         x = "EXIST" => ~Is(q, "EQ"), Described(PartFor[x], v, q)
  PROVE  HeardNext
<1> DEFINE part == PartFor[x]
           d == open
           e == With(d, Len(d.fields), part, v)
           f == LastField(d)
           g == Changed(f, part, v)
           ws == DescWords(x, v)
<1>0. at \in {"arrow", "descs"} /\ at \in MsgPlaces /\ "descs" \in MsgPlaces
  BY DEF InField, MsgPlaces
<1>1. /\ pos \in Nat \ {0} /\ MsgFormed(d) /\ Len(d.fields) # 0 /\ f.comment = NoName
      /\ DescInv(pos, at, d) /\ \A t \in Types(d) : Lone(t)
  BY <1>0, AtMsg
<1>2. /\ part \in {"limit", "max", "equ", "xor", "existIf"} /\ (part = "existIf" <=> x = "EXIST")
      /\ part \in FieldNames /\ part # "type" /\ part # "comment"
  BY Ranks DEF FieldNames
<1>3. open' = e /\ at' = "descs" /\ pos' = q /\ UNCHANGED <<decls, mspace, tpMap, resolved>>
  <2> HIDE DEF part
  <2> QED
    BY DEF Described, Turn, With, part
<1>4. NewPart(d, part, v)
  <2>1. part = "existIf" => Str(v)
    BY <1>2
  <2> HIDE DEF part
  <2> QED
    BY <1>1, <1>2, <2>1, PartHeard
<1>5. /\ MsgFormed(e) /\ Len(e.fields) # 0 /\ LastField(e) = g /\ Types(e) = Types(d)
      /\ FieldFormed(f) /\ FieldFormed(g)
      /\ g[part] = v /\ \A y \in FieldNames : y # part => g[y] = f[y]
  BY <1>4 DEF NewPart
<1>6. PICK u : Str(u) /\ MsgSoFar(d) = u \o FieldText(f) /\ MsgSoFar(e) = u \o FieldText(g)
  BY <1>4 DEF NewPart
<1>7. Len(Comments(e)) = Len(Comments(d)) + 0
  BY <1>2, <1>4 DEF NewPart
<1> HIDE DEF e, f, g
<1>8. PICK a : Behind(a, pos, at, f)
  BY <1>0, <1>1 DEF DescInv, f
<1>9. Str(f.existIf) /\ Str(g.existIf)
  BY <1>5 DEF FieldFormed
<1>10. Behind(a, q, "descs", g) /\ Descs(g) = Descs(f) \o ws /\ Str(ws)
  <2>1. q \in Nat
    OBVIOUS
  <2> QED
    BY <1>1, <1>5, <1>8, <1>9, <2>1, DescBehind
<1> HIDE DEF ws
<1>11. Ahead(at, d) = u \o SoFar(f) /\ Ahead("descs", e) = u \o SoFar(g) /\ Str(SoFar(f))
  <2>1. at = "arrow" <=> Descs(f) = <<>>
    BY <1>8 DEF Behind
  <2>2. "descs" = "arrow" <=> Descs(g) = <<>>
    BY <1>10 DEF Behind
  <2>3. Ahead(at, d) = u \o SoFar(f) /\ Str(SoFar(f))
    BY <1>0, <1>6, <1>9, <2>1, AheadDescs
  <2>4. Ahead("descs", e) = u \o SoFar(g)
    <3>1. "descs" \in {"arrow", "descs"}
      OBVIOUS
    <3> QED
      BY <1>6, <1>9, <2>2, <3>1, AheadDescs
  <2> QED
    BY <2>3, <2>4
<1>12. SoFar(g) = SoFar(f) \o ws
  <2> DEFINE n == Name(f.name) \o TypeText(f.type)
             c == Words(<<"DESC">>)
             s == Descs(f)
  <2>1. g.name = f.name /\ g.type = f.type
    BY <1>2, <1>5 DEF FieldNames
  <2>2. SoFar(g) = n \o (c \o (s \o ws)) /\ SoFar(f) = n \o (c \o s)
    BY <1>10, <2>1 DEF SoFar
  <2>3. Str(n) /\ Str(c) /\ Str(s) /\ Str(ws) /\ Str(c \o s)
    BY <1>9, <1>10, FieldTextStr, WordsOne, DescsStr, StrJoin
  <2> HIDE DEF n, c, s
  <2> DEFINE cs == c \o s
  <2>a. cs = c \o s /\ Str(cs)
    BY <2>3
  <2> HIDE DEF cs
  <2>b. (n \o cs) \o ws = n \o (cs \o ws)
    <3>1. Str(n) /\ Str(cs) /\ Str(ws)
      BY <2>3, <2>a
    <3> QED
      BY <3>1, StrAssoc
  <2>4. (n \o (c \o s)) \o ws = n \o ((c \o s) \o ws)
    BY <2>a, <2>b
  <2>5. (c \o s) \o ws = c \o (s \o ws)
    BY <2>3, StrAssoc
  <2> QED
    BY <2>2, <2>4, <2>5
<1>13. Ahead("descs", e) = Ahead(at, d) \o ws
  <2> DEFINE s == SoFar(f)
  <2>1. Str(u) /\ Str(s) /\ Str(ws)
    BY <1>6, <1>10, <1>11
  <2>2. Ahead("descs", e) = u \o (s \o ws) /\ Ahead(at, d) = u \o s
    BY <1>11, <1>12
  <2> HIDE DEF s
  <2>3. (u \o s) \o ws = u \o (s \o ws)
    BY <2>1, StrAssoc
  <2> QED
    BY <2>2, <2>3
<1>14. Low(pos, q - 1)
  <2>1. \A j \in pos..q - 1 : j = pos \/ j \in pos + 1..q - 1
    BY <1>1
  <2>2. Tok(pos).t \notin Keywords
    BY Ranks DEF Is, Keywords
  <2>3. Low(pos + 1, q - 1)
    BY CalmLow
  <2> QED
    BY <2>1, <2>2, <2>3 DEF Low
<1>15. LastField(e).comment = NoName
  <2>1. "comment" \in FieldNames
    BY DEF FieldNames
  <2> QED
    BY <1>1, <1>2, <1>5, <2>1
<1>16. DescInv(q, "descs", e)
  BY <1>5, <1>10 DEF DescInv
<1>17. \A t \in Types(e) : Lone(t)
  BY <1>1, <1>5
<1>18. Named(q, tpMap, decls) /\ pos <= q
  <2>1. pos <= q /\ q \in Nat
    BY <1>1
  <2> QED
    BY <2>1, NamedStays
<1>19. Reads(pos, q - 1, ws, 0)
  BY DEF ws
<1>20. HeardAs(q, "descs", e, decls, mspace, tpMap, resolved)
  <2> HIDE DEF part
  <2>1. Ahead("descs", e) = Ahead(at, open) \o ws /\ Len(Comments(e)) = Len(Comments(open)) + 0
    BY <1>7, <1>13
  <2> QED
    BY <1>0, <1>5, <1>14, <1>15, <1>16, <1>17, <1>18, <1>19, <2>1, MsgStep
<1> QED
  BY <1>3, <1>20 DEF HeardNext

LEMMA WordHeard ==
  ASSUME Plain, GoodText, Heard, InField, NEW x \in {"MAX", "EQ", "XOR"}, Is(pos, x), Is(pos + 1, "ID"),
         Described(PartFor[x], Tok(pos + 1).v, pos + 2)
  PROVE  HeardNext
<1> DEFINE v == Tok(pos + 1).v
           q == pos + 2
<1>1. pos \in Nat \ {0} /\ q \in Nat \ {0} /\ pos < q /\ q - 1 = pos + 1
  BY DEF Heard, HeardAs
<1>2. x \in DOMAIN DescRank /\ x # "EXIST" /\ x # "LIMIT" /\ x \in Fixed
  BY Ranks DEF Fixed
<1>3. Reads(pos, pos + 1, Words(<<x>>) \o Name(v), 0) /\ Calm(pos + 1, pos + 1) /\ v # NoName
  <2>1. Tok(pos + 1).t \in {"ID", "EXPR"}
    BY DEF Is
  <2> QED
    BY <1>1, <1>2, <2>1, ReadsTwo
<1> HIDE DEF v
<1>4. DescWords(x, v) = Words(<<x>>) \o Name(v)
  BY <1>2 DEF DescWords
<1>5. Reads(pos, q - 1, DescWords(x, v), 0) /\ Calm(pos + 1, q - 1)
  BY <1>1, <1>3, <1>4
<1>6. Described(PartFor[x], v, q)
  BY DEF v
<1> HIDE DEF q
<1> QED
  BY <1>1, <1>2, <1>3, <1>5, <1>6, DescHeard

LEMMA LimitHeard == ASSUME Plain, GoodText, Heard, LimitBy PROVE HeardNext
<1> DEFINE v == Tok(pos + 2).v
           q == pos + 3
           ws == Words(<<"LIMIT">>) \o Words(<<"BY">>)
<1>1. pos \in Nat \ {0} /\ q \in Nat \ {0} /\ pos < q /\ q - 1 = pos + 2 /\ pos + 1 \in Nat \ {0} /\ pos + 2 \in Nat \ {0}
      /\ pos + 2 = (pos + 1) + 1 /\ 0 = 0 + 0
  BY DEF Heard, HeardAs
<1>2. InField /\ Is(pos, "LIMIT") /\ Is(pos + 1, "BY") /\ Is(pos + 2, "ID") /\ Described("limit", v, q)
  BY <1>1 DEF LimitBy, Seen
<1>3. Reads(pos, pos, Words(<<"LIMIT">>), 0) /\ Calm(pos, pos)
  <2>1. "LIMIT" \in Fixed /\ Tok(pos).t \notin Loud
    BY <1>2 DEF Fixed, Loud, Keywords, Is
  <2> QED
    BY <1>1, <1>2, <2>1, ReadsWord, CalmOne
<1>4. Reads(pos + 1, pos + 1, Words(<<"BY">>), 0) /\ Calm(pos + 1, pos + 1)
  <2>1. "BY" \in Fixed /\ Tok(pos + 1).t \notin Loud
    BY <1>2 DEF Fixed, Loud, Keywords, Is
  <2> QED
    BY <1>1, <1>2, <2>1, ReadsWord, CalmOne
<1>5. Reads(pos, pos + 1, ws, 0)
  <2> DEFINE m == pos + 1
  <2>1. m = pos + 1 /\ Reads(m, m, Words(<<"BY">>), 0)
    BY <1>4
  <2> HIDE DEF m
  <2>2. Reads(pos, m, ws, 0)
    BY <1>1, <1>3, <2>1, ReadsThen
  <2> QED
    BY <2>1, <2>2
<1>6. Reads(pos + 2, pos + 2, Name(v), 0) /\ Calm(pos + 2, pos + 2) /\ v # NoName
  <2>1. Tok(pos + 2).t \in {"ID", "EXPR"}
    BY <1>2 DEF Is
  <2> QED
    BY <1>1, <2>1, ReadsName
<1> HIDE DEF v, ws
<1>7. Reads(pos, pos + 2, ws \o Name(v), 0) /\ Calm(pos + 1, pos + 2)
  BY <1>1, <1>4, <1>5, <1>6, ReadsThen
<1>8. DescWords("LIMIT", v) = ws \o Name(v)
  <2>1. Words(<<"LIMIT", "BY">>) = ws
    BY WordsTwo DEF ws
  <2> QED
    BY <2>1 DEF DescWords
<1>9. Reads(pos, q - 1, DescWords("LIMIT", v), 0) /\ Calm(pos + 1, q - 1)
  BY <1>1, <1>7, <1>8
<1>10. "LIMIT" \in DOMAIN DescRank /\ Described(PartFor["LIMIT"], v, q) /\ "LIMIT" # "EXIST"
  BY <1>2, Ranks
<1> HIDE DEF q
<1> QED
  BY <1>1, <1>2, <1>6, <1>9, <1>10, DescHeard

LEMMA ExistHeard == ASSUME Plain, GoodText, Heard, ExistIf PROVE HeardNext
<1> DEFINE i == pos + 2
           n == ExprLen(i)
           v == Operands(i, n)
           q == i + n
           ws == Words(<<"EXIST">>) \o Words(<<"IF">>)
<1>1. pos \in Nat \ {0} /\ pos + 1 \in Nat \ {0} /\ i \in Nat \ {0} /\ i = (pos + 1) + 1 /\ 0 = 0 + 0
  BY DEF Heard, HeardAs
<1>2. InField /\ Is(pos, "EXIST") /\ Is(pos + 1, "IF") /\ n > 0 /\ Described("existIf", v, q)
  BY <1>1 DEF ExistIf, Seen
<1>3. Reads(pos, pos, Words(<<"EXIST">>), 0)
  <2>1. "EXIST" \in Fixed
    BY DEF Fixed
  <2> QED
    BY <1>1, <1>2, <2>1, ReadsWord
<1>4. Reads(pos + 1, pos + 1, Words(<<"IF">>), 0) /\ Calm(pos + 1, pos + 1)
  <2>1. "IF" \in Fixed /\ Tok(pos + 1).t \notin Loud
    BY <1>2 DEF Fixed, Loud, Keywords, Is
  <2> QED
    BY <1>1, <1>2, <2>1, ReadsWord, CalmOne
<1>5. Reads(pos, pos + 1, ws, 0)
  <2> DEFINE m == pos + 1
  <2>1. m = pos + 1 /\ Reads(m, m, Words(<<"IF">>), 0)
    BY <1>4
  <2> HIDE DEF m
  <2>2. Reads(pos, m, ws, 0)
    BY <1>1, <1>3, <2>1, ReadsThen
  <2> QED
    BY <2>1, <2>2
<1>6. /\ Reads(i, q - 1, ExprText(v), 0) /\ Calm(i, q - 1)
      /\ q \in Nat \ {0} /\ i <= q - 1 /\ Str(v) /\ v # <<>> /\ ~Is(q, "EQ")
  BY <1>1, <1>2, ReadsExpr
<1>7. pos < q
  BY <1>1, <1>6
<1> HIDE DEF n, v, ws, q
<1>8. Reads(pos, q - 1, ws \o ExprText(v), 0) /\ Calm(pos + 1, q - 1)
  <2> DEFINE m == pos + 1
             x == ExprText(v)
             e == q - 1
  <2>1. m = pos + 1 /\ e = q - 1 /\ Reads(pos, m, ws, 0) /\ Reads(i, e, x, 0)
    BY <1>5, <1>6
  <2>2. Calm(m, m) /\ Calm(i, e) /\ i = m + 1 /\ m \in Nat \ {0} /\ 0 = 0 + 0 /\ i <= e
    BY <1>1, <1>4, <1>6
  <2> HIDE DEF m, x, e, i
  <2>3. Reads(pos, e, ws \o x, 0)
    BY <1>1, <2>1, <2>2, ReadsThen
  <2>4. Calm(m, e)
    <3>1. \A j \in m..e : j \in m..m \/ j \in i..e
      <4>1. i \in Nat
        BY <2>2
      <4> QED
        BY <2>2, <4>1
    <3> QED
      BY <2>2, <3>1 DEF Calm
  <2> QED
    BY <2>1, <2>3, <2>4 DEF x
<1>9. DescWords("EXIST", v) = ws \o ExprText(v)
  <2>1. Words(<<"EXIST", "IF">>) = ws
    BY WordsTwo DEF ws
  <2> QED
    BY <2>1 DEF DescWords
<1>10. Reads(pos, q - 1, DescWords("EXIST", v), 0)
  BY <1>8, <1>9
<1>11. "EXIST" \in DOMAIN DescRank /\ Described(PartFor["EXIST"], v, q)
  BY <1>2, Ranks
<1> QED
  BY <1>2, <1>6, <1>7, <1>8, <1>10, <1>11, DescHeard

(* The end of a field, with a comment or without.                          *)
LEMMA EndHeard == ASSUME GoodText, Heard, EndField PROVE HeardNext
<1>0. at \in MsgPlaces /\ at # "arrow" /\ at \in {"descs", "tail"} /\ "fields" \in MsgPlaces /\ "fields" # "arrow"
  BY DEF EndField, MsgPlaces
<1>1. /\ pos \in Nat \ {0} /\ pos - 1 <= Len(text) /\ MsgFormed(open) /\ Len(open.fields) # 0
      /\ LastField(open).comment = NoName /\ \A t \in Types(open) : Lone(t)
  BY <1>0, AtMsg
<1>2. CASE Is(pos, "SCOMMENT")
  <2> DEFINE v == Tok(pos).v
             q == pos + 1
             d == open
             e == With(d, Len(d.fields), "comment", v)
             f == LastField(d)
             g == Changed(f, "comment", v)
  <2>1. at' = "fields" /\ open' = e /\ pos' = q /\ UNCHANGED <<decls, mspace, tpMap, resolved>>
    BY <1>2 DEF EndField, Turn, With
  <2>2. v # NoName
    BY <1>1, <1>2, TokenIn DEF Is, IsToken, Spelled
  <2>3. Reads(pos, pos, <<>>, IF "SCOMMENT" = "SEMI" THEN 0 ELSE 1) /\ Calm(pos, pos)
    BY <1>1, <1>2, ReadsSkipped
  <2> HIDE DEF v
  <2>4. NewPart(d, "comment", v)
    <3>1. "comment" \in FieldNames /\ "comment" # "type" /\ ("comment" = "existIf" => Str(v))
      BY DEF FieldNames
    <3> QED
      BY <1>1, <3>1, PartHeard
  <2>5. /\ MsgFormed(e) /\ Types(e) = Types(d)
        /\ \A y \in FieldNames : y # "comment" => g[y] = f[y]
        /\ Len(Comments(e)) = Len(Comments(d)) + 1
    BY <1>1, <2>2, <2>4 DEF NewPart
  <2>6. PICK u : Str(u) /\ MsgSoFar(d) = u \o FieldText(f) /\ MsgSoFar(e) = u \o FieldText(g)
    BY <2>4 DEF NewPart
  <2> HIDE DEF e, f, g
  <2>7. FieldText(g) = FieldText(f)
    <3>1. /\ g.name = f.name /\ g.type = f.type /\ g.limit = f.limit /\ g.max = f.max /\ g.equ = f.equ
          /\ g.xor = f.xor /\ g.existIf = f.existIf
      BY <2>5 DEF FieldNames
    <3> QED
      BY <3>1 DEF FieldText, DescText
  <2>8. MsgSoFar(e) = MsgSoFar(d) /\ Str(MsgSoFar(d))
    BY <1>1, <2>6, <2>7, SoFarStr
  <2>9. Ahead("fields", e) = Ahead(at, open) \o <<>>
    <3>1. Ahead("fields", e) = MsgSoFar(e) /\ Ahead(at, open) = MsgSoFar(d)
      BY <1>0, Places
    <3> QED
      BY <2>8, <3>1, StrNothing
  <2>10. q \in Nat \ {0} /\ q \in Nat /\ pos <= q /\ q - 1 = pos
    BY <1>1
  <2>11. Reads(pos, q - 1, <<>>, 1) /\ Low(pos, q - 1)
    BY <2>3, <2>10, CalmLow
  <2>12. Named(q, tpMap, decls)
    BY <2>10, NamedStays
  <2>13. DescInv(q, "fields", e) /\ \A t \in Types(e) : Lone(t)
    BY <1>1, <2>5 DEF DescInv
  <2> HIDE DEF q
  <2>14. HeardAs(q, "fields", e, decls, mspace, tpMap, resolved)
    <3>1. Len(Comments(e)) = Len(Comments(open)) + 1
      BY <2>5
    <3> QED
      BY <1>0, <2>5, <2>9, <2>10, <2>11, <2>12, <2>13, <3>1, MsgStep
  <2> QED
    BY <2>1, <2>14 DEF HeardNext
<1>3. CASE ~Is(pos, "SCOMMENT")
  <2>1. at' = "fields" /\ open' = open /\ pos' = pos /\ UNCHANGED <<decls, mspace, tpMap, resolved>>
    BY <1>3 DEF EndField, Turn
  <2>2. Reads(pos, pos - 1, <<>>, 0)
    BY <1>1, ReadsNothing
  <2>3. Str(MsgSoFar(open)) /\ Str(Comments(open))
    BY <1>1, SoFarStr
  <2>4. Ahead("fields", open) = Ahead(at, open) \o <<>>
    <3>1. Ahead("fields", open) = MsgSoFar(open) /\ Ahead(at, open) = MsgSoFar(open)
      BY <1>0, Places
    <3> QED
      BY <2>3, <3>1, StrNothing
  <2>5. Len(Comments(open)) = Len(Comments(open)) + 0
    BY <2>3, StrShape
  <2>6. pos <= pos /\ Low(pos, pos - 1) /\ pos \in Nat
    BY <1>1 DEF Low
  <2>7. Named(pos, tpMap, decls)
    BY <2>6, NamedStays
  <2>8. DescInv(pos, "fields", open)
    BY DEF DescInv
  <2>9. HeardAs(pos, "fields", open, decls, mspace, tpMap, resolved)
    BY <1>0, <1>1, <2>2, <2>4, <2>5, <2>6, <2>7, <2>8, MsgStep
  <2> QED
    BY <2>1, <2>9 DEF HeardNext
<1> QED
  BY <1>2, <1>3

(* What is said of a text stays while the text does.                       *)
LEMMA TextStays ==
  ASSUME UNCHANGED file
  PROVE  /\ text' = text /\ (GoodText' <=> GoodText)
         /\ \A i : Tok(i)' = Tok(i)
         /\ \A i, x : Is(i, x)' <=> Is(i, x)
<1>1. text' = text
  BY DEF text
<1>2. \A i : Tok(i)' = Tok(i)
  BY <1>1 DEF Tok, EOF
<1>3. \A i, x : Is(i, x)' <=> Is(i, x)
  BY <1>2 DEF Is
<1>4. GoodText' <=> GoodText
  BY <1>1 DEF GoodText
<1> QED
  BY <1>1, <1>2, <1>3, <1>4

LEMMA ReadStays ==
  ASSUME UNCHANGED file, NEW p
  PROVE  Read(p)' = Read(p) /\ Remarks(p)' = Remarks(p)
<1>1. \A i : Part(i)' = Part(i)
  BY TextStays DEF Part, Punctuation, WordAt
<1>2. \A i : Remark(i)' = Remark(i)
  BY TextStays DEF Remark
<1> QED
  BY <1>1, <1>2 DEF Read, Remarks

LEMMA PlacesStay ==
  ASSUME UNCHANGED file
  PROVE  /\ \A p, w : ApartInv(p, w) => ApartInv(p, w)'
         /\ \A p, w, d : DescInv(p, w, d) => DescInv(p, w, d)'
         /\ \A p, map, ds : Named(p, map, ds) => Named(p, map, ds)'
<1>1. \A i : ApartAt(i)' <=> ApartAt(i)
  <2>1. \A i : Separated(i)' <=> Separated(i)
    BY TextStays DEF Separated
  <2>2. \A i : Unrelated(i)' <=> Unrelated(i)
    BY TextStays DEF Unrelated
  <2> QED
    BY <2>1, <2>2, TextStays DEF ApartAt
<1>2. \A p, w : ApartInv(p, w) => ApartInv(p, w)'
  BY <1>1, TextStays DEF ApartInv
<1>3. \A d, i : DescribedAt(d, i)' <=> DescribedAt(d, i)
  BY TextStays DEF DescribedAt
<1>4. \A a, p, x : Stood(a, p, x)' <=> Stood(a, p, x)
  BY <1>3, TextStays DEF Stood
<1>5. \A a, p, w, f : Behind(a, p, w, f) => Behind(a, p, w, f)'
  BY <1>4, TextStays DEF Behind
<1>6. \A p, w, d : DescInv(p, w, d) => DescInv(p, w, d)'
  BY <1>5 DEF DescInv
<1>7. \A p, n : Stands(p, n)' <=> Stands(p, n)
  BY TextStays DEF Stands
<1>8. \A p, map, ds : Named(p, map, ds) => Named(p, map, ds)'
  BY <1>7 DEF Named
<1> QED
  BY <1>2, <1>6, <1>8

LEMMA HeardStays ==
  ASSUME UNCHANGED file
  PROVE  \A p, w, d, ds, sp, map, res : HeardAs(p, w, d, ds, sp, map, res) => HeardAs(p, w, d, ds, sp, map, res)'
<1>1. \A p, w, d, ds, sp : Told(p, w, d, ds, sp) => Told(p, w, d, ds, sp)'
  BY ReadStays DEF Told
<1>2. text' = text
  BY TextStays
<1> QED
  BY <1>1, <1>2, PlacesStay DEF HeardAs

(* A text that can be told from its tree could be so before.               *)
LEMMA PlainBefore ==
  ASSUME UNCHANGED file, Str(decls), NEW d, decls' \in {decls, Append(decls, d)}, Plain'
  PROVE  Plain
<1>1. \A i : Brackets(i)' = Brackets(i)
  <2>1. Pairs' = Pairs
    BY TextStays DEF Pairs
  <2>2. \A i, words : Chain(words, i)' = Chain(words, i)
    BY TextStays DEF Chain
  <2> QED
    BY <2>1, <2>2 DEF Brackets
<1>2. InOrder' => InOrder
  <2>1. \A a, i : DescribedAt(a, i)' <=> DescribedAt(a, i)
    BY TextStays DEF DescribedAt
  <2> QED
    BY <2>1, TextStays DEF InOrder
<1>3. ASSUME NEW i \in DOMAIN decls PROVE i \in DOMAIN decls' /\ decls'[i] = decls[i]
  <2>1. CASE decls' = decls
    BY <2>1
  <2>2. CASE decls' = Append(decls, d)
    <3>1. DOMAIN decls = 1..Len(decls) /\ Len(decls) \in Nat
      BY StrShape
    <3>2. Str(decls') /\ Len(decls') = Len(decls) + 1 /\ \A k \in 1..Len(decls) : decls'[k] = decls[k]
      BY <2>2, StrAppend
    <3>3. DOMAIN decls' = 1..Len(decls')
      BY <3>2, StrShape
    <3> QED
      BY <3>1, <3>2, <3>3
  <2> QED
    BY <2>1, <2>2
<1>4. ASSUME NEW i \in DOMAIN text
      PROVE  /\ text[i].n <= IntMax /\ (Is(i, "ID") => text[i].v \notin Builtins) /\ Brackets(i) <= 2
             /\ (Is(i, "MSPACE") => \A j \in 1..i-1 : Is(j, "SCOMMENT"))
  BY <1>1, TextStays DEF Plain
<1>5. ASSUME NEW i \in DOMAIN decls, decls[i].kind = "typedef"
      PROVE  \A j, l \in DOMAIN text : text[j].v = decls[i].name /\ text[l].v = decls[i].name => j = l
  BY <1>3, <1>5, TextStays DEF Plain
<1> QED
  BY <1>2, <1>4, <1>5, TextStays DEF Plain

(* What every turn does.                                                   *)
Onwards == /\ UNCHANGED file /\ status' # "done"
           /\ \E d : decls' \in {decls, Append(decls, d)}

LEMMA TurnsOn == ASSUME Turns PROVE Done \/ Onwards
<1>1. CASE Mspace \/ ConstDecl \/ Comment \/ Extern \/ Bind
  BY <1>1 DEF Mspace, ConstDecl, Comment, Extern, Bind, AtTop, Declare, Onwards
<1>2. CASE DefineType \/ ResolveType
  BY <1>2 DEF DefineType, ResolveType, AtTypeDef, TypeDef, AtTop, Declare, Onwards
<1>3. CASE EnterGroup \/ FirstItem \/ NextItem \/ NotedItem \/ TrailingComma \/ EnterMsg \/ Note
  BY <1>3 DEF EnterGroup, FirstItem, NextItem, NotedItem, TrailingComma, EnterMsg, Note, AtTop, Turn, Onwards
<1>4. CASE LeaveGroup \/ LeaveMsg
  BY <1>4 DEF LeaveGroup, LeaveMsg, Close, Onwards
<1>5. CASE Field \/ EndField
  BY <1>5 DEF Field, EndField, Turn, Onwards
<1>6. CASE LimitBy \/ AtMost \/ EqualTo \/ XorWith \/ ExistIf
  BY <1>6 DEF LimitBy, AtMost, EqualTo, XorWith, ExistIf, InField, Described, Turn, Onwards
<1> QED
  BY <1>1, <1>2, <1>3, <1>4, <1>5, <1>6 DEF Turns

LEMMA DescsHeard ==
  ASSUME Plain, GoodText, Heard, LimitBy \/ AtMost \/ EqualTo \/ XorWith \/ ExistIf
  PROVE  HeardNext
<1>1. /\ PartFor["MAX"] = "max" /\ PartFor["EQ"] = "equ" /\ PartFor["XOR"] = "xor"
      /\ pos \in Nat \ {0}
  BY DEF PartFor, Heard, HeardAs
<1>2. CASE AtMost
  <2>1. InField /\ Is(pos, "MAX") /\ Is(pos + 1, "ID") /\ Described(PartFor["MAX"], Tok(pos + 1).v, pos + 2)
    BY <1>1, <1>2 DEF AtMost, Seen
  <2> QED
    BY <2>1, WordHeard
<1>3. CASE EqualTo
  <2>1. InField /\ Is(pos, "EQ") /\ Is(pos + 1, "ID") /\ Described(PartFor["EQ"], Tok(pos + 1).v, pos + 2)
    BY <1>1, <1>3 DEF EqualTo, Seen
  <2> QED
    BY <2>1, WordHeard
<1>4. CASE XorWith
  <2>1. InField /\ Is(pos, "XOR") /\ Is(pos + 1, "ID") /\ Described(PartFor["XOR"], Tok(pos + 1).v, pos + 2)
    BY <1>1, <1>4 DEF XorWith, Seen
  <2> QED
    BY <2>1, WordHeard
<1> QED
  BY <1>2, <1>3, <1>4, LimitHeard, ExistHeard

LEMMA NoteHeard == ASSUME GoodText, Heard, Note PROVE HeardNext
<1>1. at \in GroupPlaces \/ at = "fields"
  BY DEF Note, GroupPlaces
<1> QED
  BY <1>1, NoteGroupHeard, NoteMsgHeard

LEMMA TurnsHeard == ASSUME Plain, Plain', GoodText, Heard, Turns, ~Done PROVE HeardNext
  BY MspaceHeard, ConstHeard, CommentHeard, ExternHeard, BindHeard, DefineHeard, ResolveNot,
     EnterGroupHeard, FirstItemHeard, NextItemHeard, NotedItemHeard, TrailingCommaHeard, LeaveGroupHeard,
     EnterMsgHeard, NoteHeard, FieldHeard, LeaveMsgHeard, DescsHeard, EndHeard DEF Turns

LEMMA FaithInvNext == FaithInv /\ [Next]_vars => FaithInv'
<1> SUFFICES ASSUME FaithInv, [Next]_vars PROVE FaithInv'
  OBVIOUS
<1>0. Str(decls)
  BY DEF FaithInv
<1>1. CASE Turns /\ ~Done
  <2>1. Onwards
    BY <1>1, TurnsOn
  <2>2. GoodText /\ GoodText' /\ UNCHANGED file /\ status' # "done"
    BY <2>1, TextStays DEF Onwards, FaithInv
  <2>3. ASSUME Plain' PROVE Heard'
    <3>1. PICK d : decls' \in {decls, Append(decls, d)}
      BY <2>1 DEF Onwards
    <3>2. Plain
      BY <1>0, <2>2, <2>3, <3>1, PlainBefore
    <3>3. HeardNext
      BY <1>1, <2>2, <2>3, <3>2, TurnsHeard DEF FaithInv
    <3>4. HeardAs(pos, at, open, decls, mspace, tpMap, resolved)'
      BY <2>2, <3>3, HeardStays DEF HeardNext
    <3> QED
      BY <2>2, <3>4 DEF Heard
  <2>4. Str(decls')
    <3>1. PICK d : decls' \in {decls, Append(decls, d)}
      BY <2>1 DEF Onwards
    <3>2. Str(Append(decls, d))
      BY <1>0, StrAppend
    <3> QED
      BY <1>0, <3>1, <3>2
  <2> QED
    BY <2>2, <2>3, <2>4 DEF FaithInv
<1>2. CASE Done \/ Panic \/ UNCHANGED vars
  <2>1. UNCHANGED <<file, pos, at, open, tpMap, resolved, mspace, decls>>
    BY <1>2, PanicStops DEF Done, Stop, vars
  <2>2. status' = "done" => status = "done" \/ (at = "top" /\ Seen(<<"EOF">>))
    BY <1>2, PanicStops DEF Done, Stop, vars, AtTop
  <2>3. GoodText /\ GoodText'
    BY <2>1, TextStays DEF FaithInv
  <2>4. ASSUME Plain' PROVE Heard'
    <3>1. Plain
      BY <1>0, <2>1, <2>4, PlainBefore
    <3>2. Heard
      BY <3>1 DEF FaithInv
    <3>3. HeardAs(pos, at, open, decls, mspace, tpMap, resolved)'
      <4>1. HeardAs(pos', at', open', decls', mspace', tpMap', resolved')
        BY <2>1, <3>2 DEF Heard
      <4> QED
        BY <2>1, <4>1, HeardStays
    <3>4. Is(pos, "EOF")' <=> Is(pos, "EOF")
      BY <2>1, TextStays
    <3>5. Seen(<<"EOF">>) => Is(pos, "EOF")
      <4>1. pos \in Nat
        BY <3>2 DEF Heard, HeardAs
      <4> QED
        BY <4>1 DEF Seen
    <3>6. status' = "done" => at = "top" /\ Is(pos, "EOF")
      BY <2>2, <3>2, <3>5 DEF Heard
    <3> QED
      BY <2>1, <3>3, <3>4, <3>6 DEF Heard
  <2> QED
    BY <1>0, <2>1, <2>3, <2>4 DEF FaithInv
<1> QED
  BY <1>1, <1>2 DEF Next

LEMMA FaithInvInit == Init => FaithInv
<1> SUFFICES ASSUME Init PROVE FaithInv
  OBVIOUS
<1>1. /\ file \in Files /\ pos = 1 /\ at = "top" /\ open = NoDecl /\ mspace = NoName /\ decls = <<>>
      /\ tpMap = [n \in Builtins |-> Prim(n)] /\ DOMAIN resolved = {} /\ status = "run"
  BY DEF Init
<1>2. GoodText
  BY <1>1, FilesAssumption, TokensAssumption DEF GoodText, text
<1>3. Str(decls) /\ ProgramFormed(decls) /\ DOMAIN decls = {} /\ Len(decls) = 0
  BY <1>1, StrWord DEF ProgramFormed
<1>4. Told(pos, at, open, decls, mspace)
  <2>1. \A p : p = 0 => Read(p) = <<>> /\ Remarks(p) = <<>>
    <3> SUFFICES ASSUME NEW p, p = 0 PROVE Read(p) = <<>> /\ Remarks(p) = <<>>
      OBVIOUS
    <3> DEFINE s == [i \in 1..p |-> Part(i)]
               r == [i \in 1..p |-> Remark(i)]
    <3>1. s = [k \in 1..p |-> s[k]] /\ r = [k \in 1..p |-> r[k]] /\ p \in Nat
      OBVIOUS
    <3>2. Str(s) /\ Len(s) = p /\ Str(r) /\ Len(r) = p
      BY <3>1, StrMade
    <3>3. Read(p) = FlattenSeq(s) /\ Remarks(p) = FlattenSeq(r)
      BY DEF Read, Remarks
    <3> HIDE DEF s, r
    <3>4. s = <<>> /\ r = <<>>
      BY <3>2, StrShape
    <3> QED
      BY <3>3, <3>4, FlattenEmpty
  <2>2. Read(pos - 1) = <<>> /\ Remarks(pos - 1) = <<>>
    BY <1>1, <2>1
  <2>3. FlattenSeq(Texts(decls)) = <<>> /\ FlattenSeq(Notices(decls)) = <<>>
    <3>1. Str(Texts(decls)) /\ Len(Texts(decls)) = 0 /\ Str(Notices(decls)) /\ Len(Notices(decls)) = 0
      BY <1>3, ProgramParts DEF Parts
    <3>2. Texts(decls) = <<>> /\ Notices(decls) = <<>>
      BY <3>1, StrShape
    <3> QED
      BY <3>2, FlattenEmpty
  <2>4. Space(mspace) = <<>>
    BY <1>1 DEF Space
  <2>5. Ahead(at, open) = <<>> /\ AheadNotes(at, open) = 0
    BY <1>1, Places
  <2>6. (<<>> \o <<>>) \o <<>> = <<>> /\ Len(<<>>) = 0
    BY StrWord, StrNothing
  <2> QED
    BY <2>2, <2>3, <2>4, <2>5, <2>6 DEF Told
<1>5. OpenFormed(at, open) /\ DescInv(pos, at, open) /\ TypesAhead(at, open) = {}
  BY <1>1 DEF OpenFormed, DescInv, TypesAhead, GroupPlaces, MsgPlaces
<1>6. ApartInv(pos, at)
  BY <1>1 DEF ApartInv, ApartAt, Unrelated
<1>7. Lonely(decls, TypesAhead(at, open), resolved)
  BY <1>1, <1>3, <1>5 DEF Lonely
<1>8. Named(pos, tpMap, decls)
  BY <1>1 DEF Named
<1>9. pos \in Nat \ {0} /\ pos - 1 <= Len(text)
  BY <1>1, <1>2 DEF GoodText, IsSequence
<1>10. HeardAs(pos, at, open, decls, mspace, tpMap, resolved)
  BY <1>3, <1>4, <1>5, <1>6, <1>7, <1>8, <1>9 DEF HeardAs
<1> QED
  BY <1>1, <1>2, <1>3, <1>10 DEF FaithInv, Heard

(* With no resolution a program is delivered as it was read.               *)
LEMMA LoneLinked == ASSUME DOMAIN resolved = {}, NEW t, Lone(t) PROVE Linked(t) = t
<1>1. \A n : Resolution(n) = NilType
  BY DEF Resolution
<1>2. PICK b : Single(b) /\ (t = b \/ t = ArrayOf(b) \/ t = ArrayOf(ArrayOf(b)))
  BY DEF Lone
<1>3. /\ b.k \in {"prim", "struct", "undef"}
      /\ b.k = "undef" => b = Undef(b.name, NilType)
  BY <1>2, ElemFacts DEF Single
<1>4. CASE t = b /\ b.k = "undef"
  <2>1. Linked(t) = Undef(t.name, Resolution(t.name))
    BY <1>4 DEF Linked
  <2> QED
    BY <1>1, <1>3, <1>4, <2>1
<1>5. CASE t = b /\ b.k # "undef"
  <2>1. t.k \notin {"undef", "array"}
    BY <1>3, <1>5
  <2> QED
    BY <2>1 DEF Linked
<1>6. CASE t = ArrayOf(b)
  <2>1. t.k = "array" /\ t.elem = b /\ t.k # "undef"
    BY <1>6, ElemFacts
  <2>2. CASE b.k = "undef"
    <3>1. Linked(t) = ArrayOf(Undef(t.elem.name, Resolution(t.elem.name)))
      BY <2>1, <2>2 DEF Linked
    <3> QED
      BY <1>1, <1>3, <1>6, <2>1, <2>2, <3>1
  <2>3. CASE b.k # "undef"
    BY <2>1, <2>3 DEF Linked
  <2> QED
    BY <2>2, <2>3
<1>7. CASE t = ArrayOf(ArrayOf(b))
  <2>1. t.k = "array" /\ t.elem.k = "array"
    BY <1>7, ElemFacts
  <2> QED
    BY <2>1 DEF Linked
<1> QED
  BY <1>2, <1>4, <1>5, <1>6, <1>7

LEMMA DeliveredAsRead ==
  ASSUME DOMAIN resolved = {}, NEW i \in DOMAIN decls, Formed(decls[i]), \A t \in Types(decls[i]) : Lone(t)
  PROVE  DeclText(Delivered[i]) = DeclText(decls[i])
<1> DEFINE d == decls[i]
           e == Delivered[i]
<1>1. CASE d.kind = "msg"
  <2> DEFINE fs == [k \in DOMAIN d.fields |-> [d.fields[k] EXCEPT !.type = Linked(@)]]
  <2>1. e = [d EXCEPT !.fields = fs]
    BY <1>1 DEF Delivered
  <2>2. MsgFormed(d) /\ Types(d) = {d.fields[k].type : k \in DOMAIN d.fields}
    BY <1>1 DEF Formed, Types
  <2>3. ASSUME NEW k \in DOMAIN d.fields PROVE [d.fields[k] EXCEPT !.type = Linked(@)] = d.fields[k]
    <3> DEFINE f == d.fields[k]
    <3>1. Linked(f.type) = f.type
      BY <2>2, LoneLinked
    <3>2. f = [x \in FieldNames |-> f[x]]
      BY <2>2 DEF MsgFormed, FieldFormed, Record
    <3> HIDE DEF f
    <3>3. [f EXCEPT !.type = Linked(@)] = f
      BY <3>1, <3>2
    <3> QED
      BY <3>3 DEF f
  <2>4. d.fields = [k \in DOMAIN d.fields |-> d.fields[k]]
    BY <2>2 DEF MsgFormed, Str
  <2>5. fs = d.fields
    BY <2>3, <2>4
  <2>6. d = [x \in MsgNames |-> d[x]]
    BY <2>2 DEF MsgFormed, Record
  <2> HIDE DEF d, fs
  <2>7. [d EXCEPT !.fields = d.fields] = d
    BY <2>6
  <2> QED
    BY <2>1, <2>5, <2>7 DEF d
<1>2. CASE d.kind = "extern"
  <2>1. e = [d EXCEPT !.type = Linked(@)]
    BY <1>2 DEF Delivered
  <2>2. {"kind", "name", "type"} \subseteq DOMAIN d /\ Linked(d.type) = d.type
    BY <1>2, LoneLinked DEF Formed, Types
  <2>3. e.kind = d.kind /\ e.name = d.name /\ e.type = d.type
    BY <2>1, <2>2
  <2> HIDE DEF d, e
  <2>4. DeclText(e) = DeclText(d)
    BY <1>2, <2>3, TopWord
  <2> QED
    BY <2>4 DEF d, e
<1>3. CASE d.kind = "typedef"
  <2>1. e = [d EXCEPT !.impl = Linked(@)]
    BY <1>3 DEF Delivered
  <2>2. {"kind", "name", "impl"} \subseteq DOMAIN d /\ Linked(d.impl) = d.impl
    BY <1>3, LoneLinked DEF Formed, Types
  <2>3. e.kind = d.kind /\ e.name = d.name /\ e.impl = d.impl
    BY <2>1, <2>2
  <2> HIDE DEF d, e
  <2>4. DeclText(e) = DeclText(d)
    BY <1>3, <2>3, TopWord
  <2> QED
    BY <2>4 DEF d, e
<1>4. CASE d.kind \notin {"msg", "extern", "typedef"}
  BY <1>4 DEF Delivered
<1> QED
  BY <1>1, <1>2, <1>3, <1>4

LEMMA ReadToTheEnd == ASSUME FaithInv, status = "done", Plain
                      PROVE  /\ TextRead = Written
                             /\ Len(CommentsRead) = Len(FlattenSeq([i \in DOMAIN decls |-> Comments(decls[i])]))
                             /\ Apart
<1>1. /\ GoodText /\ at = "top" /\ Is(pos, "EOF") /\ pos \in Nat \ {0} /\ pos - 1 <= Len(text)
      /\ Told(pos, at, open, decls, mspace) /\ ProgramFormed(decls) /\ ApartInv(pos, at)
      /\ Lonely(decls, TypesAhead(at, open), resolved)
  BY DEF FaithInv, Heard, HeardAs
<1>2. Len(text) \in Nat /\ DOMAIN text = 1..Len(text)
  BY <1>1 DEF GoodText, IsSequence
<1>3. pos - 1 = Len(text)
  <2>1. pos \notin DOMAIN text
    <3> SUFFICES ASSUME pos \in DOMAIN text PROVE FALSE
      OBVIOUS
    <3>1. IsToken(text[pos]) /\ text[pos].t = "EOF"
      BY <1>1 DEF GoodText, Is, Tok
    <3> QED
      BY <3>1 DEF IsToken
  <2> QED
    BY <1>1, <1>2, <2>1
<1>4. TextRead = Read(pos - 1) /\ CommentsRead = Remarks(pos - 1)
  BY <1>2, <1>3 DEF TextRead, CommentsRead, Read, Remarks, Part, Remark
<1>5. Ahead(at, open) = <<>> /\ AheadNotes(at, open) = 0
  BY <1>1, Places
<1>6. Str(Space(mspace) \o FlattenSeq(Texts(decls))) /\ Len(FlattenSeq(Notices(decls))) \in Nat
  BY <1>1, ProgramStr
<1>7. Read(pos - 1) = Space(mspace) \o FlattenSeq(Texts(decls))
  <2>1. Read(pos - 1) = (Space(mspace) \o FlattenSeq(Texts(decls))) \o <<>>
    BY <1>1, <1>5 DEF Told
  <2> QED
    BY <1>6, <2>1, StrNothing
<1>8. Len(Remarks(pos - 1)) = Len(FlattenSeq(Notices(decls)))
  BY <1>1, <1>5, <1>6 DEF Told
<1>9. Texts(decls) = [i \in DOMAIN decls |-> DeclText(Delivered[i])]
  <2>1. \A i \in DOMAIN decls : DeclText(Delivered[i]) = DeclText(decls[i])
    BY <1>1, DeliveredAsRead DEF Lonely, ProgramFormed
  <2> QED
    BY <2>1 DEF Texts
<1>10. TextRead = Written
  BY <1>4, <1>7, <1>9 DEF Written, SpaceText, Space
<1>11. Len(CommentsRead) = Len(FlattenSeq([i \in DOMAIN decls |-> Comments(decls[i])]))
  BY <1>4, <1>8 DEF Notices
<1>12. Apart
  BY <1>1, <1>2, <1>3 DEF Apart, ApartInv, ApartAt
<1> QED
  BY <1>10, <1>11, <1>12

(* An accepted text has been read word by word, whatever the text: the     *)
(* program the parser delivers, written out again, is the text, every      *)
(* comment is in it, and declarations stand apart (declarations and every  *)
(* function it calls), where the tree can tell at all (Plain).             *)
THEOREM TextsAreKept == Spec => []Faithful
<1>1. FaithInv => Faithful
  BY ReadToTheEnd DEF Faithful
<1> QED
  BY <1>1, FaithInvInit, FaithInvNext, PTL DEF Spec
=============================================================================
