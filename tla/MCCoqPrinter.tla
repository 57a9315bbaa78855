---------------------------- MODULE MCCoqPrinter ----------------------------
(* A bounded universe of the ASTs the translator builds: every expression *)
(* kind over a word and a composite atom, each of those as a call         *)
(* argument, in if branches, in tuples and in bindings, and declarations  *)
(* with and without comments (one with a blank line).                     *)
EXTENDS CoqPrinter

Ident(n)        == [k |-> "ident", name |-> n]
GIdent(n)       == [k |-> "gident", name |-> n]
IntLit(v)          == [k |-> "int", v |-> v]
Int32Lit(v)        == [k |-> "int32", v |-> v]
Str(v)          == [k |-> "string", v |-> v]
BoolLit(b)      == [k |-> "bool", b |-> b]
Call(n, args)   == NewCallExpr(n, args)
Field(s, f, x, p) == [k |-> "field", struct |-> s, field |-> f, x |-> x, ptr |-> p]
Bin(x, op, y)   == [k |-> "binary", x |-> x, op |-> op, y |-> y]
Un(kind, x)     == [k |-> kind, x |-> x]
Tuple(es)       == [k |-> "tuple", es |-> es]
Bind(ns, e)     == [names |-> ns, e |-> e]
Blk(bs)         == [k |-> "block", bindings |-> bs]
Store(d, x)     == [k |-> "store", dst |-> d, x |-> x]
If(c, t, e)     == [k |-> "if", cond |-> c, then |-> t, else |-> e]
Lit(n, elts, a) == [k |-> "structlit", name |-> n, elts |-> elts, alloc |-> a]
Spawn(b)        == [k |-> "spawn", body |-> b]
For(i, c, p, b) == [k |-> "for", init |-> i, cond |-> c, post |-> p, body |-> b]
MapIter(kk, v, m, b) == [k |-> "mapiter", key |-> kk, val |-> v, m |-> m, body |-> b]

SName(n)  == [k |-> "sname", name |-> n]
MapT(v)   == [k |-> "mapT", v |-> v]
SliceT(v) == [k |-> "sliceT", v |-> v]
PtrT(v)   == [k |-> "ptrT", v |-> v]
TupleT(ts) == NewTupleType(ts)

Atoms == {Ident("x"), Ident("_"), GIdent("Skip"), IntLit(1), Int32Lit(2), Str(<<"s">>),
          BoolLit(TRUE), Tt}

(* A word and a composite (it contains a blank) atom.                     *)
A == {Ident("x"), Int32Lit(2)}

Body == Blk(<<Bind(<<>>, Call("f", <<Ident("x")>>)), Bind(<<>>, Tt)>>)

(* The expressions that print on several lines.                           *)
Multi ==
  {Blk(<<Bind(ns, a), Bind(<<>>, Ident("y"))>>) : ns \in {<<>>, <<"y">>, <<"y", "_">>},
                                                  a \in A}
  \cup {Lit("S", <<[field |-> "a", value |-> a], [field |-> "b", value |-> IntLit(1)]>>, al) :
          a \in A, al \in BOOLEAN}
  \cup {Spawn(Body), MapIter("k", "v", Ident("m"), Body),
        For(Bind(<<"i">>, IntLit(0)), Bin(Ident("i"), "OpLessThan", IntLit(2)),
            Store(Ident("i"), Bin(Ident("i"), "OpPlus", IntLit(1))),
            Blk(<<Bind(<<>>, GIdent("Continue"))>>))}

L1 ==
  {Call("f", <<>>)} \cup {Call("f", <<a>>) : a \in Atoms}
  \cup {Call("f", <<a, b>>) : a, b \in A}
  \cup {Un(kind, a) : kind \in {"not", "deref", "ref", "htinsert", "return"}, a \in A}
  \cup {Bin(a, op, b) : a, b \in A, op \in {"OpPlus", "OpLessEq"}}
  \cup {Tuple(<<a, b>>) : a, b \in A}
  \cup {Field("S", "f", Ident("p"), p) : p \in BOOLEAN}
  \cup {Lit("S", <<>>, FALSE)} \cup {Store(Ident("p"), a) : a \in A}
  \cup {If(Ident("c"), a, b) : a, b \in A}
  \cup Multi

(* What translated Go statements produce: blocks, loops, spawns, ifs and  *)
(* stores never stand where Go has an expression, so never as a call     *)
(* argument.                                                              *)
Stmts == {e \in L1 : e.k \in {"block", "spawn", "for", "mapiter", "if", "store"}}

L2 ==
  {Call("g", <<e>>) : e \in L1 \ Stmts}
  \cup {If(Ident("c"), e, Ident("x")) : e \in Multi \cup {If(Ident("d"), IntLit(1), IntLit(2))}}
  \cup {If(Ident("c"), Ident("x"), e) : e \in Multi}
  \cup {Tuple(<<e, Ident("x")>>) : e \in Multi}
  \cup {Un("not", If(Ident("c"), Ident("x"), Int32Lit(2)))}
  \cup {Blk(<<Bind(<<"y">>, e), Bind(<<>>, Ident("y"))>>) :
          e \in {If(Ident("c"), Body, Ident("x")), Lit("S", <<[field |-> "a", value |-> IntLit(1)]>>, TRUE)}}
  \cup {Call("Data.mapAlter", <<Ident("m"), Ident("k"), Un("htinsert", e)>>) : e \in A}
  \cup {Bin(Call("f", <<Int32Lit(2)>>), "OpEquals", Field("S", "f", Ident("p"), TRUE))}

Exprs == Atoms \cup L1 \cup L2

Types == {TypeIdent("uint64"), SName("S"), SliceT(TypeIdent("byte")),
          MapT(SliceT(TypeIdent("byte"))), PtrT(SName("S")), SliceT(PtrT(SName("S"))),
          TupleT(<<TypeIdent("uint64"), TypeIdent("bool")>>)}

Comments == {<<>>, <<"doc">>, <<"doc", NL, "more">>, <<"doc", NL, NL, "more">>}

Func(n, args, ret, body, c, t) ==
  [k |-> "func", name |-> n, args |-> args, ret |-> ret, body |-> body, comment |-> c,
   addTypes |-> t]

MCDecls ==
  {Func("F", <<>>, TypeIdent("unitT"), e, <<>>, FALSE) : e \in Exprs}
  \cup {Func("G", <<[name |-> "x", type |-> t], [name |-> "_", type |-> TypeIdent("bool")]>>,
             t, Ident("x"), c, TRUE) : t \in Types, c \in Comments}
  \cup {Func("H", <<>>, TypeIdent("uint64"), IntLit(1), <<>>, TRUE)}
  \cup {[k |-> "struct", name |-> "S", fields |-> fs, comment |-> c] :
          fs \in {<<>>, <<[name |-> "a", type |-> TypeIdent("uint64")]>>,
                  <<[name |-> "a", type |-> SliceT(TypeIdent("byte"))],
                    [name |-> "b", type |-> MapT(PtrT(SName("S")))]>>},
          c \in Comments}
  \cup {[k |-> "typedecl", name |-> "T", body |-> t] : t \in Types}
  \cup {NewComment(c) : c \in Comments \cup {<<"doc", SP, NL>>}}
  \cup {[k |-> "const", name |-> "C", type |-> TypeIdent("uint64"), val |-> v, comment |-> c] :
          v \in {IntLit(1), Bin(IntLit(1), "OpPlus", IntLit(2))}, c \in Comments}

(* Call arguments the AST admits beyond what Go expressions translate to: *)
(* statement blocks, and a comparison of two tuples.                      *)
MCDeclsWide ==
  MCDecls
  \cup {Func("F", <<>>, TypeIdent("unitT"), Call("g", <<e>>), <<>>, FALSE) :
          e \in Stmts \cup {Bin(Tuple(<<a, a>>), "OpEquals", Tuple(<<a, a>>)) : a \in A}}

(* String literals whose value holds a newline (a backquoted Go string),  *)
(* as a function body, a call argument and a constant.                    *)
MultiLineStr == Str(<<"a", NL, "b">>)

MCDeclsStrings ==
  {Func("F", <<>>, TypeIdent("stringT"), e, <<>>, FALSE) :
     e \in {MultiLineStr, Call("g", <<MultiLineStr>>)}}
  \cup {[k |-> "const", name |-> "C", type |-> TypeIdent("stringT"), val |-> MultiLineStr,
         comment |-> <<>>]}

=============================================================================
