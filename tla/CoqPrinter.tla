----------------------------- MODULE CoqPrinter -----------------------------
(***************************************************************************)
(* The Coq AST of goose and its pretty-printer (internal/coq/coq.go).      *)
(*                                                                         *)
(* Text is a sequence of tokens: a word (a string without blanks and      *)
(* without the delimiters below), the blank SP, the newline NL, or one of *)
(* the delimiters "(", ")", "[", "]", "{|", "|}".  Go's string operations *)
(* (Sprintf, Split, Join, Repeat, HasPrefix, Contains) act on these       *)
(* sequences as they act on the characters; only the spelling inside a    *)
(* word is abstracted.  A Go runtime panic of the printer is the token    *)
(* Panic in the text that was being built.                                *)
(*                                                                         *)
(* The AST is a set of records, one kind per Go type; Coq(e) is the        *)
(* Coq() method of every Expr and Type, CoqDecl(d) that of every Decl.     *)
(* The module's only state is the File being printed: the translator      *)
(* hands it one declaration after another.                                 *)
(***************************************************************************)
EXTENDS Integers, Sequences, SequencesExt, TLC

CONSTANTS
  Decls,      \* the declarations the translator may produce
  MaxDecls    \* the number of declarations in a File

VARIABLES
  decls,  \* File.Decls
  out     \* what File.Write has written to w

SP    == " "
NL    == "\n"
Panic == "panic"

Spaces(n) == IF n < 0 THEN <<Panic>> ELSE [i \in 1 .. n |-> SP]

(* The number of characters of a text without newlines.                   *)
RECURSIVE Width(_)
Width(s) == IF s = <<>> THEN 0 ELSE Len(Head(s)) + Width(Tail(s))

(* strings.Split(s, "\n")                                                  *)
RECURSIVE SplitLines(_)
SplitLines(s) ==
  IF \A i \in DOMAIN s : s[i] # NL THEN <<s>>
  ELSE LET j == SelectInSeq(s, LAMBDA t : t = NL)
       IN  <<SubSeq(s, 1, j - 1)>> \o SplitLines(SubSeq(s, j + 1, Len(s)))

(* strings.Join(ls, sep)                                                   *)
JoinWith(ls, sep) ==
  FlattenSeq([i \in DOMAIN ls |-> IF i = 1 THEN ls[i] ELSE sep \o ls[i]])

-----------------------------------------------------------------------------
(* The indenting buffer                                                    *)

(* isWellBalanced only compares the first and the last token.             *)
isWellBalanced(s, lDelim, rDelim) ==
  s # <<>> /\ s[1] = lDelim /\ s[Len(s)] = rDelim

EmptyBuffer == [lines |-> <<>>, indentLevel |-> 0]

(* make([]byte, pp.indentLevel) panics on a negative level.               *)
indentation(pp) == Spaces(pp.indentLevel)

appendLine(pp, line) == [pp EXCEPT !.lines = Append(@, line)]

(* Mutant of indent: blank lines are indented too.                       *)
indentBlankLines(spaces, s) ==
  IF spaces < 0 THEN <<Panic>>
  ELSE LET lines == SplitLines(s)
       IN  JoinWith([i \in DOMAIN lines |->
                       IF i = 1 THEN lines[i] ELSE Spaces(spaces) \o lines[i]], <<NL>>)

(* strings.Repeat panics on a negative count, whatever s is.              *)
indent(spaces, s) ==
  IF spaces < 0 THEN <<Panic>>
  ELSE LET lines == SplitLines(s)
       IN  JoinWith([i \in DOMAIN lines |->
                       IF i = 1 \/ lines[i] = <<>> THEN lines[i]
                       ELSE Spaces(spaces) \o lines[i]], <<NL>>)

(* AddLine, and Add, which is AddLine of the Sprintf'd text.              *)
AddLine(pp, line) ==
  IF line = <<>> THEN appendLine(pp, <<>>)
  ELSE appendLine(pp, indentation(pp) \o indent(pp.indentLevel, line))

Indent(pp, spaces) == [pp EXCEPT !.indentLevel = @ + spaces]

Block(pp, prefix, s) ==
  Indent(AddLine(pp, prefix \o indent(Width(prefix), s)), Width(prefix))

Build(pp) == JoinWith(pp.lines, <<NL>>)

(* Adds the lines of ls one after the other (the body of a range loop).   *)
RECURSIVE AddLines(_, _)
AddLines(pp, ls) ==
  IF ls = <<>> THEN pp ELSE AddLines(AddLine(pp, Head(ls)), Tail(ls))

addParens(s) ==
  IF \/ \A i \in DOMAIN s : s[i] # SP
     \/ isWellBalanced(s, "(", ")")
     \/ isWellBalanced(s, "{|", "|}")
  THEN s
  ELSE <<"(">> \o s \o <<")">>

CommentOpen  == <<"(", "*", SP>>
CommentClose == <<SP, "*", ")">>

AddComment(pp, c) ==
  IF c = <<>> THEN pp
  ELSE Indent(Block(pp, CommentOpen, c \o CommentClose), -Width(CommentOpen))

quote(s) == IF s = "_" THEN "<>" ELSE "\"" \o s \o "\""

binder(s) == IF s = "_" THEN "<>" ELSE quote(s)

-----------------------------------------------------------------------------
(* Expressions and types: the Coq() methods                                *)

(* The value, a text, is printed as it is: a newline in it stays one.   *)
StringLiteralCoq(e) == <<"#", "(", "str\"">> \o e.v \o <<"\"", ")">>

RECURSIVE Coq(_)

Tt == [k |-> "unit"]

NewCallExpr(name, args) ==
  [k |-> "call", name |-> name, args |-> IF args = <<>> THEN <<Tt>> ELSE args]

StructDesc(name) == [k |-> "gident", name |-> name \o ".S"]

GallinaString(s) == [k |-> "gstring", name |-> s]

TypeIdent(name) == [k |-> "tident", name |-> name]

(* Mutant of CallExprCoq: the arguments are not parenthesised.           *)
CallExprCoqNoParens(e) ==
  JoinWith(<< <<e.name>> >> \o [i \in DOMAIN e.args |-> Coq(e.args[i])], <<SP>>)

CallExprCoq(e) ==
  JoinWith(<< <<e.name>> >> \o [i \in DOMAIN e.args |-> addParens(Coq(e.args[i]))],
           <<SP>>)

(* The call StructFieldAccessExpr.Coq() renders.                          *)
StructFieldAccessCall(e) ==
  IF e.ptr
  THEN NewCallExpr("struct.loadF", <<StructDesc(e.struct), GallinaString(e.field), e.x>>)
  ELSE NewCallExpr(e.struct \o ".get", <<GallinaString(e.field), e.x>>)

(* One line per field, ";" after all but the last.                        *)
StructLiteralCoq(e) ==
  LET method == IF e.alloc THEN "struct.new" ELSE "struct.mk"
      n == Len(e.elts)
      field(i) == <<quote(e.elts[i].field), SP, "::=", SP>> \o Coq(e.elts[i].value)
                    \o (IF i = n THEN <<>> ELSE <<";">>)
      pp == Indent(AddLine(EmptyBuffer,
                     <<method, SP>> \o Coq(StructDesc(e.name)) \o <<SP, "[">>), 2)
  IN  Build(AddLine(Indent(AddLines(pp, [i \in 1 .. n |-> field(i)]), -2), <<"]">>))

coqBinOp == [OpPlus |-> "+", OpMinus |-> "-", OpEquals |-> "=", OpAppend |-> "+",
             OpMul |-> "*", OpLessThan |-> "<", OpGreaterThan |-> ">",
             OpLessEq |-> "<=", OpGreaterEq |-> ">="]

BinaryExprCoq(e) ==
  IF e.op \in DOMAIN coqBinOp
  THEN Coq(e.x) \o <<SP, coqBinOp[e.op], SP>> \o Coq(e.y)
  ELSE <<Panic>>

TupleExprCoq(e) ==
  <<"(">> \o indent(1, JoinWith([i \in DOMAIN e.es |-> Coq(e.es[i])], <<",", SP>>))
          \o <<")">>

NewTuple(es) == IF Len(es) = 1 THEN es[1] ELSE [k |-> "tuple", es |-> es]

NewAnon(x) == [names |-> <<>>, e |-> x]

isAnonymous(b) == b.names = <<>>

(* A non-terminal binding of a block.                                     *)
AddTo(pp, b) ==
  CASE isAnonymous(b)     -> AddLine(pp, Coq(b.e) \o <<";;">>)
    [] Len(b.names) = 1   -> AddLine(pp, <<"let:", SP, binder(b.names[1]), SP, ":=", SP>>
                                           \o Coq(b.e) \o <<SP, "in">>)
    [] Len(b.names) = 2   -> AddLine(pp, <<"let:", SP, "(", binder(b.names[1]), ",", SP,
                                           binder(b.names[2]), ")", SP, ":=", SP>>
                                           \o Coq(b.e) \o <<SP, "in">>)
    [] OTHER              -> AddLine(pp, <<Panic>>)

BlockExprCoq(e) ==
  LET bs == e.bindings
      RECURSIVE Add(_, _)
      Add(pp, n) ==
        IF n > Len(bs) THEN pp
        ELSE Add(IF n = Len(bs) THEN AddLine(pp, Coq(bs[n].e)) ELSE AddTo(pp, bs[n]),
                 n + 1)
  IN  Build(Add(EmptyBuffer, 1))

(* Mutant of flowBranch: the compact form undoes one column too many.    *)
flowBranchOffByOne(pp, prefix, code) ==
  IF \A i \in DOMAIN code : code[i] # NL
  THEN Indent(Block(pp, <<prefix, SP>>, code), -(Len(prefix) + 2))
  ELSE Indent(AddLine(Indent(AddLine(pp, <<prefix>>), 2), code), -2)

(* A branch of an if: compact on one line, or the multi-line form.        *)
flowBranch(pp, prefix, code) ==
  IF \A i \in DOMAIN code : code[i] # NL
  THEN Indent(Block(pp, <<prefix, SP>>, code), -(Len(prefix) + 1))
  ELSE Indent(AddLine(Indent(AddLine(pp, <<prefix>>), 2), code), -2)

(* Mutant of IfExprCoq: the closing parenthesis is left out.             *)
IfExprCoqNoClose(e) ==
  LET pp == AddLine(EmptyBuffer, <<"(", "if:", SP>> \o Coq(e.cond))
  IN  Build(flowBranch(flowBranch(pp, "then", Coq(e.then)), "else", Coq(e.else)))

IfExprCoq(e) ==
  LET pp == AddLine(EmptyBuffer, <<"(", "if:", SP>> \o Coq(e.cond))
  IN  Build(flowBranch(flowBranch(pp, "then", Coq(e.then)),
                       "else", Coq(e.else) \o <<")">>))

HashTableInsertCoq(e) ==
  <<"(", "fun", SP, "_", SP, "=>", SP, "Some", SP>> \o addParens(Coq(e.x)) \o <<")">>

ForLoopExprCoq(e) ==
  LET pp == AddLine(AddTo(EmptyBuffer, e.init),
                    <<"(", "for:", SP, "(">> \o Coq(e.cond) \o <<")", ";", SP, "(">>
                      \o Coq(e.post) \o <<")", SP, ":=">>)
  IN  Build(AddLine(Indent(pp, 2), Coq(e.body) \o <<")">>))

MapIterExprCoq(e) ==
  LET pp == AddLine(EmptyBuffer,
              <<"Data.mapIter", SP>> \o addParens(Coq(e.m))
                \o <<SP, "(", "fun:", SP, binder(e.key), SP, binder(e.val), ",">>)
  IN  Build(AddLine(Indent(pp, 2), Coq(e.body) \o <<")">>))

SpawnExprCoq(e) == Build(Block(EmptyBuffer, <<"Fork", SP, "(">>, Coq(e.body) \o <<")">>))

NewTupleType(ts) == IF Len(ts) = 1 THEN ts[1] ELSE [k |-> "tupleT", ts |-> ts]

TupleTypeCoq(e) ==
  <<"(">> \o JoinWith([i \in DOMAIN e.ts |-> Coq(e.ts[i])], <<SP, "*", SP>>) \o <<")">>

GallinaIdentCoq(e) == <<e.name>>

IdentExprCoq(e) == <<quote(e.name)>>

ReturnExprCoq(e) == Coq(e.x)

NotExprCoq(e) == <<"~", SP>> \o addParens(Coq(e.x))

DerefExprCoq(e) == <<"!">> \o addParens(Coq(e.x))

RefExprCoq(e) == Coq(NewCallExpr("ref", <<e.x>>))

StoreStmtCoq(e) == Coq(e.dst) \o <<SP, "<-", SP>> \o Coq(e.x)

StructNameCoq(e) == <<e.name \o ".T">>

MapTypeCoq(e) == Coq(NewCallExpr("mapT", <<e.v>>))

SliceTypeCoq(e) == <<"slice.T", SP>> \o addParens(Coq(e.v))

PtrTypeCoq(e) == Coq(NewCallExpr("refT", <<e.v>>))

(* Dispatch on the AST node's Go type; the literals print inline.         *)
Coq(e) ==
  CASE e.k = "gident"    -> GallinaIdentCoq(e)
    [] e.k = "ident"     -> IdentExprCoq(e)
    [] e.k = "gstring"   -> IdentExprCoq(e)
    [] e.k = "call"      -> CallExprCoq(e)
    [] e.k = "field"     -> Coq(StructFieldAccessCall(e))
    [] e.k = "return"    -> ReturnExprCoq(e)
    [] e.k = "structlit" -> StructLiteralCoq(e)
    [] e.k = "bool"      -> <<IF e.b THEN "#true" ELSE "#false">>
    [] e.k = "unit"      -> <<"#", "(", ")">>
    [] e.k = "int"       -> <<"#" \o ToString(e.v)>>
    [] e.k = "int32"     -> <<"#", "(", "U32", SP, ToString(e.v), ")">>
    [] e.k = "string"    -> StringLiteralCoq(e)
    [] e.k = "binary"    -> BinaryExprCoq(e)
    [] e.k = "not"       -> NotExprCoq(e)
    [] e.k = "tuple"     -> TupleExprCoq(e)
    [] e.k = "block"     -> BlockExprCoq(e)
    [] e.k = "deref"     -> DerefExprCoq(e)
    [] e.k = "ref"       -> RefExprCoq(e)
    [] e.k = "store"     -> StoreStmtCoq(e)
    [] e.k = "if"        -> IfExprCoq(e)
    [] e.k = "htinsert"  -> HashTableInsertCoq(e)
    [] e.k = "for"       -> ForLoopExprCoq(e)
    [] e.k = "mapiter"   -> MapIterExprCoq(e)
    [] e.k = "spawn"     -> SpawnExprCoq(e)
    [] e.k = "tident"    -> GallinaIdentCoq(e)
    [] e.k = "sname"     -> StructNameCoq(e)
    [] e.k = "mapT"      -> MapTypeCoq(e)
    [] e.k = "sliceT"    -> SliceTypeCoq(e)
    [] e.k = "tupleT"    -> TupleTypeCoq(e)
    [] e.k = "ptrT"      -> PtrTypeCoq(e)

-----------------------------------------------------------------------------
(* Declarations: the CoqDecl() methods                                     *)

CoqBinder(fd) == binder(fd.name)

StructDeclCoqDecl(d) ==
  LET n == Len(d.fields)
      field(i) == <<quote(d.fields[i].name), SP, "::", SP>> \o Coq(d.fields[i].type)
                    \o (IF i = n THEN <<>> ELSE <<";">>)
      p1 == AddComment(Indent(AddLine(EmptyBuffer, <<"Module", SP, d.name \o ".">>), 2),
                       d.comment)
      p2 == Indent(AddLine(p1, <<"Definition", SP, "S", SP, ":=", SP, "struct.decl",
                                 SP, "[">>), 2)
      p3 == AddLines(Indent(AddLines(p2, [i \in 1 .. n |-> field(i)]), -2),
                     << <<"]", ".">>,
                        <<"Definition", SP, "T:", SP, "ty", SP, ":=", SP, "struct.t", SP, "S.">>,
                        <<"Definition", SP, "Ptr:", SP, "ty", SP, ":=", SP, "struct.ptrT",
                          SP, "S.">>,
                        <<"Section", SP, "fields.">> >>)
      p4 == AddLines(Indent(p3, 2),
                     << <<"Context", SP, "{ext_ty:", SP, "ext_types}.">>,
                        <<"Definition", SP, "get", SP, ":=", SP, "struct.get", SP, "S.">> >>)
      p5 == AddLine(Indent(p4, -2), <<"End", SP, "fields.">>)
  IN  Build(AddLine(Indent(p5, -2), <<"End", SP, d.name \o ".">>))

TypeDeclCoqDecl(d) ==
  Build(AddLine(EmptyBuffer, <<"Definition", SP, d.name \o ":", SP, "ty", SP, ":=", SP>>
                               \o Coq(d.body) \o <<".">>))

Signature(d) ==
  IF d.args = <<>> THEN <<"<>">>
  ELSE JoinWith([i \in DOMAIN d.args |-> <<CoqBinder(d.args[i])>>], <<SP>>)

FuncType(d) ==
  JoinWith([i \in DOMAIN d.args |-> Coq(d.args[i].type)]
             \o (IF d.args = <<>> THEN <<Coq(TypeIdent("unitT"))>> ELSE <<>>)
             \o <<Coq(d.ret)>>,
           <<SP, "->", SP>>)

(* The two deferred Indent(-2) run when the closure returns.              *)
FuncDeclCoqDecl(d) ==
  LET p1 == AddLine(AddComment(EmptyBuffer, d.comment),
                    <<"Definition", SP, d.name \o ":", SP, "val", SP, ":=">>)
      p2 == AddLine(Indent(p1, 2), <<"fun:", SP>> \o Signature(d) \o <<",">>)
      p3 == Indent(Indent(AddLine(Indent(p2, 2), Coq(d.body) \o <<".">>), -2), -2)
      typed == << <<"Theorem", SP, d.name \o "_t:", SP, "|-", SP, d.name, SP, ":", SP, "(">>
                    \o FuncType(d) \o <<")", ".">>,
                  <<"Proof.", SP, "typecheck.", SP, "Qed.">>,
                  <<"Hint", SP, "Resolve", SP, d.name \o "_t", SP, ":", SP, "types.">> >>
  IN  Build(IF d.addTypes THEN AddLines(p3, typed) ELSE p3)

(* strings.TrimRight(s, " \t\n")                                           *)
RECURSIVE TrimRight(_)
TrimRight(s) ==
  IF s # <<>> /\ Last(s) \in {SP, NL} THEN TrimRight(Front(s)) ELSE s

NewComment(s) == [k |-> "comment", text |-> TrimRight(s)]

CommentDeclCoqDecl(d) == Build(AddComment(EmptyBuffer, d.text))

ConstDeclCoqDecl(d) ==
  Build(Block(AddComment(EmptyBuffer, d.comment), <<"Definition", SP>>,
              <<d.name, SP, ":", SP, "expr", SP, ":=", SP>> \o Coq(d.val) \o <<".">>))

CoqDecl(d) ==
  CASE d.k = "struct"   -> StructDeclCoqDecl(d)
    [] d.k = "typedecl" -> TypeDeclCoqDecl(d)
    [] d.k = "func"     -> FuncDeclCoqDecl(d)
    [] d.k = "comment"  -> CommentDeclCoqDecl(d)
    [] d.k = "const"    -> ConstDeclCoqDecl(d)

importHeader ==
  <<NL, "From", SP, "Perennial.go_lang", SP, "Require", SP, "Import", SP, "prelude.", NL,
    NL, "(", "*", SP, "disk", SP, "FFI", SP, "*", ")", NL,
    "From", SP, "Perennial.go_lang", SP, "Require", SP, "Import", SP,
    "ffi.disk_prelude.", NL>>

(* strings.Trim(s, "\n")                                                   *)
RECURSIVE TrimNewlines(_)
TrimNewlines(s) ==
  CASE s # <<>> /\ Head(s) = NL -> TrimNewlines(Tail(s))
    [] s # <<>> /\ Last(s) = NL -> TrimNewlines(Front(s))
    [] OTHER                    -> s

autogeneratedNotice(pkg) == [k |-> "comment", text |-> <<"autogenerated", SP, "from", SP, pkg>>]

(* File.Write, with coqDecl[d] standing for d.CoqDecl(): every Fprintln  *)
(* ends its text with a newline.                                           *)
Write(pkg, ds, coqDecl) ==
  coqDecl[autogeneratedNotice(pkg)] \o <<NL>> \o TrimNewlines(importHeader) \o <<NL, NL>>
    \o FlattenSeq([i \in DOMAIN ds |-> coqDecl[ds[i]] \o <<NL>>
                                         \o (IF i # Len(ds) THEN <<NL>> ELSE <<>>)])

-----------------------------------------------------------------------------
(* The File being printed                                                  *)

Package == "pkg"

(* Every declaration is rendered once, before the search: TLC evaluates a *)
(* constant definition once.                                               *)
Rendered == [d \in Decls \cup {autogeneratedNotice(Package)} |-> CoqDecl(d)]

(* out' is what File.Write prints of the declarations ds; a panic in any *)
(* CoqDecl() aborts it.                                                     *)
Output(ds) ==
  \E text \in {Write(Package, ds, Rendered)} :
    out' = IF Panic \in ToSet(text) THEN <<Panic>> ELSE text

Init ==
  /\ decls = <<>>
  /\ out = <<>>

(* The environment: the translator builds File.Decls one declaration    *)
(* at a time, up to the model's bound MaxDecls, and every File on the     *)
(* way is printed.                                                        *)
AddDecl(d) ==
  /\ Len(decls) < MaxDecls
  /\ decls' = Append(decls, d)
  /\ Output(decls')

Next == \E d \in Decls : AddDecl(d)

Spec == Init /\ [][Next]_<<decls, out>>

-----------------------------------------------------------------------------
(* Properties                                                              *)

OpenDelims  == {"(", "[", "{|"}
CloseDelims == {")", "]", "|}"}
Closes(o, c) == <<o, c>> \in {<<"(", ")">>, <<"[", "]">>, <<"{|", "|}">>}

Blank(t) == t \in {SP, NL}

(* The number of open delimiters before position i of s.                  *)
Depth(s, i) ==
  LET opens  == {j \in 1 .. i - 1 : s[j] \in OpenDelims}
      closes == {j \in 1 .. i - 1 : s[j] \in CloseDelims}
  IN  Cardinality(opens) - Cardinality(closes)

(* The delimiters of s nest properly: the depth never drops below zero,  *)
(* ends at zero, and every closer matches the last opener one level up.  *)
Nested(s) ==
  \E D \in {[i \in 1 .. Len(s) + 1 |-> Depth(s, i)]} :
    /\ \A i \in DOMAIN D : D[i] >= 0
    /\ D[Len(s) + 1] = 0
    /\ \A j \in DOMAIN s :
         s[j] \in CloseDelims =>
           Closes(s[Max({i \in 1 .. j - 1 : s[i] \in OpenDelims /\ D[i] = D[j] - 1})], s[j])

(* The number of blank-separated words of s outside any delimiter: what  *)
(* Coq's parser reads as the head and the arguments of an application.   *)
Groups(s) ==
  Cardinality({i \in DOMAIN s : /\ ~ Blank(s[i])
                                /\ i = 1 \/ Blank(s[i - 1])
                                /\ Depth(s, i) = 0})

(* The expressions and types an AST node renders through Coq(), the      *)
(* calls built by NewCallExpr included.                                   *)
Children(e) ==
  CASE e.k = "call"      -> ToSet(e.args)
    [] e.k = "field"     -> {StructFieldAccessCall(e)}
    [] e.k \in {"return", "not", "deref", "htinsert"} -> {e.x}
    [] e.k = "structlit" -> {e.elts[i].value : i \in DOMAIN e.elts}
    [] e.k = "binary"    -> {e.x, e.y}
    [] e.k = "tuple"     -> ToSet(e.es)
    [] e.k = "block"     -> {e.bindings[i].e : i \in DOMAIN e.bindings}
    [] e.k = "ref"       -> {NewCallExpr("ref", <<e.x>>)}
    [] e.k = "store"     -> {e.dst, e.x}
    [] e.k = "if"        -> {e.cond, e.then, e.else}
    [] e.k = "for"       -> {e.init.e, e.cond, e.post, e.body}
    [] e.k = "mapiter"   -> {e.m, e.body}
    [] e.k = "spawn"     -> {e.body}
    [] e.k = "mapT"      -> {NewCallExpr("mapT", <<e.v>>)}
    [] e.k = "ptrT"      -> {NewCallExpr("refT", <<e.v>>)}
    [] e.k = "sliceT"    -> {e.v}
    [] e.k = "tupleT"    -> ToSet(e.ts)
    [] OTHER             -> {}

RECURSIVE Subterms(_)
Subterms(e) == {e} \cup UNION {Subterms(c) : c \in Children(e)}

DeclExprs(d) ==
  CASE d.k = "struct"   -> {d.fields[i].type : i \in DOMAIN d.fields}
    [] d.k = "typedecl" -> {d.body}
    [] d.k = "func"     -> {d.args[i].type : i \in DOMAIN d.args} \cup {d.ret, d.body}
    [] d.k = "const"    -> {d.val}
    [] OTHER            -> {}

DeclSubterms(d) == UNION {Subterms(x) : x \in DeclExprs(d)}

CallsReparse ==
  [d \in Decls |->
     \A c \in DeclSubterms(d) :
       c.k = "call" => Groups(Coq(c)) = 1 + Len(c.args)]

(* Every call, the ones NewCallExpr builds for field access, ref, mapT    *)
(* and refT included, prints as its method name followed by exactly one   *)
(* parenthesis-free word or delimited group per argument: addParens       *)
(* wraps every composite argument, however deeply it nests blocks, ifs    *)
(* and struct literals, so Coq reads the call with the arguments the AST  *)
(* gives it.                                                               *)
CallArgumentsReparse == \A i \in DOMAIN decls : CallsReparse[decls[i]]

(* The parentheses and brackets of the printed File nest properly: every  *)
(* Coq() and CoqDecl() closes what it opens, also across the lines that   *)
(* IfExpr, ForLoopExpr, MapIterExpr and SpawnExpr break their text into.  *)
DelimitersBalanced == Nested(out)

(* No line of the printed File ends with a blank: indent leaves empty     *)
(* lines alone, AddLine does not indent an empty line, and no rendering   *)
(* ends a line with a separator.                                           *)
NoTrailingWhitespace ==
  \A i \in DOMAIN out : out[i] = SP => i < Len(out) /\ out[i + 1] # NL

(* Printing never panics: the Indent calls of Block, AddComment and       *)
(* flowBranch, and the closure of FuncDecl.CoqDecl, never leave the       *)
(* buffer at a negative indentLevel when a line is added.                 *)
RenderNeverPanics == out # <<Panic>>

(* A Go string literal keeps its value in Coq: the text between str" and  *)
(* " is the literal's value, also when it holds a newline (spec: escape   *)
(* processing happens before translation), whatever indentation Block,    *)
(* AddLine and indent give the lines around it.                           *)
StringLiteralsPreserved ==
  \A i \in DOMAIN decls :
    \A c \in DeclSubterms(decls[i]) :
      c.k = "string" =>
        \E j \in 1 .. Len(out) - Len(StringLiteralCoq(c)) + 1 :
          SubSeq(out, j, j + Len(StringLiteralCoq(c)) - 1) = StringLiteralCoq(c)

(* Every struct declaration includes the Go zero-value instance           *)
(* (HasGoZero) that the comment on StructDecl.CoqDecl announces.          *)
StructDeclHasZeroValue ==
  \A i \in DOMAIN decls :
    decls[i].k = "struct" => "HasGoZero" \in ToSet(out)

=============================================================================
