------------------------------ MODULE Decoration ------------------------------
(***************************************************************************)
(* The other side of Undname: how the compiler decorates a declaration,    *)
(* with its back-references, and how the declaration is written in C++.    *)
(*                                                                         *)
(* Types are records: basic, class, and pointers "*", "&", "&&" to a type, *)
(* a function, an array, a member or a member function; cv is the type's   *)
(* own const or volatile.  A qualified name is a sequence of names, the    *)
(* innermost first: identifiers, instances of templates, anonymous         *)
(* namespaces and blocks of functions.                                     *)
(***************************************************************************)
EXTENDS Undname

Basic(code, words) == [k |-> "basic", code |-> code, words |-> words, cv |-> {}]
Class(key, name) == [k |-> "class", key |-> key, name |-> name, cv |-> {}]
Pointer(sign, to, cv) == [k |-> "ptr", sign |-> sign, to |-> to, cv |-> cv]
Function(ret, args) == [k |-> "func", ret |-> ret, args |-> args, cv |-> {}]
Array(bounds, of) == [k |-> "array", bounds |-> bounds, of |-> of, cv |-> {}]
Member(class, of) == [k |-> "member", class |-> class, of |-> of, cv |-> of.cv]
MemberFunction(class, this, f) == [k |-> "memfn", class |-> class, this |-> this, f |-> f, cv |-> {}]

Id(id) == [k |-> "id", id |-> id]
Instance(id, args) == [k |-> "instance", id |-> id, args |-> args]
TypeArg(t) == [k |-> "type", t |-> t]
IntArg(n) == [k |-> "int", n |-> n]

IntType == Basic(<<"H">>, <<"int">>)
VoidType == Basic(<<"X">>, <<"void">>)

-----------------------------------------------------------------------------
(* Decoration: m holds the tokens and the tables so far. *)

Emit(m, tokens) == [m EXCEPT !.out = @ \o tokens]
CvIndex(cv) == (IF "const" \in cv THEN 1 ELSE 0) + (IF "volatile" \in cv THEN 2 ELSE 0)
CvCode(cv) == << "A", "B", "C", "D" >>[CvIndex(cv) + 1]
MemberCode(cv) == << "Q", "R", "S", "T" >>[CvIndex(cv) + 1]
PointerCode(sign, cv) ==
    CASE sign = "*" -> << << "P", "Q", "R", "S" >>[CvIndex(cv) + 1] >>
      [] sign = "&" -> <<"A">>
      [] sign = "&&" -> <<"$", "$", "PDT_ex_rvalue_ref">>

Hex(n) == IF n < 16 THEN <<AllCodes[11 + n]>> ELSE <<AllCodes[11 + n \div 16], AllCodes[11 + (n % 16)]>>
NumberCode(n) ==
    IF n \in 1 .. 10 THEN <<AllCodes[n]>>
    ELSE IF n >= 0 THEN Hex(n) \o <<"@">>
    ELSE IF -n \in 1 .. 10 THEN <<"?", AllCodes[-n]>> ELSE <<"?">> \o Hex(-n) \o <<"@">>

Remember(list, x) == IF Len(list) < 10 THEN Append(list, x) ELSE list
Digit(list, x) == AllCodes[CHOOSE i \in DOMAIN list : list[i] = x]

RECURSIVE DType(_, _), DName(_, _), DFunction(_, _), DEntity(_, _)

DNames(m, names) == FoldLeft(DName, m, names)
DQualified(m, names) == Emit(DNames(m, names), <<"@">>)

(* A type on its own: const in front of what is no pointer has a mark. *)
DTopType(m, t) ==
    IF t.cv = {} \/ t.k = "ptr" THEN DType(m, t) ELSE DType(Emit(m, <<"$", "$", "C", CvCode(t.cv)>>), t)

DTemplateArg(m, a) ==
    LET r == IF a.k = "type" THEN DTopType(m, a.t) ELSE Emit(m, <<"$", "0">> \o NumberCode(a.n))
    IN  IF a \in ToSet(m.targs) THEN Emit(m, <<Digit(m.targs, a)>>)
        ELSE IF Len(r.out) - Len(m.out) > 1 THEN [r EXCEPT !.targs = Remember(@, a)] ELSE r

DInstance(m, name) ==
    LET inner == [out |-> m.out \o <<"?", "$", name.id>>, zn |-> <<Id(name.id)>>, args |-> <<>>, targs |-> <<>>]
    IN  [m EXCEPT !.out = FoldLeft(DTemplateArg, inner, name.args).out \o <<"@">>]

DName(m, name) ==
    LET new == CASE name.k = "id" -> Emit(m, <<name.id>>)
                 [] name.k = "instance" -> DInstance(m, name)
                 [] name.k = "anonymous" -> Emit(m, <<"?", "A", name.id>>)
                 [] name.k = "block" -> DEntity(Emit(m, <<"?">> \o NumberCode(name.n) \o <<"?">>), name.of)
    IN  IF name \in ToSet(m.zn) THEN Emit(m, <<Digit(m.zn, name)>>)
        ELSE IF name.k = "block" THEN new
        ELSE [new EXCEPT !.zn = Remember(@, name)]

DArg(m, t) ==
    LET r == DType(m, t)
    IN  IF t \in ToSet(m.args) THEN Emit(m, <<Digit(m.args, t)>>)
        ELSE IF Len(r.out) - Len(m.out) > 1 THEN [r EXCEPT !.args = Remember(@, t)] ELSE r

DReturn(m, t) ==
    IF t.k = "none" THEN Emit(m, <<"@">>)
    ELSE IF t.k = "class" THEN DType(Emit(m, <<"?", CvCode(t.cv)>>), t) ELSE DType(m, t)

(* Return type, arguments and exception specification. *)
DFunction(m, f) ==
    LET r == DReturn(m, f.ret)
    IN  IF f.args = <<>> THEN Emit(r, <<"X", "Z">>) ELSE Emit(FoldLeft(DArg, r, f.args), <<"@", "Z">>)

DType(m, t) ==
    LET code == IF t.k = "ptr" THEN PointerCode(t.sign, t.cv) ELSE <<>>
    IN  CASE t.k = "basic" -> Emit(m, t.code)
          [] t.k = "class" -> DQualified(Emit(m, t.key), t.name)
          [] t.to.k = "func" -> DFunction(Emit(m, code \o <<"6", "A">>), t.to)
          [] t.to.k = "memfn" ->
                DFunction(Emit(DQualified(Emit(m, code \o <<"8">>), t.to.class), <<"E", CvCode(t.to.this), "A">>), t.to.f)
          [] t.to.k = "array" ->
                DTopType(Emit(m, code \o <<"E", "A", "Y">> \o NumberCode(Len(t.to.bounds))
                                   \o FlattenSeq([i \in DOMAIN t.to.bounds |-> NumberCode(t.to.bounds[i])])), t.to.of)
          [] t.to.k = "member" ->
                DType(DQualified(Emit(m, code \o <<"E", MemberCode(t.to.cv)>>), t.to.class), t.to.of)
          [] OTHER -> DType(Emit(m, code \o <<"E", CvCode(t.to.cv)>>), t.to)

(* The symbol: an identifier, an instance of a function template (which no
   back-reference repeats), a constructor, a destructor or an operator. *)
DSymbol(m, symbol) ==
    CASE symbol.k = "id" -> DName(m, symbol)
      [] symbol.k = "instance" -> DInstance(m, symbol)
      [] symbol.k = "operator" -> Emit(m, <<"?">> \o symbol.code)

DEntity(m, e) ==
    LET n == DQualified(DSymbol(Emit(m, <<"?">>), e.symbol), e.scope)
    IN  CASE e.k = "function" ->
                DFunction(Emit(n, e.code \o (IF e.instance THEN <<"E", CvCode(e.this)>> ELSE <<>>) \o <<"A">>), e)
          [] e.k = "variable" -> Emit(DType(Emit(n, e.code), e.type), <<CvCode(e.type.cv)>>)
          [] e.k = "vftable" -> Emit(FoldLeft(LAMBDA x, s : DQualified(x, s), Emit(n, <<"6", "B">>), e.for), <<"@">>)

Decorated(e) == DEntity([out |-> <<>>, zn |-> <<>>, args |-> <<>>, targs |-> <<>>], e).out

-----------------------------------------------------------------------------
(* The declaration in C++.  In a name alone (nameOnly), classes lack their keyword. *)

CvWords(cv) == (IF "const" \in cv THEN <<"const">> ELSE <<>>) \o (IF "volatile" \in cv THEN <<"volatile">> ELSE <<>>)
Separated(texts, separator) ==
    FlattenSeq([i \in DOMAIN texts |-> IF i = 1 THEN texts[i] ELSE <<separator>> \o texts[i]])

RECURSIVE CType(_, _, _), CName(_, _), CSymbol(_, _), CEntity(_)

CQualified(names, nameOnly) ==
    Separated(Reverse([i \in DOMAIN names |-> CName(names[i], nameOnly)]), "::")

CTopType(t, nameOnly) == CType(t, CvWords(t.cv), nameOnly)

CName(name, nameOnly) ==
    CASE name.k = "id" -> <<name.id>>
      [] name.k = "anonymous" -> <<"'anonymous namespace'">>
      [] name.k = "block" ->
            <<"'">> \o (IF nameOnly THEN CSymbol(name.of, TRUE) ELSE CEntity(name.of))
            \o <<"'", "::", "'", ToString(name.n), "'">>
      [] name.k = "instance" ->
            <<name.id, "<">> \o Separated([i \in DOMAIN name.args |->
                IF name.args[i].k = "type" THEN CTopType(name.args[i].t, nameOnly)
                ELSE LET n == name.args[i].n IN IF n < 0 THEN <<"-", ToString(-n)>> ELSE <<ToString(n)>>], ",")
            \o <<">">>

CArgs(args, nameOnly) ==
    <<"(">> \o (IF args = <<>> THEN <<"void">>
                ELSE Separated([i \in DOMAIN args |-> CTopType(args[i], nameOnly)], ",")) \o <<")">>

(* The type t around a declarator that is not empty, as what a function returns or the
   element of an array: the const of a pointer is left out. *)
CAround(t, d, nameOnly) ==
    CASE t.k = "none" -> d
      [] t.k = "ptr" -> CType(t, d, nameOnly)
      [] OTHER -> CType(t, CvWords(t.cv) \o d, nameOnly)

(* The type t around the declarator d. *)
CType(t, d, nameOnly) ==
    CASE t.k = "basic" -> t.words \o d
      [] t.k = "class" ->
            (IF nameOnly /\ Head(t.key) # "W" THEN <<>>
             ELSE << [V |-> "class", U |-> "struct", T |-> "union", W |-> "enum"][Head(t.key)] >>)
            \o CQualified(t.name, nameOnly) \o d
      [] t.to.k = "func" ->
            CAround(t.to.ret, <<"(", "__cdecl", t.sign>> \o d \o <<")">> \o CArgs(t.to.args, nameOnly), nameOnly)
      [] t.to.k = "memfn" ->
            CAround(t.to.f.ret, <<"(", "__cdecl">> \o CQualified(t.to.class, nameOnly) \o <<"::", t.sign>> \o d
                        \o <<")">> \o CArgs(t.to.f.args, nameOnly) \o CvWords(t.to.this) \o <<"__ptr64">>, nameOnly)
      [] t.to.k = "array" ->
            CAround(t.to.of, <<"(", t.sign, "__ptr64">> \o d \o <<")">>
                \o FlattenSeq([i \in DOMAIN t.to.bounds |-> <<"[", ToString(t.to.bounds[i]), "]">>]), nameOnly)
      [] t.to.k = "member" ->
            CType(t.to.of, CvWords(t.to.cv) \o CQualified(t.to.class, nameOnly) \o <<"::", t.sign, "__ptr64">> \o d, nameOnly)
      [] OTHER -> CType(t.to, CvWords(t.to.cv) \o <<t.sign, "__ptr64">> \o d, nameOnly)

CSymbol(e, nameOnly) ==
    LET s == e.symbol
        name == IF s.k = "operator" THEN s.words ELSE CName(s, nameOnly)
        type == IF s.k = "operator" /\ s.udc THEN CTopType(e.ret, nameOnly) ELSE <<>>
    IN  (IF e.scope = <<>> THEN <<>> ELSE CQualified(e.scope, nameOnly) \o <<"::">>) \o name \o type

CPrefix(e) ==
    (IF e.access = "" THEN <<>> ELSE <<e.access>>) \o (IF e.static THEN <<"static">> ELSE <<>>)
        \o (IF e.virtual THEN <<"virtual">> ELSE <<>>)

CEntity(e) ==
    CASE e.k = "function" ->
            LET d == <<"__cdecl">> \o CSymbol(e, FALSE) \o CArgs(e.args, FALSE)
                         \o (IF e.instance THEN CvWords(e.this) \o <<"__ptr64">> ELSE <<>>)
                udc == e.symbol.k = "operator" /\ e.symbol.udc
            IN  CPrefix(e) \o (IF udc THEN d ELSE CAround(e.ret, d, FALSE))
      [] e.k = "variable" -> CPrefix(e) \o CType(e.type, CvWords(e.type.cv) \o CSymbol(e, FALSE), FALSE)
      [] e.k = "vftable" ->
            <<"const">> \o CSymbol(e, FALSE)
            \o (IF e.for = <<>> THEN <<>>
                ELSE <<"{for">> \o Separated([i \in DOMAIN e.for |->
                        <<"'">> \o CQualified(e.for[i], FALSE) \o <<"'">>], "s") \o <<"}">>)

-----------------------------------------------------------------------------
(* The undecorated name is the declaration, whatever was undecorated before; with
   UNDNAME_NAME_ONLY it is the qualified name; and a mark for hybrid code can be
   inserted once, which does not change what the name says. *)
NameIsRight(e) ==
    LET name == Decorated(e)
        text == CEntity(e)
        Text(n, flags, stale) == getUndecoratedName(UnDecorator(n, flags, stale))
        hybrid == getCHPEName(UnDecorator(name, {}, FALSE))
        udc == e.symbol.k = "operator" /\ e.symbol.udc
    IN  /\ \A stale \in BOOLEAN : Text(name, {}, stale) = text
        /\ ~udc => Text(name, {"NAME_ONLY"}, FALSE) = CSymbol(e, TRUE)
        /\ IF e.k # "function" THEN hybrid = <<>>
           ELSE /\ hybrid # <<>> /\ Text(hybrid, {}, FALSE) = text
                /\ getCHPEName(UnDecorator(hybrid, {}, FALSE)) = <<>>
=============================================================================
