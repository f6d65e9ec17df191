------------------------------- MODULE Undname -------------------------------
(***************************************************************************)
(* Undecoration of names (undname.cxx): a recursive-descent parser whose   *)
(* cursor, back-reference tables and flags are static variables.  Each     *)
(* operator takes the parser's state and returns it with its result in     *)
(* out.                                                                    *)
(*                                                                         *)
(* A decorated name is a sequence of tokens: its characters, an identifier *)
(* together with its '@' as one token, and the code's own name for a code  *)
(* that undname.hxx, older than the parser, does not define.  A text is a  *)
(* sequence of words; spaces are left out.                                 *)
(***************************************************************************)
EXTENDS Integers, SequencesExt, TLC

CONSTANT Identifiers

AllCodes == << "0", "1", "2", "3", "4", "5", "6", "7", "8", "9",
    "A", "B", "C", "D", "E", "F", "G", "H", "I", "J", "K", "L", "M", "N", "O", "P", "Q", "R",
    "S", "T", "U", "V", "W", "X", "Y", "Z" >>

Ord == [c \in ToSet(AllCodes) |-> CHOOSE i \in DOMAIN AllCodes : AllCodes[i] = c]

Numerals == {AllCodes[i] : i \in 1 .. 10}
Letters == ToSet(AllCodes) \ Numerals
Letter(c) == Ord[c] - 11      \* 'A' is 0

-----------------------------------------------------------------------------
(* DName, and its operators of undname.inl: an invalid name swallows what is added. *)

D(words) == [txt |-> words, stat |-> "valid", is |-> {}]
Lit(word) == D(<<word>>)
NoName == D(<<>>)
Bad == [NoName EXCEPT !.stat = "invalid"]
Trunc == [Lit("??") EXCEPT !.stat = "truncated"]

IsEmpty(d) == d.txt = <<>> \/ d.stat = "invalid"
IsValid(d) == d.stat # "invalid"

l ++ r ==
    IF ~IsValid(l) \/ ~IsValid(r) THEN Bad
    ELSE IF l.txt = <<>> THEN r
    ELSE [l EXCEPT !.txt = @ \o r.txt, !.stat = IF r.stat = "truncated" THEN r.stat ELSE @]

(* d |= e: the status of e only. *)
Or(d, e) == IF IsValid(e) THEN d ELSE Bad

Mark(d, flags) == [d EXCEPT !.is = @ \cup flags]
Plain(d) == [d EXCEPT !.is = {}]

(* A declarator is written into its type after the type is read. *)
Declarator == Lit("HOLE")
Fill(d, x) == [d EXCEPT !.txt = FlattenSeq([k \in DOMAIN @ |->
                                    IF @[k] = "HOLE" THEN x.txt ELSE <<@[k]>>])]

-----------------------------------------------------------------------------
(* The parser's static variables.  fGetTemplateArgumentList is the one that the
   constructor does not set. *)

UnDecorator(name, disableFlags, fGetTemplateArgumentList) ==
    [in |-> name, at |-> 1, zn |-> <<>>, args |-> <<>>, targs |-> <<>>, off |-> disableFlags,
     explicit |-> FALSE, inlist |-> fGetTemplateArgumentList, chpe |-> 0, level |-> 0,
     te |-> <<>>, out |-> NoName]

Peek(s, k) == IF s.at + k \in DOMAIN s.in THEN s.in[s.at + k] ELSE "NUL"
Here(s) == Peek(s, 0)
Adv(s, n) == [s EXCEPT !.at = Min({@ + n, Len(s.in) + 1})]
Out(s, d) == [s EXCEPT !.out = d]
Do(s, flag) == flag \notin s.off

(* What was read last between two texts, and after what was read before it. *)
Between(a, s, b) == Out(s, D(a) ++ s.out ++ D(b))
After(before, s) == Out(s, before.out ++ s.out)

(* Replicator: at most ten names, and never an empty one. *)
Recorded(list, d) == IF Len(list) < 10 /\ ~IsEmpty(d) THEN Append(list, d) ELSE list
Nth(list, numeral) == IF Ord[numeral] \in DOMAIN list THEN list[Ord[numeral]] ELSE Bad

RECURSIVE getDecoratedName(_), getZName(_, _, _), getOperatorName(_, _), getScope(_),
    getTemplateName(_, _), getTemplateArgumentList(_), getTemplateNonTypeArgument(_),
    getTemplateTypeArgument(_), getValueObject(_), getDataType(_, _), getPrimaryDataType(_, _),
    getBasicDataType(_, _), getTypeEncoding(_), composeDeclaration(_, _),
    getDataIndirectType(_, _, _, _, _)

-----------------------------------------------------------------------------
(* Numbers.  Values keep three hexadecimal digits instead of sixteen. *)

Values == 16 ^ 3

RECURSIVE Value(_, _)
Value(s, v) ==
    IF Here(s) \in Letters /\ Letter(Here(s)) < 16
    THEN Value(Adv(s, 1), (16 * v + Letter(Here(s))) % Values)
    ELSE [s |-> s, ok |-> Here(s) = "@", v |-> v]

getValue(s) == Value(s, 0)

SignedValue(v) == IF v >= Values \div 2 THEN v - Values ELSE v

Dimension(s, signed) ==
    LET dummy == Here(s) = "Q"
        from == IF dummy THEN Adv(s, 1) ELSE s
        prefix == IF dummy THEN Lit("'non-type-template-parameter") ELSE NoName
        r == getValue(from)
    IN  IF Here(from) \in Numerals THEN Out(Adv(from, 1), prefix ++ Lit(ToString(Ord[Here(from)])))
        ELSE IF r.ok
        THEN Out(Adv(r.s, 1), prefix ++ Lit(ToString(IF signed THEN SignedValue(r.v) ELSE r.v)))
        ELSE Out(r.s, IF Here(r.s) = "NUL" THEN Trunc ELSE Bad)

getDimension(s) == Dimension(s, FALSE)
getDisplacement(s) == Dimension(s, TRUE)

getSignedDimension(s) ==
    IF Here(s) = "?" THEN Between(<<"-">>, getDimension(Adv(s, 1)), <<>>) ELSE getDimension(s)

(* A floating-point value is its bits, or one of the numbers 1 to 10. *)
getFloatingPoint(s, type) ==
    LET r == getValue(s)
    IN  IF Here(s) \in Numerals THEN Out(Adv(s, 1), Lit(ToString(Ord[Here(s)])))
        ELSE IF r.ok THEN Out(Adv(r.s, 1), D(<<type, ToString(r.v)>>))
        ELSE Out(r.s, IF Here(r.s) = "NUL" THEN Trunc ELSE Bad)

(* The number of dimensions of an array; 0 or less if there is none. *)
getNumberOfDimensions(s) ==
    LET r == getValue(s)
    IN  IF Here(s) \in Numerals THEN [s |-> Adv(s, 1), n |-> Ord[Here(s)]]
        ELSE IF r.ok THEN [s |-> Adv(r.s, 1), n |-> r.v]
        ELSE [s |-> r.s, n |-> 0]

-----------------------------------------------------------------------------
(* Names of operators and of what only the compiler writes. *)

nameTable == << "new", "delete", "=", ">>", "<<", "!", "==", "!=", "[]", "operator", "->", "*",
    "++", "--", "-", "+", "&", "->*", "/", "%", "<", "<=", ">", ">=", ",", "()", "~", "^", "|",
    "&&", "||", "*=", "+=", "-=", "/=", "%=", ">>=", "<<=", "&=", "|=", "^=", "'vftable'",
    "'vbtable'", "'vcall'", "'typeof'", "'local static guard'", "'string'", "'vbase destructor'",
    "'vector deleting destructor'", "'default constructor closure'",
    "'scalar deleting destructor'", "'vector constructor iterator'",
    "'vector destructor iterator'", "'vector vbase constructor iterator'",
    "'virtual displacement map'", "'eh vector constructor iterator'",
    "'eh vector destructor iterator'", "'eh vector vbase constructor iterator'",
    "'copy constructor closure'", "'udt returning'", "'EH", "'RTTI", "'local vftable'",
    "'local vftable constructor closure'", "new[]", "delete[]", "'omni callsig'",
    "'placement delete closure'", "'placement delete[] closure'",
    "'managed vector constructor iterator'", "'managed vector destructor iterator'",
    "'eh vector copy constructor iterator'", "'eh vector vbase copy constructor iterator'",
    "'dynamic initializer for '", "'dynamic atexit destructor for '",
    "'vector copy constructor iterator'", "'vector vbase copy constructor iterator'",
    "'managed vector copy constructor iterator'", "'local static thread guard'",
    "operator \"\"", "operator co_await", "operator<=>" >>

rttiTable == << "Type Descriptor'", "Base Class Descriptor at (", "Base Class Array'",
    "Class Hierarchy Descriptor'", "Complete Object Locator'" >>

(* The table's names by their codes: '2' to 'Z', then those after '_' and after '__'. *)
FirstName(c) == Lit(nameTable[Ord[c] - 2])
SecondName(c) == Lit(nameTable[Ord[c] + 34])
ThirdName(c) == Lit(nameTable[Ord[c] + 59])

(* String literals and anonymous namespaces: the text is a checksum, which is skipped. *)
RECURSIVE ToEndOfString(_)
ToEndOfString(s) == IF Here(s) \in {"NUL", "@"} THEN s ELSE ToEndOfString(Adv(s, 1))

getStringEncoding(s, prefix) ==
    LET e == ToEndOfString(getDimension(getDimension(Adv(s, 3))))
    IN  IF Here(s) # "@" \/ Peek(s, 1) # "_" THEN Out(Adv(s, 1), Bad)
        ELSE IF Peek(s, 2) = "NUL" \/ Here(e) = "NUL" THEN Out(e, Trunc)
        ELSE Out(Adv(e, 1), Lit(prefix))

(* A constructor is named like its class, which is read without moving on. *)
ConstructorName(s, fIsTemplate) ==
    LET list == IF fIsTemplate THEN Between(<<"<">>, getTemplateArgumentList(s), <<">">>)
                ELSE Out(s, NoName)
        at == IF fIsTemplate THEN Adv(list, 1) ELSE list
        class == getZName(at, FALSE, FALSE).out
        tilde == IF ~IsEmpty(class) /\ Peek(at, -1) = "1" THEN Lit("~") ELSE NoName
    IN  IF fIsTemplate /\ Here(list) = "NUL" THEN list
        ELSE Out(at, tilde ++ class ++ list.out)

(* RTTI data. *)
RttiName(s) ==
    LET c == Here(s)
        s1 == Adv(s, 1)
        name == Lit("'RTTI") ++ Lit(rttiTable[Ord[c]])
        type == getDataType(s1, NoName)
        mdisp == getSignedDimension(s1)
        pdisp == getSignedDimension(mdisp)
        vdisp == getSignedDimension(pdisp)
        attributes == getDimension(vdisp)
        comma == Lit(",")
    IN  CASE c = "NUL" -> Out(s, Lit("'RTTI") ++ Trunc)
          [] c = "0" -> Out(type, type.out ++ name)
          [] c = "1" -> Out(attributes, name ++ mdisp.out ++ comma ++ pdisp.out ++ comma
                                ++ vdisp.out ++ comma ++ attributes.out ++ D(<<")", "'">>))
          [] c \in {"2", "3", "4"} -> Out(s1, name)
          [] OTHER -> Out(s, Bad)

(* The initializer or destructor of a static: of a member with its declaration, or of a
   name. *)
InitializerName(s, name) ==
    LET d == IF Here(s) = "?" THEN getDecoratedName(s) ELSE getZName(s, TRUE, FALSE)
    IN  Out(IF Here(s) = "?" /\ Here(d) = "@" THEN Adv(d, 1) ELSE d, name ++ d.out ++ Lit("''"))

(* A user-defined literal: the rest up to the '@' is its suffix. *)
LiteralOperator(s) ==
    LET suffix == IF Here(s) \in {"NUL", "@"} THEN NoName ELSE Lit(Here(s))
    IN  Out(Adv(s, 1), ThirdName("K") ++ suffix)

(* After "__". *)
UnderscoreUnderscore(s) ==
    LET c == Here(s)
        s1 == Adv(s, 1)
    IN  CASE c \in {"A", "B", "C", "D", "G", "H", "I", "J", "L", "M"} -> Out(s1, ThirdName(c))
          [] c \in {"E", "F"} -> InitializerName(s1, ThirdName(c))
          [] c = "K" -> LiteralOperator(s1)
          [] c = "OC_NTTP_class_type" /\ Here(s1) = "TC_value_object" -> getValueObject(Adv(s1, 1))
          [] OTHER -> Out(s1, Bad)

Operator(s, name) == Out(s, Lit("operator") ++ name)

(* After "_". *)
Underscore(s) ==
    LET c == Here(s)
        s1 == Adv(s, 1)
    IN  CASE c = "NUL" -> Out(s, Trunc)
          [] c \in {"0", "1", "2", "3", "4", "5", "6", "U", "V"} -> Operator(s1, SecondName(c))
          [] c = "9" -> Out(s1, Mark(SecondName(c), {"vcall"}))
          [] c = "C" -> LET r == getStringEncoding(s1, "'string'") IN Out(r, Mark(r.out, {"noTE"}))
          [] c = "P" -> After(Out(s1, SecondName(c)), getOperatorName(s1, FALSE))
          [] c = "Q" -> Out(s1, NoName)
          [] c = "R" -> RttiName(s1)
          [] c = "?" -> IF Here(s1) = "0"
                        THEN LET r == getStringEncoding(Adv(s1, 1), "'anonymous namespace'")
                             IN  Out(r, Mark(r.out, {"noTE"}))
                        ELSE Out(Adv(s1, 1), IF Here(s1) = "NUL" THEN Trunc ELSE Bad)
          [] c = "_" -> UnderscoreUnderscore(s1)
          [] c \in {"7", "8"} \cup (Letters \ {"W", "Z"}) -> Out(s1, SecondName(c))
          [] OTHER -> Out(s1, Bad)

getOperatorName(s, fIsTemplate) ==
    LET c == Here(s)
        s1 == Adv(s, 1)
    IN  CASE c = "NUL" -> Out(s, Trunc)
          [] c \in {"0", "1"} -> ConstructorName(s1, fIsTemplate)
          [] c = "B" -> Out(s1, Mark(FirstName(c), {"udc"}))
          [] c = "_" -> Underscore(s1)
          [] c \in DOMAIN Ord \ {"0", "1", "B"} -> Operator(s1, FirstName(c))
          [] OTHER -> Out(s1, Bad)

-----------------------------------------------------------------------------
(* Names and scopes. *)

(* The name of a template instance has tables of its own, and is one name outside. *)
getTemplateName(s, fReadTerminator) ==
    LET inner == [Adv(s, 2) EXCEPT !.zn = <<>>, !.args = <<>>, !.targs = <<>>]
        operator == Here(inner) = "?"
        name == IF operator THEN getOperatorName(Adv(inner, 1), TRUE) ELSE getZName(inner, TRUE, TRUE)
        explicit == IF IsEmpty(name.out) THEN [name EXCEPT !.explicit = TRUE] ELSE name
        list == Between(<<"<">>, getTemplateArgumentList(explicit), <<">">>)
        end == IF operator /\ Peek(inner, 1) \in {"0", "1"} THEN explicit
               ELSE LET e == After(name, list) IN IF fReadTerminator THEN Adv(e, 1) ELSE e
    IN  IF Here(s) # "?" \/ Peek(s, 1) # "$" THEN Out(s, Bad)
        ELSE [end EXCEPT !.zn = s.zn, !.args = s.args, !.targs = s.targs]

(* The name that starts here, and whether it is empty in a place that allows it. *)
ZName(s, fAllowEmptyName) ==
    LET c == Here(s)
        template == getTemplateName(s, FALSE)
        quoted == "'" \o c
    IN  CASE c = "?" -> IF Here(template) = "@" THEN Adv(template, 1)
                        ELSE Out(template, IF Here(template) = "NUL" THEN Trunc ELSE Bad)
          [] c \in {"template-parameter-", "generic-type-"} ->
                Between(<<quoted>>, getSignedDimension(Adv(s, 1)), <<"'">>)
          [] c = "@" /\ fAllowEmptyName -> Out(Adv(s, 1), NoName)
          [] c \in Identifiers -> Out(Adv(s, 1), Lit(c))
          [] OTHER -> Out(s, IF c = "NUL" THEN Trunc ELSE Bad)

getZName(s, fUpdateCachedNames, fAllowEmptyName) ==
    IF Here(s) \in Numerals THEN Out(Adv(s, 1), Nth(s.zn, Here(s)))
    ELSE LET r == ZName(s, fAllowEmptyName)
         IN  IF fUpdateCachedNames THEN [r EXCEPT !.zn = Recorded(@, r.out)] ELSE r

getSymbolName(s) ==
    IF Here(s) # "?" THEN getZName(s, TRUE, FALSE)
    ELSE IF Peek(s, 1) = "$" THEN getTemplateName(s, TRUE)
    ELSE getOperatorName(Adv(s, 1), FALSE)

(* The scopes of an explicit implementation of an interface member. *)
RECURSIVE ExplicitScopes(_, _)
ExplicitScopes(s, explicit) ==
    LET name == getZName(s, TRUE, FALSE)
        all == IF name.out.stat # "valid" THEN Bad
               ELSE IF IsEmpty(explicit) THEN name.out ELSE name.out ++ Lit("::") ++ explicit
    IN  IF all.stat = "valid" /\ Here(name) # "@" THEN ExplicitScopes(name, all) ELSE Out(name, all)

(* One scope in front of those read before it.  The name that is recorded for an
   anonymous namespace is the identifier as it is spelled. *)
ScopeIn(s, scope) ==
    LET q == Adv(s, 1)
        Before(r) == Out(r, r.out ++ scope)
        operator == getOperatorName(Adv(q, 1), FALSE)
        interface == Before(Between(<<>>, getZName(Adv(q, 1), TRUE, FALSE), <<"]">>))
        explicit == ExplicitScopes(Adv(q, 1), NoName)
    IN  CASE Here(s) # "?" -> Before(getZName(s, TRUE, FALSE))
          [] Here(q) = "?" /\ Peek(q, 1) = "_" /\ Peek(q, 2) = "?" ->
                LET r == Before(operator) IN IF Here(r) = "@" THEN Adv(r, 1) ELSE r
          [] Here(q) = "?" -> Before(Between(<<"'">>, getDecoratedName(q), <<"'">>))
          [] Here(q) = "$" -> Before(getZName(s, TRUE, FALSE))
          [] Here(q) \in {"A", "%"} ->
                [Out(Adv(q, 2), Lit("'anonymous namespace'") ++ scope) EXCEPT
                    !.zn = Recorded(@, Lit(Here(q) \o Peek(q, 1)))]
          [] Here(q) = "I" -> interface
          [] Here(q) = "Q" -> IF explicit.out.stat = "valid" THEN Between(<<"[">>, Adv(explicit, 1), <<"]">>)
                              ELSE Out(explicit, Bad)
          [] OTHER -> Before(Between(<<"'">>, getDimension(q), <<"'">>))

RECURSIVE Scopes(_, _, _)
Scopes(s, scope, fNeedBracket) ==
    LET bracket == IF fNeedBracket THEN Lit("[") ELSE NoName
        below == IF IsEmpty(scope) THEN NoName ELSE bracket ++ Lit("::") ++ scope
        r == ScopeIn(s, below)
        again == fNeedBracket /\ IsEmpty(scope)
    IN  CASE scope.stat # "valid" \/ Here(s) \in {"NUL", "@"} ->
                Out(s, IF Here(s) = "@" THEN scope
                       ELSE IF Here(s) # "NUL" THEN Bad
                       ELSE IF IsEmpty(scope) THEN Trunc ELSE Trunc ++ Lit("::") ++ scope)
          [] s.explicit /\ ~s.inlist -> Out(s, scope)
          [] OTHER -> Scopes(r, r.out, again \/ (Here(s) = "?" /\ Peek(s, 1) = "I"))

getScope(s) == Scopes(s, NoName, FALSE)

getScopedName(s) ==
    LET name == getZName(s, TRUE, FALSE)
        inner == Here(name) \notin {"NUL", "@"} /\ name.out.stat = "valid"
        scope == IF inner THEN getScope(name) ELSE name
        full == IF inner THEN scope.out ++ Lit("::") ++ name.out ELSE name.out
    IN  CASE Here(scope) = "@" -> Out(Adv(scope, 1), full)
          [] Here(scope) # "NUL" -> Out(scope, Bad)
          [] OTHER -> Out(scope, IF IsEmpty(full) THEN Trunc ELSE Trunc ++ Lit("::") ++ full)

-----------------------------------------------------------------------------
(* Template arguments. *)

Extended(s, codes) == Here(s) = "$" /\ Peek(s, 1) = "$" /\ Peek(s, 2) \in codes

(* Packs that are empty take no part in the list. *)
SkippedPack(s) ==
    IF Extended(s, {"PDT_empty", "PDT_terminator"}) THEN 3
    ELSE IF Extended(s, {"$"}) /\ Peek(s, 3) = "PDT_empty" THEN 4 ELSE 0

TemplateArgument(s) ==
    LET pack == Extended(s, {"PDT_packExpansion", "PDT_placeHolder"})
        from == IF pack THEN Adv(s, 3) ELSE s
        r == IF Here(from) = "$" /\ Peek(from, 1) # "$" THEN getTemplateNonTypeArgument(Adv(from, 1))
             ELSE getTemplateTypeArgument(from)
    IN  IF Here(s) \in Numerals THEN Out(Adv(s, 1), Nth(s.targs, Here(s)))
        ELSE IF r.at - s.at > 1 THEN [r EXCEPT !.targs = Recorded(@, r.out)] ELSE r

RECURSIVE TemplateArguments(_, _, _)
TemplateArguments(s, aList, first) ==
    LET arg == TemplateArgument(s)
        comma == IF first THEN NoName ELSE Lit(",")
        dots == IF Extended(s, {"PDT_packExpansion"}) THEN Lit("...") ELSE NoName
    IN  IF aList.stat # "valid" \/ Here(s) \in {"NUL", "@"}
        THEN [Out(s, aList) EXCEPT !.inlist = FALSE]
        ELSE IF SkippedPack(s) > 0 THEN TemplateArguments(Adv(s, SkippedPack(s)), aList, FALSE)
        ELSE IF ~IsValid(arg.out) THEN Out(arg, Bad)
        ELSE IF IsEmpty(arg.out) THEN TemplateArguments(arg, aList, FALSE)
        ELSE TemplateArguments(arg, aList ++ comma ++ arg.out ++ dots, FALSE)

getTemplateArgumentList(s) == TemplateArguments([s EXCEPT !.inlist = TRUE], NoName, TRUE)

(* A text that has to end with '@'. *)
Ended(s, ending) == IF Here(s) = "@" THEN Out(Adv(s, 1), s.out ++ D(ending)) ELSE Out(s, Bad)

(* An array's elements end with an '@' each, and one more at the end. *)
RECURSIVE ArrayElements(_, _)
ArrayElements(s, encoding) ==
    LET e == getTemplateNonTypeArgument(s)
        all == encoding ++ e.out
    IN  IF Here(e) # "@" THEN Out(e, Bad)
        ELSE IF Peek(e, 1) = "@" THEN Out(Adv(e, 2), all ++ Lit("}"))
        ELSE ArrayElements(Adv(e, 1), all ++ Lit(","))

getArrayObject(s) ==
    LET type == getTemplateTypeArgument(s)
    IN  IF Here(s) = "NUL" THEN Out(s, Trunc) ELSE ArrayElements(type, type.out ++ Lit("{"))

getStringObject(s) ==
    CASE Here(s) = "NUL" -> Out(s, Trunc)
      [] <<Here(s), Peek(s, 1), Peek(s, 2), Peek(s, 3)>> = <<"?", "?", "_", "C">> ->
            getStringEncoding(Adv(s, 4), "'string'")
      [] OTHER -> Out(s, Bad)

(* Objects of class type: "type{type:value,...}". *)
ValueElement(s) ==
    LET type == getTemplateTypeArgument(s)
        value == getTemplateNonTypeArgument(type)
    IN  CASE Here(s) = "TC_value_object" -> getValueObject(Adv(s, 1))
          [] Here(s) = "TC_array_object" -> getArrayObject(Adv(s, 1))
          [] Here(s) = "TC_string_object" -> getStringObject(Adv(s, 1))
          [] Here(s) = "@" -> Out(s, NoName)
          [] OTHER -> Out(value, type.out ++ Lit(":") ++ value.out)

RECURSIVE ObjectElements(_, _)
ObjectElements(s, encoding) ==
    LET e == ValueElement(s)
        all == encoding ++ e.out
    IN  IF ~IsValid(all) THEN Out(e, Bad)
        ELSE IF Here(e) = "@" THEN Out(Adv(e, 1), all ++ Lit("}"))
        ELSE ObjectElements(e, all ++ Lit(","))

getValueObject(s) ==
    LET type == getTemplateTypeArgument(s)
    IN  CASE Here(s) = "NUL" -> Out(s, Trunc)
          [] ~IsValid(type.out) -> Out(type, Bad)
          [] OTHER -> ObjectElements(type, type.out ++ Lit("{"))

getUnionObject(s) ==
    LET type == getTemplateTypeArgument(s)
        member == getZName(type, FALSE, FALSE)
        value == getTemplateNonTypeArgument(member)
    IN  CASE Here(s) = "NUL" -> Out(s, Trunc)
          [] Here(type) = "@" -> Ended(Out(type, type.out ++ Lit("{")), <<"}">>)
          [] OTHER -> Ended(Out(value, type.out ++ Lit("{") ++ member.out ++ Lit(":") ++ value.out), <<"}">>)

(* Subobjects: "&value", "value.member", "value[value]", "&scope::member". *)
getAddressOf(s) ==
    IF Here(s) = "NUL" THEN Out(s, Trunc)
    ELSE Ended(Between(<<"&">>, getTemplateNonTypeArgument(s), <<>>), <<>>)

getMemberAccess(s) ==
    LET object == getTemplateNonTypeArgument(s)
    IN  IF Here(s) = "NUL" THEN Out(s, Trunc)
        ELSE Ended(After(Between(<<>>, object, <<".">>), getZName(object, FALSE, FALSE)), <<>>)

getArrayAccess(s) ==
    LET array == getTemplateNonTypeArgument(s)
    IN  IF Here(s) = "NUL" THEN Out(s, Trunc)
        ELSE Ended(After(Between(<<>>, array, <<"[">>), getTemplateNonTypeArgument(array)), <<"]">>)

getPointerToMember(s) ==
    LET scope == getScope(s)
        member == getZName(Adv(scope, 1), FALSE, FALSE)
    IN  CASE Here(s) = "NUL" -> Out(s, Trunc)
          [] ~IsValid(scope.out) \/ Here(scope) # "@" -> Out(scope, Bad)
          [] OTHER -> Ended(After(Between(<<"&">>, scope, <<"::">>), member), <<>>)

(* Pointers to members as they are stored: a function and up to three offsets. *)
RECURSIVE Offsets(_, _)
Offsets(s, n) ==
    LET d == getSignedDimension(s)
    IN  IF n = 1 THEN d ELSE After(Between(<<>>, d, <<",">>), Offsets(d, n - 1))

StoredMemberPointer(s, category) ==
    LET function == category \in {"H", "I", "J"}
        f == IF function THEN Between(<<>>, getDecoratedName(s), <<",">>) ELSE Out(s, NoName)
        n == CASE category = "H" -> 1 [] category \in {"F", "I"} -> 2 [] OTHER -> 3
    IN  Between(<<"{">>, After(f, Offsets(f, n)), <<"}">>)

ParameterKinds == [TC_template_type_parameter |-> "'template-type-parameter-",
    TC_template_type_parameter_pack |-> "'template-type-parameter-",
    TC_generic_class_parameter |-> "'generic-class-parameter-",
    TC_generic_method_parameter |-> "'generic-method-parameter-"]

getTemplateNonTypeArgument(s) ==
    LET c == Here(s)
        s1 == Adv(s, 1)
        type == getTemplateTypeArgument(s1)
    IN  CASE c = "0" -> getSignedDimension(s1)
          [] c = "1" -> IF Here(s1) = "@" THEN Out(Adv(s1, 1), Lit("NULL"))
                        ELSE Between(<<"&">>, getDecoratedName(s1), <<>>)
          [] c = "E" -> getDecoratedName(s1)
          [] c \in {"F", "G", "H", "I", "J"} -> StoredMemberPointer(s1, c)
          [] c = "TC_empty" -> Out(s1, NoName)
          [] c \in DOMAIN ParameterKinds ->
                Between(<<ParameterKinds[c]>>, getSignedDimension(s1), <<"'">>)
          [] c = "TC_auto" -> IF IsValid(type.out) THEN getTemplateNonTypeArgument(type)
                              ELSE Out(type, Bad)
          [] c \in {"TC_float", "TC_double"} -> getFloatingPoint(s1, c)
          [] c = "TC_value_object" -> getValueObject(s1)
          [] c = "TC_string_object" -> getStringObject(s1)
          [] c = "TC_address_of" -> getAddressOf(s1)
          [] c = "TC_member_access" -> getMemberAccess(s1)
          [] c = "TC_union_object" -> getUnionObject(s1)
          [] c = "TC_pointer_to_member" -> getPointerToMember(s1)
          [] c = "TC_array_access" -> getArrayAccess(s1)
          [] c = "TC_null_pointer_to_member" -> Out(s1, Lit("nullptr"))
          [] c = "TC_lambda" -> Out(getDimension(s1), Lit("lambda"))
          [] OTHER -> Out(s1, IF c = "NUL" THEN Trunc ELSE Bad)

getTemplateTypeArgument(s) ==
    CASE Here(s) = "X" -> Out(Adv(s, 1), Lit("void"))
      [] Here(s) = "?" -> Between(<<"'template-parameter">>, getSignedDimension(s), <<"'">>)
      [] OTHER -> getPrimaryDataType(s, NoName)

-----------------------------------------------------------------------------
(* Types.  The type is read from the outside to the inside: superType is what has been
   read of the declarator. *)

(* A list of types, and an ellipsis. *)
(* Mutant: a type of one character is recorded too. *)
Argument_RecordsAll(s) ==
    LET r == getPrimaryDataType(s, NoName)
    IN  IF Here(s) \in Numerals THEN Out(Adv(s, 1), Nth(s.args, Here(s)))
        ELSE [r EXCEPT !.args = Recorded(@, r.out)]

Argument(s) ==
    LET r == getPrimaryDataType(s, NoName)
    IN  IF Here(s) \in Numerals THEN Out(Adv(s, 1), Nth(s.args, Here(s)))
        ELSE IF r.at = s.at THEN Out(r, Bad)
        ELSE IF r.at - s.at > 1 THEN [r EXCEPT !.args = Recorded(@, r.out)] ELSE r

RECURSIVE Arguments(_, _, _)
Arguments(s, aList, first) ==
    LET comma == IF first THEN NoName ELSE Lit(",")
        arg == Argument(s)
    IN  IF aList.stat # "valid" \/ Here(s) \in {"@", "Z"} THEN Out(s, aList)
        ELSE IF Here(s) = "NUL" THEN Out(s, aList ++ comma ++ Trunc)
        ELSE Arguments(arg, aList ++ comma ++ arg.out, FALSE)

getArgumentList(s) == Arguments(s, NoName, TRUE)

Ellipsis(s) == Lit(IF Do(s, "NO_ELLIPSIS") THEN "..." ELSE "<ellipsis>")

getArgumentTypes(s) ==
    LET list == getArgumentList(s)
    IN  CASE Here(s) = "Z" -> Out(Adv(s, 1), Ellipsis(s))
          [] Here(s) = "X" -> Out(Adv(s, 1), Lit("void"))
          [] list.out.stat # "valid" \/ Here(list) = "NUL" -> list
          [] Here(list) = "Z" -> Out(Adv(list, 1), list.out ++ Lit(",") ++ Ellipsis(s))
          [] Here(list) = "@" -> Adv(list, 1)
          [] OTHER -> Out(list, Bad)

getNoexcept(s) ==
    IF Here(s) = "_" /\ Peek(s, 1) = "FT_noexcept" THEN Out(Adv(s, 2), Lit("noexcept")) ELSE Out(s, NoName)

getThrowTypes(s) == Out(IF Here(s) = "Z" THEN Adv(s, 1) ELSE s, NoName)

Conventions == << "__cdecl", "__pascal", "__thiscall", "__stdcall", "__fastcall", "__interrupt",
                  "__clrcall" >>
NamedConventions == [CC_eabi |-> "__eabi", CC_vectorcall |-> "__vectorcall",
    CC_swift_1 |-> "__swift_1", CC_swift_2 |-> "__swift_2", CC_swift_3 |-> "__swift_3"]

(* Two codes for each convention: the second saves registers, which 32 bits do not. *)
getCallingConvention(s) ==
    LET c == Here(s)
        index == Letter(c) \div 2 + 1
        name == IF c \in DOMAIN NamedConventions THEN Lit(NamedConventions[c])
                ELSE IF c \in Letters /\ index \in DOMAIN Conventions \ {6} THEN Lit(Conventions[index])
                ELSE Bad
    IN  IF c = "NUL" THEN Out(s, Trunc) ELSE Out(Adv(s, 1), name)

getBasedType(s) ==
    LET c == Here(s)
        s1 == Adv(s, 1)
    IN  CASE c = "0" -> Out(s1, D(<<"__based(", "void", ")">>))
          [] c = "2" -> Between(<<"__based(">>, getScopedName(s1), <<")">>)
          [] c = "5" -> Out(s1, Bad)
          [] OTHER -> Out(s1, IF c = "NUL" THEN Lit("__based(") ++ Trunc ++ Lit(")")
                              ELSE D(<<"__based(", ")">>))

(* Printed, or read over. *)
Shown(shown, s) == IF shown THEN s ELSE Out(s, Or(NoName, s.out))

(* The mark of a managed array or pointer; m is what the marks say so far. *)
ExtendedIndirection(s, m, thisFlag) ==
    LET s1 == Adv(s, 1)
        c == Here(s1)
        rank == 16 * (Ord[c] - 1) + Ord[Peek(s1, 1)] - 1
        commas == IF rank > 1 THEN D(<<",", ToString(rank)>>) ELSE NoName
        s3 == Adv(s1, 2)
        handle == IF Here(s3) = "$" THEN D(<<">">>) ELSE D(<<">", "^">>)
        s4 == IF Here(s3) = "$" THEN Adv(s3, 1) ELSE s3
        end == IF Here(s4) = "NUL" THEN Trunc ELSE NoName
        kind == IF m.kind \in {"&", "&&"} THEN "%" ELSE IF m.kind = "*" THEN "^" ELSE m.kind
    IN  CASE c = "DIT_GCPointer" -> [m EXCEPT !.s = Adv(s1, 1), !.kind = IF thisFlag THEN @ ELSE kind]
          [] c = "DIT_PinPointer" -> IF thisFlag THEN [m EXCEPT !.s = s1]
                                     ELSE [m EXCEPT !.s = Adv(s1, 1), !.pin = TRUE]
          [] c = "DIT_InteriorPointer" -> [m EXCEPT !.s = Adv(s1, 1), !.kind = "%"]
          [] c = "NUL" \/ Peek(s1, 1) = "NUL" -> [m EXCEPT !.s = s1, !.result = Trunc]
          [] thisFlag -> [m EXCEPT !.s = s1]
          [] OTHER -> [m EXCEPT !.s = Adv(s4, 1), !.result = Mark(commas ++ handle ++ end, {"comarray"})]

(* The marks in front of the code of an indirection. *)
RECURSIVE Modifiers(_, _)
Modifiers(m0, thisFlag) ==
    LET m == IF Here(m0.s) = "$" THEN ExtendedIndirection(m0.s, m0, thisFlag) ELSE m0
        c == Here(m.s)
        next == [m EXCEPT !.s = Adv(@, 1)]
        shown == Do(m.s, "NO_MS_KEYWORDS")
        again == CASE c = "E" -> IF shown /\ Do(m.s, "NO_PTR64")
                                 THEN [next EXCEPT !.post = @ ++ Lit("__ptr64")] ELSE next
                   [] c = "F" -> IF shown THEN [next EXCEPT !.pre = @ ++ Lit("__unaligned")] ELSE next
                   [] c = "I" -> IF shown THEN [next EXCEPT !.post = @ ++ Lit("__restrict")] ELSE next
                   [] c = "DIT_lref" -> [next EXCEPT !.refs = @ \cup {"&"}]
                   [] c = "DIT_rref" -> [next EXCEPT !.refs = @ \cup {"&&"}]
                   [] OTHER -> m
    IN  CASE ~IsEmpty(m.result) -> m
          [] c \notin {"E", "F", "I", "DIT_lref", "DIT_rref"} -> m
          [] c \in {"DIT_lref", "DIT_rref"} /\ ~thisFlag -> [m EXCEPT !.invalid = TRUE]
          [] Here(again.s) = "NUL" -> [again EXCEPT !.result = Trunc]
          [] OTHER -> Modifiers(again, thisFlag)

(* The rest of the declarator inside of an indirection. *)
Declared(cvType, superType) ==
    IF IsEmpty(superType) THEN cvType
    ELSE IF "ptrref" \in superType.is \/ IsEmpty(cvType) THEN Plain(superType)
    ELSE cvType ++ superType

DataIndirectCode(c) ==
    IF c \in Letters THEN Letter(c) ELSE IF c \in Numerals THEN 25 + Ord[c] ELSE 99  \* no code

(* The class of a pointer to member, which a name without indirection only reads over. *)
MemberScope(s, type, kind) ==
    LET scope == getScope(s)
        full == IF kind = "" THEN Or(type, scope.out) ELSE scope.out ++ Lit("::") ++ type
    IN  IF Here(s) = "NUL" THEN Out(s, IF kind = "" THEN type ++ Trunc ELSE Trunc ++ type ++ Trunc)
        ELSE Out(Adv(scope, 1), IF Here(scope) = "@" THEN full
                                ELSE IF Here(scope) = "NUL" THEN full ++ Trunc ELSE Bad)

(* getDataIndirectType: the code of an indirection with its marks; flags of the code are
   const (1), volatile (2), the memory model (12, based) and member (16). *)
getDataIndirectType(s, superType, kind, cvType, thisFlag) ==
    LET rest == IF thisFlag THEN NoName ELSE Declared(cvType, superType)
        m == Modifiers([s |-> s, kind |-> kind, pin |-> FALSE, pre |-> NoName, post |-> NoName,
                        refs |-> {}, result |-> NoName, invalid |-> FALSE], thisFlag)
        code == DataIndirectCode(Here(m.s))
        s1 == Adv(m.s, 1)
        sign == m.pre ++ (IF m.kind = "" THEN NoName ELSE Lit(m.kind)) ++ m.post
        member == code \div 16 = 1
        scoped == IF member THEN MemberScope(s1, sign, m.kind) ELSE Out(s1, sign)
        based == code \div 4 \in {3, 7}
        base == IF ~based THEN Out(scoped, NoName)
                ELSE Shown(Do(s, "NO_MS_KEYWORDS"), getBasedType(scoped))
        cv == D((IF code % 2 = 1 THEN <<"const">> ELSE <<>>)
                \o (IF (code \div 2) % 2 = 1 THEN <<"volatile">> ELSE <<>>))
        type == cv ++ base.out ++ scoped.out ++ D(SetToSeq(m.refs))
        whole == IF ~thisFlag /\ "array" \in superType.is /\ ~IsEmpty(superType)
                    /\ ("ptrref" \in superType.is \/ IsEmpty(cvType))
                 THEN superType ELSE type ++ rest
    IN  CASE Here(s) = "NUL" -> Out(s, Trunc ++ rest)
          [] ~IsEmpty(m.result) -> Out(m.s, m.result)
          [] m.invalid -> Out(m.s, Bad)
          [] code > 31 -> Out(s1, Bad)
          [] thisFlag /\ (member \/ based) -> Out(s1, Bad)
          [] ~IsValid(scoped.out) -> scoped
          [] OTHER -> Out(base, Mark(whole, {"ptrref"} \cup IF m.pin THEN {"pin"} ELSE {}))

getThisType(s) == getDataIndirectType(s, NoName, "", NoName, TRUE)
getStorageConvention(s) == getDataIndirectType(s, NoName, "", NoName, FALSE)

(* Void, or nothing but the declarator. *)
Typed(words, superType) == D(words) ++ Plain(superType)

getReturnType(s, declarator) ==
    IF Here(s) = "@" THEN Out(Adv(s, 1), declarator) ELSE getDataType(s, declarator)

(* Function types: near or far, and members, with a class and a this type. *)
IT_isfunction(c) == c \in {"6", "7", "8", "9", "_"}

getFunctionIndirectType(s, superType) ==
    LET based == Here(s) = "_"
        s1 == Adv(s, 1)
        c == IF based THEN Here(s1) ELSE Here(s)
        valid == IF based THEN c \in {"A", "B", "C", "D"} ELSE c \in Numerals
        isMember == c \in {"8", "9", "C", "D"}
        start == IF based THEN Adv(s1, 1) ELSE s1
        scope == IF Here(start) = "@" THEN Out(start, superType)
                 ELSE LET r == getScope(start) IN Out(r, r.out ++ Lit("::") ++ Plain(superType))
        this == getThisType(Adv(scope, 1))
        inner == IF isMember THEN Out(this, scope.out) ELSE Out(start, superType)
        base == IF based THEN Shown(Do(s, "NO_MS_KEYWORDS"), getBasedType(inner)) ELSE Out(inner, NoName)
        conv == Shown(Do(s, "NO_MS_KEYWORDS"), getCallingConvention(base))
        fit == conv.out ++ base.out ++ Plain(inner.out)
        ret == getReturnType(conv, Declarator)
        args == getArgumentTypes(ret)
        noexcept == getNoexcept(args)
        end == getThrowTypes(noexcept)
        thisType == IF isMember /\ Do(s, "NO_THISTYPE") THEN this.out ELSE NoName
        type == (IF IsEmpty(superType) THEN fit ELSE Lit("(") ++ fit ++ Lit(")"))
                    ++ Lit("(") ++ args.out ++ Lit(")") ++ thisType ++ noexcept.out
    IN  CASE Here(s) = "NUL" \/ (based /\ c = "NUL") -> Out(s1, Trunc ++ superType)
          [] ~valid -> Out(s1, Bad)
          [] isMember /\ Here(scope) # "@" ->
                Out(scope, IF Here(scope) = "NUL" THEN Trunc ++ scope.out ELSE Bad)
          [] OTHER -> Out(end, Fill(ret.out, type))

(* Arrays: the dimensions follow the declarator. *)
RECURSIVE Bounds(_, _)
Bounds(s, n) ==
    LET d == Between(<<"[">>, getDimension(s), <<"]">>)
    IN  IF n = 0 \/ Here(s) = "NUL" THEN Out(s, NoName)
        ELSE IF ~IsValid(d.out) THEN d ELSE After(d, Bounds(d, n - 1))

getArrayType(s, superType) ==
    LET r == getNumberOfDimensions(s)
        array == "array" \in superType.is
        bounds == Between(IF array THEN <<"[]">> ELSE <<>>, Bounds(r.s, r.n), <<>>)
        declarator == IF IsEmpty(superType) THEN bounds.out
                      ELSE IF array THEN superType ++ bounds.out
                      ELSE Lit("(") ++ Plain(superType) ++ Lit(")") ++ bounds.out
        type == getPrimaryDataType(bounds, declarator)
        unknown == D(<<"[">>) ++ Trunc ++ Lit("]")
    IN  IF Here(s) = "NUL"
        THEN getBasicDataType(s, IF IsEmpty(superType) THEN unknown
                                 ELSE Lit("(") ++ Plain(superType) ++ Lit(")") ++ unknown)
        ELSE IF r.n <= 0 THEN getBasicDataType(r.s, unknown)
        ELSE Out(type, Mark(type.out, {"array"}))

(* What a pointer or reference points to. *)
getPtrRefDataType(s, superType, isPtr) ==
    LET boxed == isPtr /\ <<Here(s), Peek(s, 1), Peek(s, 2)>> = <<"_", "_", "BDT_boxed">>
        from == IF boxed THEN Adv(s, 3) ELSE s
        basic == getBasicDataType(from, superType)
        prefix == IF "comarray" \in superType.is THEN Lit("cli::array<")
                  ELSE IF "pin" \in superType.is THEN Lit("cli::pin_ptr<") ELSE NoName
    IN  CASE Here(s) = "NUL" -> Out(s, Trunc ++ superType)
          [] isPtr /\ Here(s) = "X" -> Out(Adv(s, 1), Typed(<<"void">>, superType))
          [] Extended(from, {"PDT_ex_nullptr_t"}) -> Out(Adv(from, 3), Typed(<<"std::nullptr_t">>, superType))
          [] Here(from) = "Y" -> getArrayType(Adv(from, 1), superType)
          [] OTHER -> Out(basic, prefix ++ basic.out)

(* A pointer, a reference or (without a sign) the element of an array. *)
getPtrRefType(s, cvType, superType, kind) ==
    LET sign == IF kind = "" THEN NoName ELSE Lit(kind)
        cv == IF IsEmpty(superType) \/ "ptrref" \notin superType.is THEN cvType ELSE NoName
        inner == getDataIndirectType(s, superType, kind, cvType, FALSE)
    IN  IF Here(s) = "NUL" THEN Out(s, Trunc ++ sign ++ cvType ++ superType)
        ELSE IF IT_isfunction(Here(s)) THEN getFunctionIndirectType(s, sign ++ cv ++ Plain(superType))
        ELSE getPtrRefDataType(inner, inner.out, kind = "*")

(* Basic types: codes of one character, and those after '_'. *)
BasicTypes == [C |-> <<"signed", "char">>, D |-> <<"char">>, E |-> <<"unsigned", "char">>,
    F |-> <<"short">>, G |-> <<"unsigned", "short">>, H |-> <<"int">>, I |-> <<"unsigned", "int">>,
    J |-> <<"long">>, K |-> <<"unsigned", "long">>, M |-> <<"float">>, N |-> <<"double">>,
    O |-> <<"long", "double">>, X |-> <<"void">>]

ExtendedTypes == [D |-> <<"__int8">>, E |-> <<"unsigned", "__int8">>, F |-> <<"__int16">>,
    G |-> <<"unsigned", "__int16">>, H |-> <<"__int32">>, I |-> <<"unsigned", "__int32">>,
    J |-> <<"__int64">>, K |-> <<"unsigned", "__int64">>, L |-> <<"__int128">>,
    M |-> <<"unsigned", "__int128">>, N |-> <<"bool">>, W |-> <<"wchar_t">>,
    BDT_unknown |-> <<"<unknown>">>, BDT_char8_t |-> <<"char8_t">>,
    BDT_char16_t |-> <<"char16_t">>, BDT_char32_t |-> <<"char32_t">>, BDT_auto |-> <<"auto">>,
    BDT_decltypeAuto |-> <<"decltype(auto)">>]

EnumTypes == << <<"char">>, <<"char">>, <<"short">>, <<"short">>, <<>>, <<"int">>, <<"long">>, <<"long">> >>

getEnumType(s) ==
    LET c == Here(s)
        unsigned == IF c \in {"1", "3", "5", "7"} THEN <<"unsigned">> ELSE <<>>
    IN  CASE c = "NUL" -> Out(s, Trunc)
          [] c \in Numerals \ {"8", "9"} -> Out(Adv(s, 1), D(unsigned \o EnumTypes[Ord[c]]))
          [] OTHER -> Out(s, Bad)

Keywords == [T |-> "union", U |-> "struct", V |-> "class", X |-> "coclass", Y |-> "cointerface"]

(* Enums, classes, structures and unions. *)
getECSUDataType(s) ==
    LET c == Here(s)
        enum == getEnumType(Adv(s, 1))
        at == IF c = "W" THEN enum ELSE Adv(s, 1)
        fPrefix == Do(s, "NO_ECSU") /\ (c = "W" \/ Do(s, "NAME_ONLY"))
        prefix == CASE ~fPrefix -> NoName
                    [] c = "W" -> Lit("enum") ++ enum.out
                    [] c \in DOMAIN Keywords -> Lit(Keywords[c])
                    [] OTHER -> NoName
    IN  IF c = "NUL" THEN Out(s, Lit("'unknown ecsu'") ++ Trunc)
        ELSE After(Out(at, prefix), getScopedName(at))

(* Codes after '_'. *)
ExtendedType(s, superType) ==
    LET c == Here(s)
        s1 == Adv(s, 1)
        ecsu == getECSUDataType(s)
        element == getPtrRefType(s1, NoName, Mark(superType, {"array"}), "")
        suffix == IF "array" \in element.out.is THEN <<>> ELSE <<"[]">>
        Before(r) == Out(r, r.out ++ Plain(superType))
    IN  CASE c = "O" -> Out(element, element.out ++ D(suffix))
          [] c = "$" -> Between(<<"__w64">>, getBasicDataType(s1, superType), <<>>)
          [] c = "BDT_explicit_object" -> Before(Between(<<"this">>, getPrimaryDataType(s1, superType), <<>>))
          [] c \in {"X", "Y"} -> IF IsEmpty(ecsu.out) THEN ecsu ELSE Before(ecsu)
          [] c = "NUL" -> Out(s, Trunc ++ Plain(superType))
          [] OTHER -> Out(s1, Typed(IF c \in DOMAIN ExtendedTypes THEN ExtendedTypes[c] ELSE <<"UNKNOWN">>,
                                    superType))

(* A pointer's own const and volatile are printed only at the outermost level: those of
   an inner pointer come with the code of the indirection that leads to it. *)
PointerCv == [P |-> <<>>, Q |-> <<"const">>, R |-> <<"volatile">>, S |-> <<"const", "volatile">>]

getBasicDataType(s, superType) ==
    LET c == Here(s)
        s1 == Adv(s, 1)
        cv == IF IsEmpty(superType) THEN D(PointerCv[c]) ELSE NoName
        ecsu == getECSUDataType(s)
    IN  CASE c = "NUL" -> Out(s, Trunc ++ Plain(superType))
          [] c \in DOMAIN BasicTypes -> Out(s1, Typed(BasicTypes[c], superType))
          [] c \in DOMAIN PointerCv -> getPtrRefType(s1, cv, superType, "*")
          [] c = "_" -> ExtendedType(s1, superType)
          [] OTHER -> IF IsEmpty(ecsu.out) THEN ecsu ELSE Out(ecsu, ecsu.out ++ Plain(superType))

(* References, and what is written with "$$". *)
getPrimaryDataType(s, superType) ==
    LET c == IF Here(s) = "$" THEN Peek(s, 2) ELSE Here(s)
        s1 == Adv(s, 1)
        s3 == Adv(s, 3)
        super == Mark(superType, {"ptrref"})
        qualified == getDataIndirectType(s3, superType, "", NoName, FALSE)
    IN  CASE Here(s) = "NUL" -> Out(s, Trunc ++ superType)
          [] Here(s) = "A" -> getPtrRefType(s1, NoName, super, "&")
          [] Here(s) = "B" -> getPtrRefType(s1, Lit("volatile"), super, "&")
          [] Here(s) # "$" -> getBasicDataType(s, superType)
          [] Peek(s, 1) # "$" -> Out(s, IF Peek(s, 1) = "NUL" THEN Trunc ++ superType ELSE Bad)
          [] c = "A" -> getFunctionIndirectType(s3, superType)
          [] c = "B" -> getPtrRefDataType(s3, superType, TRUE)
          [] c = "C" -> getBasicDataType(qualified, qualified.out)
          [] c = "PDT_ex_rvalue_ref" -> getPtrRefType(s3, NoName, super, "&&")
          [] c = "PDT_ex_vol_rvalue_ref" -> getPtrRefType(s3, Lit("volatile"), super, "&&")
          [] c = "PDT_ex_nullptr" -> Out(s3, Bad)
          [] c = "PDT_ex_nullptr_t" -> Out(s3, Typed(<<"std::nullptr_t">>, superType))
          [] c = "PDT_aliasTemplate" -> getScopedName(s3)
          [] c = "PDT_empty" -> Out(s3, superType)
          [] OTHER -> Out(Adv(s, 2), IF c = "NUL" THEN Trunc ++ superType ELSE Bad)

getDataType(s, superType) ==
    LET s1 == Adv(s, 1)
        type == getDataIndirectType(s1, superType, "", NoName, FALSE)
    IN  CASE Here(s) = "NUL" -> Out(s, Trunc ++ superType)
          [] Here(s) = "X" -> Out(s1, Typed(<<"void">>, superType))
          [] Here(s) = "?" -> getPrimaryDataType(type, type.out)
          [] OTHER -> getPrimaryDataType(s, superType)

-----------------------------------------------------------------------------
(* What kind of thing a name is (typeCode). *)

TypeCode == [st |-> "ok", isfunction |-> FALSE, kind |-> "data", access |-> "",
             isbased |-> FALSE, isexternc |-> FALSE]

Coded(s, te) == [s EXCEPT !.te = te]
AccessNames == << "private:", "protected:", "public:" >>
FunctionKinds == << "member", "static", "virtual", "adjustor" >>
DataKinds == [x \in {"3", "4", "5", "6", "7", "8"} |->
    << "global", "local", "guard", "vftable", "vbtable", "metaclass" >>[Ord[x] - 3]]

(* A letter: eight for each access, two for each kind (near and far). *)
FunctionCode(c, te) ==
    IF Letter(c) >= 24 THEN [te EXCEPT !.isfunction = TRUE, !.kind = "external"]
    ELSE [te EXCEPT !.isfunction = TRUE, !.access = AccessNames[Letter(c) \div 8 + 1],
                    !.kind = FunctionKinds[(Letter(c) % 8) \div 2 + 1]]

(* Managed functions: their marks are skipped, and the byte count of extern "C". *)
ManagedEncoding(s) ==
    LET from == IF Here(s) = "P" THEN Adv(s, 1) ELSE s
        c == Here(from)
        s1 == Adv(from, 1)
        count == Ord[Here(s1)]
        rest == getTypeEncoding(Adv(s1, count))
    IN  CASE c \in {"F", "H", "L", "M", "MGD_AppDomain"} -> getTypeEncoding(s1)
          [] c = "h" -> getTypeEncoding([s1 EXCEPT !.chpe = 0])
          [] c \in {"J", "N", "O"} /\ Here(s1) \in Numerals ->
                IF s1.at + count > Len(s1.in) + 1 THEN Coded(rest, [TypeCode EXCEPT !.st = "truncated"])
                ELSE Coded(rest, [rest.te EXCEPT !.isexternc = TRUE])
          [] OTHER -> Coded(from, [TypeCode EXCEPT !.st =
                IF "NUL" \in {c, Here(s1)} THEN "truncated" ELSE "bad"])

VtorDispAccess(c) == AccessNames[(Ord[c] - 1) \div 2 + 1]

SpecialEncoding(s, te) ==
    LET c == Here(s)
        s1 == Adv(s, 1)
        digits6 == {"0", "1", "2", "3", "4", "5"}
        function == [te EXCEPT !.isfunction = TRUE]
        Adjusts(kind, x) == [function EXCEPT !.kind = kind, !.access = VtorDispAccess(x)]
    IN  CASE c = "A" -> Coded(s1, [function EXCEPT !.kind = "localdtor"])
          [] c = "B" -> Coded(s1, [function EXCEPT !.kind = "vcall"])
          [] c = "C" -> Coded(s1, [te EXCEPT !.kind = "vdispmap"])
          [] c = "D" -> Coded(s1, [function EXCEPT !.kind = "templatector"])
          [] c = "E" -> Coded(s1, [function EXCEPT !.kind = "templatedtor"])
          [] c = "$" -> ManagedEncoding(s1)
          [] c = "SHF_VtorDispThunkEx" ->
                IF Here(s1) \in digits6 THEN Coded(Adv(s1, 1), Adjusts("vtoradjex", Here(s1)))
                ELSE Coded(s1, [te EXCEPT !.st = IF Here(s1) = "NUL" THEN "bad" ELSE "truncated"])
          [] c \in digits6 -> Coded(s1, Adjusts("vtoradj", c))
          [] OTHER -> Coded(s, [te EXCEPT !.st = IF c = "NUL" THEN "truncated" ELSE "bad"])

getTypeEncoding(s0) ==
    LET based == Here(s0) = "_"
        s == IF based THEN Adv(s0, 1) ELSE s0
        te == [TypeCode EXCEPT !.isbased = based]
        c == Here(s)
        s1 == Adv(s, 1)
    IN  CASE c \in Letters -> Coded(s1, FunctionCode(c, te))
          [] c = "$" -> SpecialEncoding(s1, te)
          [] c \in {"0", "1", "2"} -> Coded(s1, [te EXCEPT !.kind = "static", !.access = AccessNames[Ord[c]]])
          [] c \in DOMAIN DataKinds -> Coded(s1, [te EXCEPT !.kind = DataKinds[c]])
          [] c = "9" -> Coded(s1, [te EXCEPT !.st = "Cident"])
          [] c = "TE_structured_binding" -> Coded(s1, te)
          [] OTHER -> Coded(s, [te EXCEPT !.st = IF c = "NUL" THEN "truncated" ELSE "bad"])

-----------------------------------------------------------------------------
(* Declarations. *)

Adjustors == {"adjustor", "vtoradj", "vtoradjex"}
Helpers == [localdtor |-> "'local static destructor helper'",
    templatector |-> "'template static data member constructor helper'",
    templatedtor |-> "'template static data member destructor helper'"]
Thunks == Adjustors \cup DOMAIN Helpers \cup {"vcall"}

(* A thunk that calls a virtual function by its index.  The end is written twice. *)
VCallThunk(s, symbol) ==
    LET index == getDimension(s)
        flat == CASE Here(index) = "A" -> Out(Adv(index, 1), Lit("{flat}"))
                  [] Here(index) = "NUL" -> Out(index, Trunc)
                  [] OTHER -> Out(index, Bad)
        model == IF Do(s, "NAME_ONLY") THEN Lit(",") ++ flat.out ++ Lit("}'") ELSE NoName
        conv == getCallingConvention(flat)
        shown == Do(s, "NO_MS_KEYWORDS") /\ Do(s, "NO_ALLOCATION_LANGUAGE") /\ Do(s, "NAME_ONLY")
    IN  Out(conv, (IF shown THEN conv.out ELSE NoName) ++ symbol ++ Lit("{") ++ index.out ++ model ++ Lit("}'"))

(* The displacements of an adjusting thunk. *)
Adjustment(s, kind) ==
    LET a == getDisplacement(s)
        b == getDisplacement(a)
        c == getDisplacement(b)
        d == getDisplacement(c)
        comma == Lit(",")
    IN  CASE kind = "adjustor" -> Between(<<"'adjustor{">>, a, <<"}'">>)
          [] kind = "vtoradj" -> Out(b, Lit("'vtordisp{") ++ a.out ++ comma ++ b.out ++ Lit("}'"))
          [] kind = "vtoradjex" -> Out(d, Lit("'vtordispex{") ++ a.out ++ comma ++ b.out ++ comma
                                            ++ c.out ++ comma ++ d.out ++ Lit("}'"))
          [] OTHER -> Out(s, NoName)

(* A function: its convention, name, arguments and this type are put into its return type. *)
FunctionDeclaration(s, base, symbol, te, chpeOffset) ==
    LET thunk == te.kind \in Adjustors
        adjustment == Adjustment(base, te.kind)
        isInstance == te.access # "" /\ te.kind # "static"
        this == IF isInstance THEN Shown(Do(s, "NO_THISTYPE"), getThisType(adjustment))
                ELSE Out(adjustment, NoName)
        conv == Shown(Do(s, "NO_MS_KEYWORDS") /\ Do(s, "NO_ALLOCATION_LANGUAGE"), getCallingConvention(this))
        head == conv.out ++ base.out
        named == IF IsEmpty(symbol) THEN head
                 ELSE IF IsEmpty(head) \/ ~Do(s, "NAME_ONLY") THEN symbol
                 ELSE head ++ Plain(symbol)
        udc == "udc" \in symbol.is
        ret == IF udc THEN getReturnType(conv, NoName) ELSE getReturnType(conv, Declarator)
        called == IF udc THEN named ++ ret.out ELSE named
        marked == IF s.level = 1 /\ s.chpe = 0 THEN [ret EXCEPT !.chpe = chpeOffset] ELSE ret
        args == getArgumentTypes(marked)
        noexcept == getNoexcept(args)
        end == getThrowTypes(noexcept)
        declaration == called ++ (IF thunk THEN adjustment.out ELSE NoName)
                           ++ Lit("(") ++ args.out ++ Lit(")") ++ this.out ++ noexcept.out
    IN  IF udc /\ ~Do(s, "NAME_ONLY") THEN Out(ret, called)
        ELSE Out(end, IF udc \/ ~Do(s, "NO_FUNCTION_RETURNS") THEN declaration
                      ELSE Fill(ret.out, declaration))

(* Data with a type: its storage and its name are put into the type. *)
getExternalDataType(s, superType) ==
    LET type == getDataType(s, Declarator)
        storage == getStorageConvention(type)
    IN  Out(storage, Fill(type.out, storage.out ++ superType))

(* Tables of virtual functions, bases and displacements, "for" the scopes they are in. *)
RECURSIVE ForScopes(_, _)
ForScopes(s, name) ==
    LET scope == Between(<<"'">>, getScope(s), <<"'">>)
        all == name ++ scope.out
        next == IF Here(scope) = "@" THEN Adv(scope, 1) ELSE scope
        s_ == IF IsValid(all) /\ Here(next) # "@" THEN Lit("s") ELSE NoName
    IN  IF ~IsValid(name) \/ Here(s) \in {"NUL", "@"} THEN Out(s, name)
        ELSE ForScopes(next, all ++ s_)

getVfTableType(s, superType) ==
    LET storage == getStorageConvention(s)
        name == storage.out ++ superType
        scopes == ForScopes(storage, name ++ Lit("{for"))
        end == IF ~IsValid(name) \/ Here(storage) = "@" THEN Out(storage, name)
               ELSE Out(scopes, scopes.out ++ (IF Here(scopes) = "NUL" THEN Trunc ELSE NoName) ++ Lit("}"))
    IN  IF ~IsValid(superType) THEN Out(s, superType)
        ELSE IF Here(s) = "NUL" THEN Out(s, Trunc ++ superType)
        ELSE IF Here(end) = "@" THEN Adv(end, 1) ELSE end

getVdispMapType(s, superType) ==
    LET scope == getScope(s)
        r == Out(scope, superType ++ Lit("{for") ++ scope.out ++ Lit("}"))
    IN  IF Here(r) = "@" THEN Adv(r, 1) ELSE r

(* What is no function; it is whole if no access is to be written in front of it. *)
DataDeclaration(s, symbol, te) ==
    LET data == getExternalDataType(s, symbol)
    IN  CASE te.kind \in {"vftable", "vbtable"} -> getVfTableType(s, symbol)
          [] te.kind = "guard" -> After(Out(s, symbol ++ Lit("{")), Between(<<>>, getDimension(s), <<"}'">>))
          [] te.kind = "vdispmap" -> getVdispMapType(s, symbol)
          [] te.kind = "metaclass" -> Out(s, symbol)
          [] te.kind \in {"templatector", "templatedtor"} -> Out(s, symbol ++ Lit(Helpers[te.kind]))
          [] te.kind = "localdtor" -> getExternalDataType(s, symbol ++ Lit(Helpers[te.kind]))
          [] OTHER -> data

(* What is written in front of a declaration, the first one last. *)
MemberPrefixes(s, te) ==
    LET isMember == te.access # ""
        static == isMember /\ Do(s, "NO_MEMBER_TYPE") /\ te.kind = "static"
        virtual == isMember /\ Do(s, "NO_MEMBER_TYPE") /\ te.kind \in Adjustors \cup {"virtual"}
    IN  (IF te.isexternc THEN <<"extern \"C\"">> ELSE <<>>)
        \o (IF te.kind \in Thunks /\ Do(s, "NAME_ONLY") THEN <<"[thunk]:">> ELSE <<>>)
        \o (IF isMember /\ Do(s, "NO_ACCESS_SPECIFIERS") THEN <<te.access>> ELSE <<>>)
        \o (IF virtual THEN <<"virtual">> ELSE <<>>) \o (IF static THEN <<"static">> ELSE <<>>)

composeDeclaration(s0, symbol) ==
    LET chpeOffset == s0.at - 1
        s == getTypeEncoding(s0)
        te == s.te
        base == IF ~te.isbased THEN Out(s, NoName)
                ELSE Shown(Do(s, "NO_MS_KEYWORDS") /\ Do(s, "NO_ALLOCATION_MODEL"), getBasedType(s))
        r == CASE ~te.isfunction \/ te.kind \in DOMAIN Helpers -> DataDeclaration(s, symbol, te)
               [] te.kind = "vcall" -> VCallThunk(base, symbol)
               [] OTHER -> FunctionDeclaration(s, base, symbol, te, chpeOffset)
        bare == \/ te.kind \in {"vftable", "vbtable", "guard", "vdispmap", "metaclass"}
                \/ te.isfunction /\ "udc" \in symbol.is /\ ~Do(s, "NAME_ONLY")
    IN  CASE te.st = "bad" -> Out(s, Bad)
          [] te.st = "truncated" -> Out(s, Trunc ++ symbol)
          [] te.st = "Cident" -> Out(s, symbol)
          [] bare -> r
          [] OTHER -> Out(r, D(MemberPrefixes(s, te)) ++ r.out)

(* The symbol with the scopes it is in.  Template parameters of a name without one come
   before its scope. *)
Qualified(symbol) ==
    LET scope == getScope(symbol)
        after == Out([scope EXCEPT !.explicit = FALSE], symbol.out ++ scope.out)
        outer == getScope(after)
    IN  CASE Here(symbol) \in {"NUL", "@"} -> symbol
          [] IsEmpty(scope.out) -> Out(scope, symbol.out)
          [] ~scope.explicit -> Out(scope, scope.out ++ Lit("::") ++ symbol.out)
          [] Here(after) # "@" -> Out(outer, outer.out ++ Lit("::") ++ after.out)
          [] OTHER -> after

NameAndDeclaration(s) ==
    LET symbol == getSymbolName(s)
        marks == symbol.out.is \cap {"udc", "vcall"}
        scoped == Qualified(symbol)
        name == Mark(scoped.out, marks)
        at == Adv(scoped, 1)
    IN  CASE ~IsValid(symbol.out) -> symbol
          [] IsEmpty(name) \/ "noTE" \in name.is -> Out(scoped, name)
          [] Here(scoped) \notin {"NUL", "@"} -> Out(scoped, Bad)
          [] ~Do(s, "NAME_ONLY") /\ marks = {} -> Out(composeDeclaration(at, NoName), name)
          [] OTHER -> composeDeclaration(at, name)

ToEnd(s) == Adv(s, Len(s.in))

getDecoratedName(s0) ==
    LET s == [s0 EXCEPT !.level = @ + 1]
        typeOnly == getDataType([s EXCEPT !.off = @ \ {"TYPE_ONLY"}], NoName)
        q == Adv(s, 1)
        r == CASE ~Do(s, "TYPE_ONLY") -> [typeOnly EXCEPT !.off = s.off]
               [] Here(s) = "?" -> IF Here(q) = "?" /\ Peek(q, 1) = "?" THEN ToEnd(getDecoratedName(q))
                                   ELSE NameAndDeclaration(q)
               [] OTHER -> Out(s, IF Here(s) = "NUL" THEN Trunc ELSE Bad)
    IN  [r EXCEPT !.level = @ - 1]

parseDecoratedName(s) ==
    LET template == getTemplateName(s, FALSE)
        whole == IsValid(template.out) /\ (~Do(s, "NAME_ONLY") \/ Here(template) = "NUL")
    IN  CASE Here(s) = "?" /\ Peek(s, 1) = "@" -> Between(<<"CV:">>, getDecoratedName(Adv(s, 2)), <<>>)
          [] Here(s) = "?" /\ Peek(s, 1) = "$" ->
                IF whole THEN template
                ELSE getDecoratedName([s EXCEPT !.explicit = template.explicit, !.inlist = template.inlist])
          [] Here(s) = "?" /\ Peek(s, 1) = "?" /\ Peek(s, 2) = "@" -> Out(s, Bad)
          [] OTHER -> getDecoratedName(s)

(* The declaration, or the decorated name itself. *)
getUndecoratedName(s) ==
    LET r == parseDecoratedName(s)
    IN  IF ~IsValid(r.out) \/ (Do(s, "NAME_ONLY") /\ Here(r) # "NUL") THEN s.in ELSE r.out.txt

(* The name with a mark in front of the type of the function, or nothing. *)
getCHPEName(s) ==
    LET r == parseDecoratedName(s)
        k == r.chpe
        mark == <<"$", "$", "h">>
    IN  IF r.out.stat # "valid" \/ k = 0 \/ SubSeq(s.in, k + 1, k + 3) = mark THEN <<>>
        ELSE SubSeq(s.in, 1, k) \o mark \o SubSeq(s.in, k + 1, Len(s.in))
=============================================================================
