----------------------------- MODULE JavaChunks -----------------------------
(***************************************************************************)
(* Cutting a Java file (source_parsing/java/extract_java_symbols.py and    *)
(* extract_java_calls.py, code_splitting/java/split_java_declarations.py). *)
(*                                                                         *)
(* Kinds of nodes: "program"; the types "class", "interface", "enum",      *)
(* "record", "annotation"; "module", "method", "constructor", "compact",   *)
(* "element", "component", "constant" (of an enum), "static"; "field" and  *)
(* "local" with their "declarator"s; "body" (the members of a type or an   *)
(* anonymous class), "enum body" (the constants and a "body"); "new",      *)
(* "block", "for", "foreach", "try", "resource", "catch clause", "catch",  *)
(* "switch", "lambda", "parameter", "comment", "import", "cast", "call".    *)
(* "name" is what a node declares, constructs or calls, "type" its type as *)
(* written, "args" a number of arguments or parameters.  A call's "on" is  *)
(* the form of its receiver ("nothing", "this", "super", "name", "type",   *)
(* "new", "call"), "of" the name in it and "via" the call in it; "of" of a *)
(* loop is what it goes through; "apart" marks a comment that does not     *)
(* touch what follows.                                                     *)
(***************************************************************************)
EXTENDS SyntaxTree, SequencesExt

CONSTANTS
  SimpleType(_),     \* read_simple_java_type: "" for var, primitives, T
  ElementOf(_)       \* the element type of an array or a java.util list

Unknown == ""
Types == {"class", "interface", "enum", "record", "annotation"}
ChildrenOf(t, n, kinds) == Children(t, n) \cap OfKind(t, kinds)
BodyOf(t, n) == FirstOf(ChildrenOf(t, n, {"body", "enum body"}))

-----------------------------------------------------------------------------
(* Symbols.                                                                *)

SymbolKind(t, n) ==
  LET kind == t[n].kind
      parent == IF t[n].up = 0 THEN "" ELSE t[t[n].up].kind
  IN CASE kind \in Types \cup {"module", "method", "constructor", "element",
                               "component", "constant"} -> kind
       [] kind = "compact" -> "constructor"
       [] kind = "declarator" /\ parent = "field" -> "field"
       [] kind = "static" -> "static_initializer"
       [] kind = "block" /\ parent = "body" -> "initializer"
       [] kind = "new" /\ BodyOf(t, n) # 0 -> "anonymous_class"
       [] OTHER -> ""

SymbolNodes(t) == {n \in Nodes(t) : SymbolKind(t, n) # ""}

(* The symbol a node belongs to, 0 for the file: of "new T(x) {...}" only  *)
(* the body belongs to the anonymous class.                                *)
Owner(t, n) ==
  LET In(o) == t[o].kind = "new" => n > BodyOf(t, o)
  IN LastOf({o \in Around(t, n) \cap SymbolNodes(t) :
               SymbolKind(t, o) # "component" /\ In(o)})

(* What a symbol adds to its owner's name: position tells apart what has   *)
(* no name, and types declared in a block; a method has its parameters.    *)
NamePart(t, n) ==
  LET local == t[n].kind \in Types /\ t[t[n].up].kind \notin {"program", "body"}
      kind == SymbolKind(t, n)
      signature == IF kind \in {"method", "constructor", "element"}
                   THEN [i \in DOMAIN t[n].params |-> t[n].params[i]]
                   ELSE <<>>
  IN IF local THEN <<t[n].name, n>>
     ELSE IF kind \in {"static_initializer", "initializer", "anonymous_class"}
       THEN <<kind, n>>
     ELSE <<t[n].name, signature>>

Path(t, n) ==
  LET Of[k \in Nat] == IF k = 0 THEN <<>> ELSE Append(Of[Owner(t, k)], k)
  IN Of[n]

(* A type or a module of the file starts from the package's name.          *)
FullName(t, n) ==
  LET path == Path(t, n) IN [i \in DOMAIN path |-> NamePart(t, path[i])]

(* Comments that touch a declaration belong to it.                         *)
LeadingStart(t, n) ==
  LET Between(c) == {s \in Children(t, t[n].up) : c <= s /\ s < n}
      joined == {c \in Children(t, t[n].up) :
                   c < n /\ \A s \in Between(c) :
                              t[s].kind = "comment" /\ ~t[s].apart}
  IN FirstOf(joined \cup {n})

(* A field's text is its whole declaration; types, enum constants and      *)
(* anonymous classes are cut before their bodies.                          *)
SymbolNode(t, n) ==
  LET kind == SymbolKind(t, n)
      node == IF kind = "field" THEN t[n].up ELSE n
      cut == kind \in Types \cup {"constant", "anonymous_class"} /\ BodyOf(t, n) # 0
  IN [symbol |-> n,
      kind |-> kind,
      from |-> IF kind = "component" THEN node ELSE LeadingStart(t, node),
      to |-> IF cut THEN BodyOf(t, n) ELSE EndOf(t, node) + 1]

(* The file's own text: what is before the first type or module; when that *)
(* is nothing, the head of this type once more.                            *)
FileHeaderEnd(t) ==
  LET top == {n \in Children(t, 1) : SymbolKind(t, n) \in Types \cup {"module"}}
      first == FirstOf(top)
  IN IF top = {} THEN EndOf(t, 1) + 1
     ELSE IF LeadingStart(t, first) > 2 THEN LeadingStart(t, first)
     ELSE SymbolNode(t, first).to

FileNode(from, to) == [symbol |-> 1, kind |-> "file", from |-> from, to |-> to]

DeclaredNodes(t) ==
  {FileNode(2, FileHeaderEnd(t))} \cup {SymbolNode(t, n) : n \in SymbolNodes(t)}

(* Comments in no declaration's text are kept as text of the file.         *)
UncoveredComments(t) ==
  LET declared == DeclaredNodes(t)
  IN {FileNode(c, c + 1) :
        c \in {n \in OfKind(t, {"comment"}) :
                 \A s \in declared : ~(s.from <= n /\ n < s.to)}}

AllSymbolNodes(t) == DeclaredNodes(t) \cup UncoveredComments(t)

(* Symbols of one kind with the same text, the fields of one declaration,  *)
(* are one chunk.                                                          *)
Split(t) ==
  LET nodes == AllSymbolNodes(t)
  IN {[kind |-> s.kind, from |-> s.from, to |-> s.to,
       symbols |-> {o.symbol : o \in {x \in nodes :
                      <<x.kind, x.from, x.to>> = <<s.kind, s.from, s.to>>}}] :
        s \in {x \in nodes : x.from < x.to}}

-----------------------------------------------------------------------------
(* Calls.                                                                  *)

Callers(t) ==
  {n \in Nodes(t) : SymbolKind(t, n) \in
     {"method", "constructor", "static_initializer", "initializer"}}

CallerOf(t, call) == LastOf(Around(t, call) \cap Callers(t))

(* A chunk takes the calls whose caller has the name of one of its symbols.*)
CodeCalls(t, chunk) ==
  {c \in OfKind(t, {"call"}) :
     /\ CallerOf(t, c) # 0
     /\ \E s \in chunk.symbols \ {1} : FullName(t, s) = FullName(t, CallerOf(t, c))}

(* The name before the first parameter list of the caller's full name.     *)
OwnerType(t, n) ==
  LET path == Path(t, n)
      parts == FullName(t, n)
      callable == SelectInSeq(path, LAMBDA k :
                    SymbolKind(t, k) \in {"method", "constructor", "element"})
      at == IF callable = 0 THEN Len(path) ELSE callable
  IN IF at = 1 THEN Unknown ELSE parts[at - 1][1]

(* Changed: a local variable lasts to the end of its method.               *)
MethodScope(t, d, caller) == IF t[d].kind = "foreach" THEN d ELSE caller

(* Where a local variable ends; a variable of the caller's own body has    *)
(* the caller itself for its scope.                                        *)
NearestScope(t, d, caller) ==
  LET scopes == OfKind(t, {"block", "for", "foreach", "catch clause", "try",
                           "switch", "lambda"})
      around == {k \in Around(t, d) \cap scopes : k > caller}
  IN IF t[d].kind = "foreach" THEN d
     ELSE IF around = {} THEN caller ELSE LastOf(around)

(* The local declarations of a name that are in force at a place.          *)
LocalsInForce(t, caller, place, name) ==
  LET Closed(n) == t[n].kind \in {"method", "constructor", "class", "interface",
                                  "enum", "record"}
      Declares(d) == \/ t[d].kind \in {"foreach", "resource", "catch"}
                     \/ t[d].kind = "declarator" /\ t[t[d].up].kind = "local"
  IN {d \in Walk(t, caller, Closed) :
        /\ Declares(d) /\ t[d].name = name
        /\ d < place
        /\ NearestScope(t, d, caller) \in Around(t, place) \cup {place}}

LocalInForce(t, caller, place, name) ==
  LET found == LocalsInForce(t, caller, place, name)
      Scope(d) == NearestScope(t, d, caller)
      inner == LastOf({Scope(d) : d \in found})
  IN LastOf({d \in found : Scope(d) = inner})

ParameterOf(t, caller, name) ==
  LastOf({p \in ChildrenOf(t, caller, {"parameter"}) : t[p].name = name})

(* The fields that stand directly in the body of the type around: an       *)
(* anonymous class is no such type, an enum's fields stand deeper.         *)
FieldOf(t, caller, name) ==
  LET owner == LastOf(Around(t, caller) \cap OfKind(t, Types))
      body == IF owner = 0 THEN 0 ELSE BodyOf(t, owner)
      fields == IF body = 0 THEN {} ELSE ChildrenOf(t, body, {"field"})
  IN FirstOf({d \in OfKind(t, {"declarator"}) : t[d].up \in fields /\ t[d].name = name})

(* The type as written of the variable a loop goes through, found by going *)
(* up from the loop.                                                       *)
DeclaredTypeText(t, loop, name) ==
  LET Declared(n) == {d \in ChildrenOf(t, n, {"declarator"}) : t[d].name = name}
      Locals(k) == UNION {Declared(l) : l \in ChildrenOf(t, k, {"local"})}
      Offers(k) ==
        CASE t[k].kind = "block" -> LastOf({d \in Locals(k) : d < loop})
          [] t[k].kind = "foreach" -> IF t[k].name = name THEN k ELSE 0
          [] t[k].kind = "for" -> FirstOf(Locals(k))
          [] t[k].kind = "local" -> FirstOf(Declared(k))
          [] t[k].kind \in Types -> FieldOf(t, k + 1, name)
          [] OTHER -> ParameterOf(t, k, name)
      types == Around(t, loop) \cap OfKind(t, Types)
      nearest == LastOf({k \in Around(t, loop) : Offers(k) # 0})
  IN IF nearest = 0 \/ nearest < LastOf(types) THEN Unknown
     ELSE t[Offers(nearest)].type

(* A class of the file that implements Iterable<X>, itself or through the  *)
(* classes it extends ("of" of a class: the X, "type": what it extends).   *)
DirectlyIterable(t, name) ==
  LET Class(x) == FirstOf({n \in ChildrenOf(t, 1, {"class"}) : t[n].name = x})
      Up[left \in SUBSET Nodes(t)] ==
        [x \in {t[n].name : n \in Nodes(t)} \cup {t[n].type : n \in Nodes(t)} \cup {name} |->
           IF Class(x) \notin left THEN Unknown
           ELSE IF t[Class(x)].of # Unknown THEN t[Class(x)].of
           ELSE Up[left \ {Class(x)}][t[Class(x)].type]]
  IN Up[ChildrenOf(t, 1, {"class"})][name]

EnhancedForElement(t, loop) ==
  LET text == DeclaredTypeText(t, loop, t[loop].of)
  IN IF text = Unknown THEN Unknown
     ELSE IF ElementOf(text) # Unknown THEN ElementOf(text)
     ELSE DirectlyIterable(t, text)

(* The table "owner, method, number of parameters -> types" of the file.   *)
MethodReturnTypes(t, owner, name, args) ==
  {t[m].type : m \in {k \in OfKind(t, {"method"}) :
     /\ <<OwnerType(t, k), t[k].name, Len(t[k].params)>> = <<owner, name, args>>
     /\ t[k].type # Unknown}}

(* What a call whose receiver has the type "owner" returns.                *)
MethodCallReturnType(t, call, owner) ==
  LET types == MethodReturnTypes(t, owner, t[call].name, t[call].args)
  IN IF owner # Unknown /\ Cardinality(types) = 1
     THEN SimpleType(CHOOSE x \in types : TRUE) ELSE Unknown

(* "var x = ..." has the type of a cast, of what is constructed or of what *)
(* a call returns, unless the call in question is part of it.  "receiver"  *)
(* is the type of the receiver of the call on the right, if it is one.     *)
DeclaratorType(t, d, call, receiver) ==
  LET v == FirstOf(Children(t, d))
  IN IF t[d].type # "var" THEN SimpleType(t[d].type)
     ELSE IF v = 0 \/ call \in Within(t, d) THEN Unknown
     ELSE CASE t[v].kind = "cast" -> SimpleType(t[v].type)
            [] t[v].kind = "new" -> t[v].name
            [] t[v].kind = "call" -> MethodCallReturnType(t, v, receiver)
            [] OTHER -> Unknown

LocalType(t, d, call, receiver) ==
  CASE t[d].kind = "declarator" -> DeclaratorType(t, d, call, receiver)
    [] t[d].kind = "foreach" /\ t[d].type = "var" -> EnhancedForElement(t, d)
    [] OTHER -> SimpleType(t[d].type)

(* The receiver's type, by local variable, parameter and field.            *)
ReceiverType(t, call) ==
  LET caller == CallerOf(t, call)
      Of[c \in OfKind(t, {"call"})] ==
        LET local == LocalInForce(t, caller, c, t[c].of)
            parameter == ParameterOf(t, caller, t[c].of)
            field == FieldOf(t, caller, t[c].of)
            value == FirstOf(Children(t, local))
        IN CASE t[c].on \in {"nothing", "this"} -> OwnerType(t, caller)
             [] t[c].on \in {"new", "type"} -> t[c].of
             [] t[c].on = "call" ->
                  MethodCallReturnType(t, t[c].via, Of[t[c].via])
             [] t[c].on = "name" ->
                  IF local # 0 THEN LocalType(t, local, c, Of[value])
                  ELSE IF parameter # 0 THEN SimpleType(t[parameter].type)
                  ELSE IF field # 0 THEN SimpleType(t[field].type)
                  ELSE Unknown
             [] OTHER -> Unknown
  IN Of[call]

NoLookup == <<>>

(* For a chain a.f().g(): how to look f's return type up in other files.   *)
ReceiverMethodLookup(t, call) ==
  LET inner == t[call].via
  IN IF t[call].on # "call" THEN NoLookup
     ELSE IF ReceiverType(t, inner) = Unknown THEN NoLookup
     ELSE <<ReceiverType(t, inner), t[inner].name, t[inner].args>>
=============================================================================
