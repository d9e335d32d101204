-------------------------- MODULE EcmascriptChunks --------------------------
(***************************************************************************)
(* Cutting a JavaScript or TypeScript file (code_splitting/javascript/     *)
(* split_javascript_declarations.py).                                      *)
(*                                                                         *)
(* Kinds of nodes: "program", "export", "class", "abstract" (a class),     *)
(* "interface", "type" (an enum or a type alias), "function", "closure"    *)
(* (an arrow function or a function expression), "variable" (a declaration *)
(* with its "declarator"s), "method", "signature", "body", "parameter"     *)
(* (mark: "plain", "optional", "default", "rest", "property"), "new",      *)
(* "index", "call", "other".  "name" is what a node declares, constructs,  *)
(* indexes or calls ("" when the parser finds none), "type" its annotation *)
(* or a method's return type ("" without a simple one), "args" the number  *)
(* of arguments.  A call's "on" is the form of its receiver: "nothing",    *)
(* "this", "name", "member" (this.x), "new" or "other"; "of" the name.     *)
(***************************************************************************)
EXTENDS SyntaxTree, SequencesExt

CONSTANTS
  IsTypeName(_),     \* the name starts with an upper-case letter
  ElementOf(_)       \* the X of X[], "" when that is no array or one of arrays

Unknown == ""
Named(t, S, name) == {n \in S : t[n].name = name}
ChildrenOf(t, n, kinds) == Children(t, n) \cap OfKind(t, kinds)
BodyOf(t, n) == FirstOf(ChildrenOf(t, n, {"body"}))

(* const f = () => ...: one declarator, whose value is a closure.          *)
VariableFunction(t, n) ==
  LET declarators == ChildrenOf(t, n, {"declarator"})
  IN IF t[n].kind = "variable" /\ Cardinality(declarators) = 1
     THEN FirstOf(ChildrenOf(t, FirstOf(declarators), {"closure"}))
     ELSE 0

DeclarationKinds == {"class", "abstract", "interface", "type", "function"}

TopLevel(t) ==
  {n \in Nodes(t) : /\ t[n].kind \in DeclarationKinds \/ VariableFunction(t, n) # 0
                    /\ \A k \in Around(t, n) : t[k].kind \in {"program", "export"}}

Chunk(n, kind, from, to, code) ==
  [kind |-> kind, node |-> n, from |-> from, to |-> to, code |-> code]

AppendFunction(t, n) ==
  LET closure == VariableFunction(t, n)
  IN Chunk(n, "function", n, EndOf(t, n) + 1, IF closure = 0 THEN n ELSE closure)

(* A class is cut before its body, its methods are chunks of their own.    *)
AppendClass(t, n) ==
  LET body == BodyOf(t, n)
      to == IF body = 0 THEN EndOf(t, n) + 1 ELSE body
      methods == IF body = 0 THEN {} ELSE ChildrenOf(t, body, {"method"})
  IN {Chunk(n, "class", n, to, 0)}
     \cup {Chunk(k, "method", k, EndOf(t, k) + 1, k) : k \in methods}

(* Interfaces, enums and aliases are whole; an interface's methods are     *)
(* chunks as well.                                                         *)
AppendType(t, n) ==
  LET signatures == IF t[n].kind # "interface" \/ BodyOf(t, n) = 0 THEN {}
                    ELSE ChildrenOf(t, BodyOf(t, n), {"signature"})
  IN {Chunk(n, t[n].kind, n, EndOf(t, n) + 1, 0)}
     \cup {Chunk(k, "method", k, EndOf(t, k) + 1, k) : k \in signatures}

Header(t) ==
  Chunk(1, "file", 2, IF TopLevel(t) = {} THEN EndOf(t, 1) + 1
                         ELSE FirstOf(TopLevel(t)), 0)

VisitDeclaration(t, n) ==
  CASE t[n].kind \in {"class", "abstract"} -> AppendClass(t, n)
    [] t[n].kind \in {"interface", "type"} -> AppendType(t, n)
    [] OTHER -> {AppendFunction(t, n)}

Split(t) ==
  {c \in {Header(t)} \cup UNION {VisitDeclaration(t, n) : n \in TopLevel(t)} :
     c.from < c.to}

-----------------------------------------------------------------------------

(* The calls in a function's body, without those of classes and functions  *)
(* declared in it; closures belong to it.                                  *)
Calls(t, f) ==
  LET Closed(n) == t[n].kind \in {"class", "function", "method"}
      body == BodyOf(t, f)
  IN IF body = 0 THEN {}
     ELSE {n \in Walk(t, body, Closed) : t[n].kind = "call" /\ t[n].name # ""}

CodeCalls(t, chunk) == IF chunk.code = 0 THEN {} ELSE Calls(t, chunk.code)

ParameterCounts(t, f) ==
  LET ps == ChildrenOf(t, f, {"parameter"})
      Marked(marks) == {p \in ps : t[p].mark \in marks}
  IN [count |-> Cardinality(ps \ Marked({"rest"})),
      required |-> Cardinality(Marked({"plain", "property"})),
      extra |-> Marked({"rest"}) # {}]

(* The class a function is in, for this.method(): not an abstract one.     *)
OwnerOf(t, f) == LastOf(Around(t, f) \cap OfKind(t, {"class"}))

(* const x = this.method(): the annotation on which all the methods of     *)
(* this name and number of parameters agree.                               *)
CallReturnType(t, f, call) ==
  LET body == IF OwnerOf(t, f) = 0 THEN 0 ELSE BodyOf(t, OwnerOf(t, f))
      methods == {m \in Named(t, ChildrenOf(t, body, {"method"}), t[call].name) :
                    Cardinality(ChildrenOf(t, m, {"parameter"})) = t[call].args}
      types == {t[m].type : m \in methods} \ {Unknown}
  IN IF body # 0 /\ t[call].on = "this" /\ Cardinality(types) = 1
     THEN CHOOSE x \in types : TRUE ELSE Unknown

(* The declarators of the name in a function before a place, in whatever   *)
(* block or closure they stand.                                            *)
DeclaratorsBefore(t, f, name, place) ==
  LET Closed(n) == t[n].kind \in {"class", "function", "method"}
  IN {d \in Named(t, Walk(t, f, Closed), name) :
        t[d].kind = "declarator" /\ d < place}

ParameterType(t, f, name) ==
  LET typed == {p \in Named(t, ChildrenOf(t, f, {"parameter"}), name) :
                  t[p].type # Unknown}
  IN IF typed = {} THEN Unknown ELSE t[FirstOf(typed)].type

(* A parameter's annotation, or what the only declarator before the call   *)
(* says; "index" is xs[i], whose array is looked up in the same way.       *)
DeclaredVariableType(t, f, name, place) ==
  LET Value(d) == FirstOf(Children(t, d))
      Said(d, Array(_, _)) ==
        LET v == Value(d)
        IN CASE t[d].type # Unknown -> t[d].type
             [] v = 0 -> Unknown
             [] t[v].kind = "new" -> t[v].name
             [] t[v].kind = "call" -> CallReturnType(t, f, v)
             [] t[v].kind = "index" -> ElementOf(Array(t[v].name, d))
             [] OTHER -> Unknown
      Type[k \in Nat] ==
        [n \in {t[i].name : i \in Nodes(t)} \cup {name} |->
           LET Array(array, at) == Type[at][array]
               ds == DeclaratorsBefore(t, f, n, k)
           IN IF ParameterType(t, f, n) # Unknown THEN ParameterType(t, f, n)
              ELSE IF Cardinality(ds) = 1 THEN Said(FirstOf(ds), Array)
              ELSE Unknown]
  IN Type[place][name]

(* this.x: a parameter property of the first constructor with parameters.  *)
ConstructorPropertyType(t, class, name) ==
  LET body == BodyOf(t, class)
      constructor == IF body = 0 THEN 0
        ELSE FirstOf(Named(t, ChildrenOf(t, body, {"method"}), "constructor"))
      ps == IF constructor = 0 THEN {}
            ELSE {p \in Named(t, ChildrenOf(t, constructor, {"parameter"}), name) :
                    t[p].mark = "property"}
  IN IF ps = {} THEN Unknown ELSE t[FirstOf(ps)].type

(* f is a function or a method; only a method has an owner.                *)
ReceiverType(t, f, call) ==
  LET owner == IF t[f].kind = "method" THEN t[t[f].up].up ELSE 0
      name == t[call].of
      declared == DeclaredVariableType(t, f, name, call)
  IN CASE t[call].on = "this" /\ owner # 0 -> t[owner].name
       [] t[call].on = "name" ->
            IF declared # Unknown THEN declared
            ELSE IF IsTypeName(name) THEN name ELSE Unknown
       [] t[call].on = "member" /\ owner # 0 ->
            ConstructorPropertyType(t, owner, name)
       [] t[call].on = "new" -> name
       [] OTHER -> Unknown
=============================================================================
