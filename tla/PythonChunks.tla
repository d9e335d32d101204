---------------------------- MODULE PythonChunks ----------------------------
(***************************************************************************)
(* Cutting a Python file (code_splitting/python/                           *)
(* split_python_declarations.py): its chunks, the calls of each function,  *)
(* and what is known of the type of a call's receiver.                     *)
(*                                                                         *)
(* Kinds of nodes: "module", "class", "function", "decorated", "block" (a  *)
(* branch, a loop or a try, with its statements), "for", "assign", "store" *)
(* (an assignment to self.x), "call", "parameter", "defaulted" (one with a *)
(* default value), "other".  "name" is what a node declares, assigns or    *)
(* calls, "type" its annotation ("" when there is none).  A call's "on" is *)
(* the form of its receiver, "nothing", "name", "self", "new" or "call",   *)
(* "of" the name in it; "of" of a loop or a store is what it takes from.   *)
(* "via" is the call on the right of an assignment or inside a receiver.   *)
(***************************************************************************)
EXTENDS SyntaxTree, SequencesExt

CONSTANTS
  IsTypeName(_),     \* the name starts with an upper-case letter
  ElementOf(_)       \* the X of the annotation list[X], "" for any other

Parameters == {"parameter", "defaulted"}

Unknown == ""
Declarations(t) == OfKind(t, {"class", "function"})

(* Every declaration is visited, through blocks and bodies; its full name  *)
(* is the module's and the names of the declarations around it.            *)
FullName(t, module, n) ==
  LET path == PathIn(t, n, Declarations(t))
  IN module \o [i \in DOMAIN path |-> t[path[i]].name]

StartOf(t, n) == IF t[n].up # 0 /\ t[t[n].up].kind = "decorated" THEN t[n].up ELSE n

(* A class is cut before its body, which its own declarations cover.       *)
StopOf(t, n) ==
  LET body == Children(t, n)
  IN IF t[n].kind = "class" /\ body # {} THEN FirstOf(body) ELSE EndOf(t, n) + 1

Header(t) ==
  LET top == {n \in Children(t, 1) : t[n].kind \in {"class", "function", "decorated"}}
  IN [kind |-> "file", node |-> 1, from |-> 2,
      to |-> IF top = {} THEN EndOf(t, 1) + 1 ELSE FirstOf(top)]

(* An empty range gives no chunk.                                          *)
Split(t) ==
  {c \in {Header(t)} \cup
         {[kind |-> t[n].kind, node |-> n, from |-> StartOf(t, n), to |-> StopOf(t, n)] :
            n \in Declarations(t)} : c.from < c.to}

-----------------------------------------------------------------------------

(* Changed: the calls of inner declarations are taken as well.             *)
CodeCallsOfAll(t, f) == {n \in Within(t, f) : t[n].kind = "call"}

(* The calls of a function, without those of the declarations in it.       *)
CodeCalls(t, f) ==
  LET Closed(n) == n \in Declarations(t)
  IN {n \in Walk(t, f, Closed) : t[n].kind = "call"}

(* The parameters a caller may or must give: separators and defaults are   *)
(* marked on the parameter ("plain", "default", "rest", "keywords", the two *)
(* separators, and "typed" for an annotated *args or **kwargs, which counts *)
(* as a plain one); self or cls of a method is not counted.                *)
ParameterInfo(ps, inClass) ==
  LET given == IF inClass /\ ps # <<>> /\ Head(ps).name \in {"self", "cls"}
               THEN Tail(ps) ELSE ps
      Before(i, marks) == \E j \in 1 .. i - 1 : given[j].mark \in marks
      After(i, mark) == \E j \in i + 1 .. Len(given) : given[j].mark = mark
      Real(i) == given[i].mark \in {"plain", "typed", "default"}
      KeywordOnly(i) == Before(i, {"*", "rest"})
      NamesOf(S) == {given[i].name : i \in S}
      all == {i \in DOMAIN given : Real(i)}
      plain == {i \in all : given[i].mark # "default"}
  IN [total |-> Cardinality(all),
      required |-> Cardinality(plain),
      positional |-> Cardinality({i \in all : ~KeywordOnly(i)}),
      keywords |-> NamesOf({i \in all : ~After(i, "/") \/ Before(i, {"*", "rest"})}),
      requiredKeywords |-> NamesOf({i \in plain : KeywordOnly(i)}),
      extra |-> \E i \in DOMAIN given : given[i].mark = "rest",
      defaults |-> \E i \in DOMAIN given : given[i].mark \in {"default", "rest", "keywords"},
      extraKeywords |-> \E i \in DOMAIN given : given[i].mark = "keywords"]

-----------------------------------------------------------------------------

(* May a statement that is not an assignment itself assign the variable?   *)
NodeAssigns(t, n, variable) ==
  LET Closed(k) == k \in Declarations(t)
  IN \E k \in Walk(t, n, Closed) : t[k].kind = "assign" /\ t[k].name = variable

(* The last assignment to the variable among the statements of f's body    *)
(* before the one the call is in, 0 when none or when a compound statement *)
(* after it may have assigned too.                                         *)
AssignedBefore(t, f, call, variable) ==
  LET body == {n \in Children(t, f) : t[n].kind \notin Parameters}
      own == {n \in body : n = call \/ n \in Around(t, call)}
      before == {n \in body : \A o \in own : n < o}
      touching == {n \in before :
                     IF t[n].kind = "assign" THEN t[n].name = variable
                     ELSE NodeAssigns(t, n, variable)}
      last == LastOf(touching)
  IN IF own = {} \/ last = 0 \/ t[last].kind # "assign" THEN 0 ELSE last

(* The parameter's annotation, or that of some annotated assignment        *)
(* anywhere in the node.                                                   *)
DeclaredType(t, f, variable) ==
  LET parameter == {n \in Children(t, f) : /\ t[n].kind \in Parameters
                                           /\ t[n].name = variable
                                           /\ t[n].type # Unknown}
      assigned == {n \in Within(t, f) : /\ t[n].kind = "assign"
                                        /\ t[n].name = variable
                                        /\ t[n].type # Unknown}
  IN IF parameter # {} THEN t[FirstOf(parameter)].type
     ELSE IF assigned # {} THEN t[FirstMet(t, assigned)].type
     ELSE Unknown

(* for v in xs, with xs annotated list[X] in the function or around it:    *)
(* ElementOf gives the X of a list annotation.                             *)
ForVariableType(t, f, variable) ==
  LET loops == {n \in Within(t, f) : t[n].kind = "for" /\ t[n].name = variable}
      Iterable(n) ==
        LET scopes == {k \in {f} \cup Around(t, f) :
                         DeclaredType(t, k, t[n].of) # Unknown}
        IN IF scopes = {} THEN Unknown ELSE DeclaredType(t, LastOf(scopes), t[n].of)
      typed == {n \in loops : ElementOf(Iterable(n)) # Unknown}
  IN IF typed = {} THEN Unknown ELSE ElementOf(Iterable(FirstMet(t, typed)))

(* self.x where __init__ says self.x = p and p is annotated: the class is  *)
(* looked up by its short name in the whole file.                          *)
AttributeType(t, class, attribute) ==
  LET Named(S, name) == FirstMet(t, {n \in S : t[n].name = name})
      owner == Named(OfKind(t, {"class"}), class)
      init == IF owner = 0 THEN 0
              ELSE Named(Within(t, owner) \cap OfKind(t, {"function"}), "__init__")
      store == IF init = 0 THEN 0
               ELSE Named(Within(t, init) \cap OfKind(t, {"store"}), attribute)
      parameter == IF store = 0 THEN 0
                   ELSE Named(Children(t, init) \cap OfKind(t, {"parameter"}),
                              t[store].of)
  IN IF parameter = 0 THEN Unknown ELSE t[parameter].type

(* The function whose names a function sees next: the one it is declared   *)
(* in directly; a class, a branch or a decorator in between ends the chain.*)
OuterFunction(t, f) ==
  IF t[f].up # 0 /\ t[t[f].up].kind = "function" THEN t[f].up ELSE 0

NameType(t, f, variable) ==
  LET Here(k) == IF ForVariableType(t, k, variable) # Unknown
                 THEN ForVariableType(t, k, variable)
                 ELSE DeclaredType(t, k, variable)
      From[k \in Nat] ==
        IF k = 0 THEN IF IsTypeName(variable) THEN variable ELSE Unknown
        ELSE IF Here(k) # Unknown THEN Here(k) ELSE From[OuterFunction(t, k)]
  IN From[f]

(* In a function within a method "self" leads nowhere: its owner is taken  *)
(* to be the declaration just around it, which is no class.                *)
ReceiverType(t, f, call) ==
  LET owner == LastOf(Around(t, f) \cap Declarations(t))
      name == t[call].of
  IN CASE t[call].on = "name" -> NameType(t, f, name)
       [] t[call].on = "self" ->
            IF owner = 0 THEN Unknown ELSE AttributeType(t, t[owner].name, name)
       [] t[call].on = "new" -> IF IsTypeName(name) THEN name ELSE Unknown
       [] OTHER -> Unknown

NoLookup == <<>>

(* A method called on the result of another call, made there or assigned   *)
(* to the variable before: the inner call's owner type, method and count.  *)
ReturnMethodLookup(t, f, call) ==
  LET assigned == AssignedBefore(t, f, call, t[call].of)
      inner == CASE t[call].on = "call" -> t[call].via
                 [] t[call].on = "name" /\ assigned # 0 -> t[assigned].via
                 [] OTHER -> 0
  IN IF inner = 0 \/ t[inner].on = "nothing" \/ ReceiverType(t, f, inner) = Unknown
     THEN NoLookup
     ELSE <<ReceiverType(t, f, inner), t[inner].name, t[inner].args>>
=============================================================================
