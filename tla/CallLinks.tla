------------------------------ MODULE CallLinks ------------------------------
(***************************************************************************)
(* Linking calls across files (repository_processing/                      *)
(* resolve_cross_file_calls.py).  A dotted name is the sequence of its     *)
(* parts, <<>> is "no name".  A file's context is what its header says     *)
(* about names; a return type is a row <<owner, method, arguments, <<type  *)
(* as written, full name>>>>, and a key with one row is a usable one.      *)
(***************************************************************************)
EXTENDS Integers, Sequences, FiniteSets, SequencesExt

NoName == <<>>
AnyCount == -1      \* the key None of a Python *args function

At(f, x) == IF x \in DOMAIN f THEN f[x] ELSE NoName
TheOnly(S) == IF Cardinality(S) = 1 THEN CHOOSE x \in S : TRUE ELSE NoName
Under(module, declared) == {n \in declared : IsStrictPrefix(module, n)}
WithShort(short, declared) == {n \in declared : Last(n) = short}

-----------------------------------------------------------------------------
(* Contexts.                                                               *)

EmptyContext ==
  [module |-> NoName, package |-> NoName, explicit |-> <<>>, aliases |-> <<>>,
   defaults |-> <<>>, requireAliases |-> <<>>, requireImports |-> <<>>,
   wildcards |-> {}]

PythonModuleName(path) == IF Last(path) = "__init__" THEN Front(path) ELSE path

AbsolutePythonImport(package, module, level) ==
  IF level = 0 THEN module
  ELSE LET kept == Len(package) - level + 1
       IN SubSeq(package, 1, IF kept > 0 THEN kept ELSE 0) \o module

(* An imported name is also a module alias: the statement does not say     *)
(* what the name stands for.  A name may be imported twice; of the order,  *)
(* in which the last one counts, nothing is kept.                          *)
PythonContext(path, imports) ==
  LET module == PythonModuleName(path)
      package == IF Last(path) = "__init__" THEN module ELSE Front(module)
      Full(i) == AbsolutePythonImport(package, i.module, i.level) \o <<i.name>>
      froms == {i \in imports : i.form = "from" /\ i.name # "*"}
      plain == {i \in imports : i.form = "import"}
      OneOf(S, local) == LET i == CHOOSE i \in S : i.local = local
                         IN IF i.form = "from" THEN Full(i) ELSE i.module
  IN [EmptyContext EXCEPT
        !.module = module,
        !.package = package,
        !.explicit = [l \in {i.local : i \in froms} |-> OneOf(froms, l)],
        !.aliases = [l \in {i.local : i \in froms \cup plain} |->
                        OneOf(froms \cup plain, l)]]

(* A part of a path loses what follows its last dot, extension or not.     *)
StepName(step) == IF Len(step) > 1 THEN Front(step) ELSE step

AbsoluteEcmascriptImport(module, relative, steps) ==
  LET Walk(at, step) ==
        IF at = <<"outside">> \/ step = <<".">> THEN at
        ELSE IF step = <<"..">>
             THEN IF at = <<>> THEN <<"outside">> ELSE Front(at)
             ELSE at \o StepName(step)
      found == FoldLeft(Walk, Front(module), steps)
  IN IF relative /\ found # <<"outside">> THEN found ELSE NoName

EcmascriptContext(module, imports) ==
  LET Found(i) == AbsoluteEcmascriptImport(module, i.relative, i.steps)
      Rows(forms) == {i \in imports : i.form \in forms /\ Found(i) # NoName}
      Bind(forms, named) ==
        [l \in {i.local : i \in Rows(forms)} |->
           LET i == CHOOSE i \in Rows(forms) : i.local = l
           IN IF named THEN Append(Found(i), i.name) ELSE Found(i)]
  IN [EmptyContext EXCEPT
        !.module = module,
        !.package = Front(module),
        !.explicit = Bind({"named"}, TRUE),
        !.aliases = Bind({"namespace"}, FALSE),
        !.defaults = Bind({"default"}, FALSE)]

(* const x = require(...) names a module, const {x} = require(...) imports.*)
WithRequires(context, imports) ==
  LET Found(i) == AbsoluteEcmascriptImport(context.module, i.relative, i.steps)
      Rows(form) == {i \in imports : i.form = form /\ Found(i) # NoName}
      Row(form, l) == CHOOSE i \in Rows(form) : i.local = l
  IN [context EXCEPT
        !.requireAliases = [l \in {i.local : i \in Rows("require")} |->
                              Found(Row("require", l))],
        !.requireImports = [l \in {i.local : i \in Rows("destructured")} |->
                              Append(Found(Row("destructured", l)),
                                     Row("destructured", l).name)]]

JavaContext(package, imports) ==
  LET single == {i \in imports : i.form = "single"}
  IN [EmptyContext EXCEPT
        !.package = package,
        !.explicit = [l \in {Last(i.module) : i \in single} |->
                        (CHOOSE i \in single : Last(i.module) = l).module],
        !.wildcards = {i.module : i \in imports \ single}]

-----------------------------------------------------------------------------
(* _resolve_type_full_name: the name as written, in its file.              *)

(* Changed: the file's own package is asked before its imports.            *)
ByPackage(type, context, declared) ==
  LET short == Last(type)
      visible == << Append(context.package, short), Append(context.module, short),
                    At(context.explicit, short), At(context.requireImports, short) >>
      known == SelectInSeq(visible, LAMBDA n : n \in declared)
      wild == {Append(w, short) : w \in context.wildcards} \cap declared
  IN IF known # 0 THEN visible[known]
     ELSE IF Cardinality(wild) = 1 THEN TheOnly(wild)
     ELSE TheOnly(WithShort(short, declared))

(* The last steps, for names that no alias and no default import decides.  *)
ByScope(type, context, declared) ==
  LET short == Last(type)
      visible == << At(context.requireImports, short),
                    At(context.explicit, short),
                    Append(context.module, short),
                    Append(context.package, short) >>
      known == SelectInSeq(visible, LAMBDA n : n \in declared)
      wild == {Append(w, short) : w \in context.wildcards} \cap declared
  IN IF known # 0 THEN visible[known]
     ELSE IF Cardinality(wild) = 1 THEN TheOnly(wild)
     ELSE TheOnly(WithShort(short, declared))

Resolve(type, context, declared) ==
  LET prefix == IF At(context.aliases, type[1]) # NoName
                THEN At(context.aliases, type[1])
                ELSE At(context.requireAliases, type[1])
      qualified == Len(type) > 1
      within == {n \in Under(prefix, declared) : Last(n) = Last(type)}
      default == IF At(context.defaults, type[1]) # NoName
                 THEN At(context.defaults, type[1]) ELSE prefix
  IN IF type \in declared THEN type
     ELSE IF prefix # NoName /\ prefix \o Tail(type) \in declared
       THEN prefix \o Tail(type)
     ELSE IF qualified /\ prefix # NoName /\ within # {} THEN TheOnly(within)
     ELSE IF ~qualified /\ default # NoName THEN TheOnly(Under(default, declared))
     ELSE ByScope(type, context, declared)

(* The header says of this name once where it comes from: an alias of the  *)
(* same name is the same thing.  Not so when a file imports one name twice,*)
(* "from a import X" and "import b as X".                                  *)
BoundOnce(context, local) ==
  LET bound == At(context.explicit, local)
  IN bound # NoName =>
       /\ At(context.aliases, local) \in {NoName, bound}
       /\ At(context.requireAliases, local) = NoName
       /\ At(context.defaults, local) = NoName
       /\ At(context.requireImports, local) = NoName

(* A name is linked to a declared type or not at all.  One that the file   *)
(* imports is linked to what it imports if that is declared, and where an  *)
(* import may be of a module (Python) to nothing outside it; one that the  *)
(* file does not import to a type of its module, package or wildcard       *)
(* imports, or to the only one of that name (_resolve_type_full_name).     *)
LinkFollows(type, context, declared) ==
  LET result == Resolve(type, context, declared)
      local == type[1]
      plain == Len(type) = 1 /\ type \notin declared
      bound == At(context.explicit, local)
      free == local \notin DOMAIN context.explicit \cup DOMAIN context.aliases
                             \cup DOMAIN context.defaults
                             \cup DOMAIN context.requireAliases
                             \cup DOMAIN context.requireImports
      near == {Append(context.module, local), Append(context.package, local)}
              \cup {Append(w, local) : w \in context.wildcards}
  IN /\ result \in declared \cup {NoName}
     /\ plain /\ bound \in declared => result = bound
     /\ plain /\ bound # NoName /\ At(context.aliases, local) = bound =>
          result = NoName \/ IsPrefix(bound, result)
     /\ plain /\ free /\ result # NoName =>
          result \in near \/ WithShort(local, declared) = {result}

-----------------------------------------------------------------------------
(* The repository: a sequence of Java, Python and TypeScript type chunks,  *)
(* a set of method chunks, and the contexts by file.                       *)

DeclaredTypes(types) == {types[i].name : i \in DOMAIN types}

(* The first chunk of a name gives its supertypes; a Python class with an  *)
(* unknown base is taken to have none.                                     *)
ResolveSupertypes(types, contexts, declared) ==
  LET First(n) == types[SelectInSeq(types, LAMBDA t : t.name = n)]
      Known(t, s) == LET full == Resolve(s, contexts[t.path], declared)
                     IN IF full = NoName THEN {} ELSE {full}
      Parents(t) == UNION {Known(t, s) : s \in t.supers}
  IN [n \in declared |->
        LET t == First(n)
        IN IF t.lang = "python" /\ \E s \in t.supers : Known(t, s) = {}
           THEN {} ELSE Parents(t)]

(* What the chunks of types and methods carry to the graph: the resolved   *)
(* supertypes and ancestors, a method those of its owner.                  *)
AttachTypeRelations(chunk, supertypes, ancestors) ==
  LET isType == chunk.kind \in {"class", "interface", "enum", "annotation", "record"}
      owner == IF isType THEN chunk.name ELSE Front(chunk.name)
      At2(f) == IF owner \in DOMAIN f THEN f[owner] ELSE {}
  IN [chunk EXCEPT !.supers = IF isType THEN At2(supertypes) ELSE {},
                   !.ancestors = At2(ancestors)]

(* Everything reached through one supertype or more, the least set that    *)
(* has the parents of the name and of its members; the name itself only    *)
(* when the declarations are cyclic.                                       *)
Ancestors(parents) ==
  LET Closed(S) == \A k \in S : parents[k] \subseteq S
  IN [n \in DOMAIN parents |->
        {d \in DOMAIN parents :
           \A S \in SUBSET DOMAIN parents :
             parents[n] \subseteq S /\ Closed(S) => d \in S}]

(* The rows of one method; a Python type that is not known gives no row, a *)
(* Java one a row without a full name.                                     *)
ReturnRows(m, contexts, declared) ==
  LET full == Resolve(m.returns, contexts[m.path], declared)
      Row(count) == <<m.owner, m.name, count, <<m.returns, full>>>>
  IN IF m.returns = NoName THEN {}
     ELSE IF m.lang = "java" THEN {Row(m.max)}
     ELSE IF full = NoName THEN {}
     ELSE {Row(n) : n \in m.min .. m.max}
          \cup (IF m.extra THEN {Row(AnyCount)} ELSE {})

CollectReturnTypes(methods, contexts, declared) ==
  UNION {ReturnRows(m, contexts, declared) : m \in methods}

Candidates(table, owner, name, count) ==
  {row[4] : row \in {r \in table : <<r[1], r[2], r[3]>> = <<owner, name, count>>}}

(* Changed: an ancestor's method is taken over even when it is redeclared. *)
InheritAll(table, methods, type, ancestor) ==
  table \cup {<<type, r[2], r[3], r[4]>> :
     r \in {x \in table : /\ x[1] = ancestor
                         /\ Cardinality(Candidates(table, x[1], x[2], x[3])) = 1}}

(* A method with a dot in its Java signature (a "..." or a qualified type) *)
(* is not seen to be the type's own.                                       *)
DeclaredNames(methods, type) ==
  {m.name : m \in {x \in methods : x.owner = type /\ ~x.dotted}}

(* One step of _propagate_inherited_methods: what "type" takes over from   *)
(* one ancestor.  It reads and extends the same table, in the order of the *)
(* chunks and of a set.                                                    *)
Inherit(table, methods, type, ancestor) ==
  LET usable == {r \in table :
                   /\ r[1] = ancestor
                   /\ r[2] \notin DeclaredNames(methods, type)
                   /\ Cardinality(Candidates(table, r[1], r[2], r[3])) = 1}
  IN table \cup {<<type, r[2], r[3], r[4]>> : r \in usable}

MergeReturnTypes(table) ==
  {r \in table : Cardinality(Candidates(table, r[1], r[2], r[3])) = 1}

NoType == <<NoName, NoName>>

(* The type that the inner call of a chain returns.                        *)
ReturnTypeForCall(call, context, table, declared) ==
  LET owner == Resolve(call.owner, context, declared)
      exact == Candidates(table, owner, call.method, call.args)
      found == IF exact # {} THEN exact
               ELSE Candidates(table, owner, call.method, AnyCount)
  IN IF call.owner = NoName \/ owner = NoName \/ Cardinality(found) # 1
     THEN NoType
     ELSE CHOOSE t \in found : TRUE

(* The receiver of one call after the pass: a known return type replaces   *)
(* what the file's parser said, otherwise the parser's type is completed.  *)
LinkCall(call, context, table, declared) ==
  LET returned == ReturnTypeForCall(call, context, table, declared)
  IN IF returned # NoType THEN returned
     ELSE IF call.receiver = NoName THEN NoType
     ELSE <<call.receiver, Resolve(call.receiver, context, declared)>>
=============================================================================
