-------------------------- MODULE MCCodeProcessing --------------------------
(***************************************************************************)
(* The algorithms that turn source files into chunks, links and a graph,   *)
(* on all small inputs: a step adds a node to a syntax tree, or takes the  *)
(* next step of a pass, and the invariants compare what the modules say    *)
(* with definitions of another shape.                                      *)
(***************************************************************************)
EXTENDS InheritedReturns, CallMatching, Search

VARIABLES
  subject,   \* what is looked at
  tree,      \* a file's syntax tree
  input      \* other input: imports and names, chunks, calls

machines == <<passVars, matchVars, searchVars>>
vars == <<subject, tree, input, machines>>

CONSTANTS MaxNodes, MaxCalls

AnyTypeName(name) == FALSE
NoElement(type) == ""
SameType(type) == type

Py == INSTANCE PythonChunks WITH IsTypeName <- AnyTypeName, ElementOf <- NoElement
Js == INSTANCE EcmascriptChunks WITH IsTypeName <- AnyTypeName, ElementOf <- NoElement
Jv == INSTANCE JavaChunks WITH SimpleType <- SameType, ElementOf <- NoElement

-----------------------------------------------------------------------------
(* Trees.                                                                  *)

JavaCalls == {"java calls", "java inner calls", "java local calls"}

(* What may stand in what.                                                 *)
Grammar(s) ==
  CASE s = "python calls" ->
         [module |-> {"class", "function", "decorated", "block", "call"},
          class |-> {"function", "class", "decorated", "call"},
          function |-> {"class", "function", "decorated", "block", "call"},
          decorated |-> {"call", "class", "function"},
          block |-> {"class", "function", "decorated", "call"},
          call |-> {"call"}]
    [] s = "script calls" ->
         [program |-> {"class", "function", "variable", "call"},
          class |-> {"body"},
          method |-> {"body"},
          function |-> {"body"},
          closure |-> {"body"},
          variable |-> {"declarator"},
          declarator |-> {"closure"},
          body |-> {"method", "function", "closure", "call"},
          call |-> {"closure"}]
    [] s \in JavaCalls ->
         [program |-> {}, class |-> {"body"},
          body |-> {"method", "block", "field", "class"},
          field |-> {"declarator"}, declarator |-> {"new", "call"},
          method |-> {"block"}, block |-> {"class", "new", "call"},
          new |-> {"call", "body"}, call |-> {"new"}]
    [] s = "java text" ->
         [program |-> {"import", "comment", "class"}, import |-> {}, comment |-> {},
          class |-> {"comment", "body"}, body |-> {"comment", "field", "method", "class"},
          field |-> {"declarator"}, declarator |-> {"comment"}, method |-> {"block"},
          block |-> {"comment"}]
    [] s = "python values" ->
         [module |-> {}, function |-> {"block", "assign", "call", "function"},
          block |-> {"block", "assign", "call"}, assign |-> {"call"}, call |-> {}]
    [] s = "java values" ->
         [program |-> {}, class |-> {}, body |-> {"field"}, field |-> {"declarator"},
          declarator |-> {}, method |-> {"parameter", "block"}, parameter |-> {},
          block |-> {"block", "local", "foreach", "call"},
          local |-> {"declarator"}, foreach |-> {"block", "call"}, call |-> {}]

TreeSubjects == JavaCalls \cup {"java text", "python calls", "script calls",
                                "python values", "java values"}

TypeNames == <<"T1", "T2", "T3", "T4", "T5", "T6", "T7", "T8", "T9", "T10",
               "T11", "T12">>

(* One variable x; every declaration of it has a type of its own.          *)
Node(n, up, kind, apart) ==
  [kind |-> kind, up |-> up,
   name |-> IF kind = "new" \/ subject \in JavaCalls \cup {"java text"}
           THEN TypeNames[n] ELSE "x",
   type |-> IF kind \in {"declarator", "parameter", "foreach"} /\ subject = "java values"
            THEN TypeNames[n] ELSE "",
   on |-> "name", of |-> "x", via |-> 0, args |-> 0, params |-> <<>>,
   mark |-> "plain", apart |-> apart]

StartKinds(s) ==
  CASE s = "python calls" -> <<"module">>
    [] s = "script calls" -> <<"program">>
    [] s = "java calls" -> <<"program", "class", "body">>
    [] s = "java text" -> <<"program">>
    [] s = "python values" -> <<"module", "function">>
    [] s = "java inner calls" ->
         <<"program", "class", "body", "method", "block", "new", "body">>
    [] s = "java local calls" ->
         <<"program", "class", "body", "method", "block", "class", "body">>
    [] s = "java values" -> <<"program", "class", "body", "method">>
    [] OTHER -> <<>>

(* A file's text needs more nodes to be worth looking at; what starts as a *)
(* class in a class needs fewer.                                           *)
Growth(s) ==
  CASE s = "java text" -> MaxNodes + 1
    [] s \in {"java inner calls", "java local calls"} -> MaxNodes - 1
    [] OTHER -> MaxNodes

Spine(t) == {Len(t)} \cup Py!Around(t, Len(t))

Fits(up, kind) ==
  LET kinds == {tree[c].kind : c \in Py!Children(tree, up)}
  IN /\ "body" \notin kinds
     /\ tree[up].kind = "decorated" => kinds \cap {"class", "function"} = {}
     /\ tree[up].kind \in {"declarator", "variable", "field", "local"} => kinds = {}
     /\ tree[up].kind = "method" => kind \notin kinds /\ "block" \notin kinds

AddNode ==
  /\ subject \in TreeSubjects
  /\ Len(tree) < Len(StartKinds(subject)) + Growth(subject)
  /\ \E up \in Spine(tree) : \E kind \in Grammar(subject)[tree[up].kind] :
       /\ Fits(up, kind)
       /\ \E apart \in IF kind = "comment" THEN BOOLEAN ELSE {FALSE} :
            tree' = Append(tree, Node(Len(tree) + 1, up, kind, apart))
  /\ UNCHANGED <<subject, input, machines>>

-----------------------------------------------------------------------------
(* Linking.                                                                *)

A == <<"a", "B">>
B == <<"b", "B">>
C == <<"a", "C">>
Import(form, module, name, local) ==
  [form |-> form, module |-> module, level |-> 0, name |-> name, local |-> local]
PythonImports ==
  {Import("from", <<"a">>, "B", "B"), Import("from", <<"b">>, "B", "X"),
   Import("import", <<"a">>, "", "a"), Import("import", <<"b">>, "", "X"),
   Import("from", <<"ext">>, "B", "B")}
JavaImports ==
  {[form |-> f, module |-> m] : f \in {"single"}, m \in {A, B, <<"ext", "B">>}}
  \cup {[form |-> "wildcard", module |-> <<m>>] : m \in {"a", "b"}}
ScriptImports ==
  {[form |-> f, relative |-> r, steps |-> <<<<"a">>>>, name |-> "B", local |-> l] :
     f \in {"named", "default", "namespace"}, r \in BOOLEAN, l \in {"B", "X"}}
Clashing(is) == \E i, j \in is : i # j /\ i.local = j.local
DeclaredSets == SUBSET {A, B, C, <<"B">>}
Written == {<<"B">>, <<"X">>, <<"a", "B">>, <<"X", "B">>, <<"X", "C">>}

ChooseLink ==
  /\ subject = "links"
  /\ input = <<>>
  /\ \E declared \in DeclaredSets, type \in Written, package \in {"a", "z"} :
       \/ \E is \in SUBSET PythonImports :
            /\ Cardinality(is) <= 2 /\ ~Clashing(is)
            /\ input' = [lang |-> "python", declared |-> declared, type |-> type,
                         context |-> PythonContext(<<package, "m">>, is)]
       \/ \E is \in SUBSET JavaImports :
            /\ Cardinality({i.form : i \in {j \in is : j.form = "single"}}) <= 1
            /\ Cardinality({i \in is : i.form = "single"}) <= 1
            /\ input' = [lang |-> "java", declared |-> declared, type |-> type,
                         context |-> JavaContext(<<package>>, is)]
       \/ \E is \in SUBSET ScriptImports :
            /\ Cardinality(is) <= 2 /\ ~Clashing(is)
            /\ input' = [lang |-> "script", declared |-> declared, type |-> type,
                         context |-> EcmascriptContext(<<package>>, is)]
  /\ UNCHANGED <<subject, tree, machines>>

-----------------------------------------------------------------------------
(* Inheritance of return types.                                            *)

Kinds3 == {<<"P">>, <<"Q">>, <<"R">>}
Method(owner, dotted) == [owner |-> owner, name |-> "m", dotted |-> dotted]
MCMethods == {Method(k, dotted) : k \in Kinds3, dotted \in BOOLEAN}
MCRows == {<<k, "m", 0, <<u, <<u>>>>>> : k \in Kinds3, u \in {"U", "V"}}

(* A type does not declare the method, or with what it says of its return  *)
(* type; overloads may say two things.                                     *)
SmallPass ==
  \E parents \in [Kinds3 -> SUBSET Kinds3],
     says \in [Kinds3 -> {{"absent"}, {}, {"U"}, {"V"}, {"U", "V"}}], dotted \in BOOLEAN :
    /\ \A k \in Kinds3 : k \notin parents[k]
    /\ PassOf({Method(k, dotted) : k \in {x \in Kinds3 : says[x] # {"absent"}}},
              {r \in MCRows : r[4][1] \in says[r[1]]}, parents)

NoPass ==
  /\ methods = {} /\ start = {} /\ table = {} /\ waiting = {} /\ left = {}
  /\ ancestors = <<>>
  /\ taker = NoName

Inheriting == InheritNext /\ UNCHANGED <<subject, tree, input, matchVars, searchVars>>

-----------------------------------------------------------------------------
(* The graph.                                                              *)

Callable(id, path, name, from, to, calls) ==
  [id |-> id, path |-> path, lang |-> "java", kind |-> "method", name |-> name,
   params |-> 0, required |-> 0, extra |-> FALSE, from |-> from, to |-> to,
   calls |-> calls, extends |-> {}, implements |-> {}, ancestors |-> {}]
TypeChunk(id, path, name, extends) ==
  [Callable(id, path, name, 9, 9, <<>>) EXCEPT !.kind = "class", !.params = -1,
                                               !.extends = extends]

CallLists == UNION {[1 .. n -> [line : {2, 3}, name : {"g"}]] : n \in 0 .. 2}
Files(outer, inner, twin) ==
  {Callable(1, "f", <<"A", "f">>, 1, 4, outer), Callable(2, "f", <<"A", "x", "g">>, 2, 3, inner),
   Callable(3, "h", <<"B", "g">>, 1, 3, <<>>)}
  \cup (IF twin THEN {Callable(4, "k", <<"B", "g">>, 1, 3, <<>>)} ELSE {})

JoernCall(path, line, target) == [path |-> path, line |-> line, name |-> "g", target |-> target]
MCJoernCalls ==
  {JoernCall("f", line, target) : line \in {2, 3, 4}, target \in {<<"B", "g">>, <<"ext", "g">>}}
  \cup {JoernCall("h", 2, <<"B", "g">>), JoernCall("h", 5, <<"B", "g">>)}
MCChunks == UNION {Files(outer, inner, TRUE) : outer, inner \in CallLists}

NoMatching ==
  /\ repository = {} /\ matched = {} /\ missing = {}
  /\ joern = <<>> /\ sites = <<>>
  /\ joernOver = TRUE

Matching ==
  /\ MatchNext
  /\ Len(joern') <= MaxCalls
  /\ UNCHANGED <<subject, tree, input, passVars, searchVars>>

(* Three types in two files, Q extends P and R stands alone; some declare  *)
(* the method m.                                                           *)
AncestorsOf == [P |-> {}, Q |-> {<<"P">>}, R |-> {}]
ChooseOverrides ==
  /\ subject = "overrides"
  /\ input = <<>>
  /\ \E home \in [DOMAIN AncestorsOf -> {"f", "h"}],
        params \in [DOMAIN AncestorsOf -> -1 .. 1], names \in [DOMAIN AncestorsOf -> {"m", "n"}] :
       LET declaring == {k \in DOMAIN AncestorsOf : params[k] # -1}
           Id(k) == CHOOSE i \in 1 .. 3 : <<"P", "Q", "R">>[i] = k
           Type(k) == TypeChunk(Id(k), home[k], <<k>>, AncestorsOf[k])
           Declares(k) == [Callable(Id(k) + 3, home[k], <<k, names[k]>>, 2, 3, <<>>)
                             EXCEPT !.params = params[k], !.ancestors = AncestorsOf[k]]
       IN input' = [chunks |-> {Type(k) : k \in DOMAIN AncestorsOf}
                                 \cup {Declares(k) : k \in declaring}]
  /\ UNCHANGED <<subject, tree, machines>>

-----------------------------------------------------------------------------
(* Python signatures, one parameter after the other; "self" is left out.   *)

Signature == IF input = <<>> THEN <<>> ELSE input.params
MarksIn(marks) == {i \in DOMAIN Signature : Signature[i].mark \in marks}

(* The order in which Python lets them stand.                              *)
MayFollow(mark) ==
  CASE mark = "plain" -> MarksIn({"keywords"}) = {}
                         /\ (MarksIn({"default"}) = {} \/ MarksIn({"*", "rest"}) # {})
    [] mark = "default" -> MarksIn({"keywords"}) = {}
    [] mark = "/" -> Signature # <<>> /\ MarksIn({"/", "*", "rest", "keywords"}) = {}
    [] mark \in {"*", "rest"} -> MarksIn({"*", "rest", "keywords"}) = {}
    [] mark = "keywords" -> MarksIn({"keywords"}) = {}

AddParameter ==
  /\ subject = "python signatures"
  /\ Len(Signature) < MaxNodes
  /\ \E mark \in {"plain", "default", "/", "*", "rest", "keywords"} :
       /\ MayFollow(mark)
       /\ input' = [params |-> Append(Signature, [mark |-> mark,
                                                 name |-> TypeNames[Len(Signature) + 1]])]
  /\ UNCHANGED <<subject, tree, machines>>

-----------------------------------------------------------------------------
(* Searches among three chunks of a snapshot and one of an older one.      *)

MCCorpus == 1 .. 4
MCTraits ==
  [c \in MCCorpus |-> [repository |-> "r", snapshot |-> IF c = 4 THEN "old" ELSE "new",
                       language |-> "java", path |-> <<"src">>, type |-> "method"]]
MCQueries ==
  {[repositories |-> {"r"}, snapshots |-> {"new"}, language |-> "", path |-> <<"src">>,
    type |-> "method", topK |-> k] : k \in 1 .. 3}
MCSettings == [multiplier : 1 .. 2, max : {3}, rerank : 0 .. 2]
MCVolatile == {2}
MCOutputs == UNION {[1 .. n -> 0 .. 2] : n \in 0 .. 3}

SmallSearch == SearchInit /\ documents = Corpus /\ vectors = Corpus

NoSearch ==
  /\ documents = {} /\ vectors = {}
  /\ query = <<>> /\ settings = <<>>
  /\ stage = "none"
  /\ keyword = <<>> /\ nearest = <<>> /\ fused = <<>> /\ results = <<>>

Searching == SearchNext /\ UNCHANGED <<subject, tree, input, passVars, matchVars>>

-----------------------------------------------------------------------------
Init ==
  /\ subject \in TreeSubjects \cup {"links", "inheritance", "call sites", "overrides",
                                   "python signatures", "search"}
  /\ tree = [n \in DOMAIN StartKinds(subject) |-> Node(n, n - 1, StartKinds(subject)[n], FALSE)]
  /\ input = <<>>
  /\ IF subject = "inheritance" THEN SmallPass ELSE NoPass
  /\ IF subject = "call sites"
     THEN \E outer, inner \in CallLists, twin \in BOOLEAN : MatchingOf(Files(outer, inner, twin))
     ELSE NoMatching
  /\ IF subject = "search" THEN SmallSearch ELSE NoSearch

Next ==
  \/ AddNode
  \/ ChooseLink
  \/ Inheriting
  \/ Matching
  \/ ChooseOverrides
  \/ AddParameter
  \/ Searching

Spec == Init /\ [][Next]_vars

-----------------------------------------------------------------------------
(* Properties.                                                             *)

CallNodes == {n \in DOMAIN tree : tree[n].kind = "call"}
Nearest(n, kinds) ==
  Py!LastOf({k \in Py!Around(tree, n) : tree[k].kind \in kinds})

PythonOwned ==
  \A c \in CallNodes :
    LET chunks == Py!Split(tree)
        near == Nearest(c, {"class", "function"})
        takers == {x \in chunks : x.kind = "function" /\ c \in Py!CodeCalls(tree, x.node)}
    IN /\ {x.node : x \in takers} = IF near # 0 /\ tree[near].kind = "function" THEN {near} ELSE {}
       /\ \A x \in takers : x.from <= c /\ c < x.to
       /\ \A x \in chunks : tree[x.node].up = tree[c].up
                              /\ tree[tree[c].up].kind = "decorated" => x.from <= c

ScriptOwned ==
  \A c \in CallNodes :
    LET takers == {x \in Js!Split(tree) : c \in Js!CodeCalls(tree, x)}
    IN /\ Cardinality(takers) <= 1
       /\ \A x \in takers : x.from <= c /\ c < x.to

JavaOwned ==
  LET chunks == Jv!Split(tree)
      taken == [x \in chunks |-> Jv!CodeCalls(tree, x)]
  IN \A c \in CallNodes :
    LET takers == {x \in chunks : c \in taken[x]}
    IN /\ Cardinality(takers) = IF Nearest(c, {"method"}) = 0
                                   /\ ~\E b \in Py!Around(tree, c) :
                                         tree[b].kind = "block" /\ tree[tree[b].up].kind = "body"
                                THEN 0 ELSE 1
       /\ \A x \in takers : x.from <= c /\ c < x.to

(* The texts of two chunks are apart, or one is in the other.              *)
JavaTexts ==
  LET chunks == Jv!Split(tree)
  IN /\ \A x, y \in chunks : \/ x.to <= y.from
                             \/ y.to <= x.from
                             \/ x.from <= y.from /\ y.to <= x.to
                             \/ y.from <= x.from /\ x.to <= y.to
     /\ \A c \in DOMAIN tree : tree[c].kind = "comment" =>
          \E x \in chunks : x.from <= c /\ c < x.to

(* Every call in a function body is recorded in the chunk of the function  *)
(* it is in and in no other, and the chunk's text contains it; in a script *)
(* file in one chunk at most.  A decorated declaration's text starts with  *)
(* its decorators.  In a Java file chunks nest and no comment is in none   *)
(* (split_*_declarations, extract_java_calls).                             *)
CallsOwnedOnce ==
  /\ subject = "java text" => JavaTexts
  /\ subject = "python calls" => PythonOwned
  /\ subject = "script calls" => ScriptOwned
  /\ subject \in JavaCalls => JavaOwned

(* The assignments to x that the function makes before the statement of    *)
(* its body the call is in.  One in a function declared in between, which  *)
(* has an x of its own, may hide them.                                     *)
PythonValue ==
  \A c \in {x \in CallNodes : Nearest(x, {"function"}) = 2} :
    LET found == Py!AssignedBefore(tree, 2, c, "x")
        own == CHOOSE n \in Py!Children(tree, 2) : n = c \/ n \in Py!Around(tree, c)
        earlier == {a \in DOMAIN tree : tree[a].kind = "assign" /\ a < own}
        made == {a \in earlier : Nearest(a, {"function"}) = 2}
        last == Py!LastOf(made)
        certain == last # 0 /\ tree[last].up = 2
    IN /\ found # 0 => certain /\ found = last
       /\ certain /\ (\A a \in earlier \ made : a < last) => found = last

(* The declarations of x in force at a place, by where they stand.         *)
Regions(d) ==
  CASE tree[d].kind = "foreach" -> Py!Within(tree, d)
    [] tree[d].kind = "parameter" -> Py!Within(tree, tree[d].up)
    [] tree[tree[d].up].kind = "local" ->
         {n \in Py!Within(tree, tree[tree[d].up].up) : n > d}
    [] OTHER -> Py!Within(tree, tree[tree[d].up].up)
Declarations == {d \in DOMAIN tree : tree[d].kind \in {"foreach", "parameter", "declarator"}}

(* No local variable or parameter hides another one in a Java method.      *)
ValidJava ==
  \A d, e \in Declarations :
    d # e /\ e \in Regions(d) => tree[tree[d].up].kind = "field"

JavaReceiver ==
  \A c \in CallNodes :
    LET local == Py!LastOf({d \in Declarations : c \in Regions(d) /\ tree[tree[d].up].kind # "field"})
        field == Py!FirstOf({d \in Declarations : tree[tree[d].up].kind = "field"})
        declared == IF local # 0 THEN local ELSE field
    IN ValidJava => Jv!ReceiverType(tree, c) = IF declared = 0 THEN "" ELSE tree[declared].type

(* In a Java method that the compiler accepts, a call on a variable is     *)
(* looked up under the type of the local variable or parameter in force    *)
(* there, else of the field: never that of a sibling block's variable or   *)
(* one declared later (_declared_variable_type).  In a Python function the *)
(* value a variable is taken to have is the one that the last "x = value"  *)
(* before the statement of the body the call is in gave it, and none if    *)
(* that one may not be executed (_assigned_value_before_call).  Nothing is *)
(* said of what that statement itself assigns, of other ways to give x a   *)
(* value, or of annotated Python variables.                                *)
ReceiverFollowsScope ==
  /\ subject = "python values" => PythonValue
  /\ subject = "java values" => JavaReceiver

(* Can a call with n arguments bind every parameter?  The first "by        *)
(* position", the others by name.                                          *)
Accepts(ps, n) ==
  LET Mark(i) == ps[i].mark
      star == {i \in DOMAIN ps : Mark(i) \in {"*", "rest"}}
      slash == {i \in DOMAIN ps : Mark(i) = "/"}
      real == {i \in DOMAIN ps : Mark(i) \in {"plain", "default"}}
      positional == {i \in real : \A s \in star : i < s}
      byName == {i \in real : \A s \in slash : s < i}
      First(p) == {i \in positional : Cardinality({j \in positional : j < i}) < p}
  IN \E p \in 0 .. n : \E named \in SUBSET (byName \ First(p)) :
       /\ p > Cardinality(positional) => \E s \in star : Mark(s) = "rest"
       /\ \/ p + Cardinality(named) = n
          \/ p + Cardinality(named) < n /\ \E i \in DOMAIN ps : Mark(i) = "keywords"
       /\ \A i \in real : Mark(i) = "plain" => i \in First(p) \cup named

SignaturesKept ==
  LET info == Py!ParameterInfo(Signature, FALSE)
  IN \A n \in 0 .. MaxNodes + 1 :
       IF info.required <= n /\ n <= info.total
       THEN Accepts(Signature, n)
       ELSE Accepts(Signature, n) => n > info.total /\ (info.extra \/ info.extraKeywords)

OverridesFound ==
  \A c, m \in input.chunks :
    LET owner == Front(m.name)
    IN /\ c.kind = "method" /\ m.kind = "method" /\ owner \in c.ancestors
       /\ Last(c.name) = Last(m.name) /\ c.params = m.params
       => /\ <<c.id, m.id>> \in Overrides(input.chunks)
          /\ \E target \in FindDispatchTargets(
                 Symbols(input.chunks), TypeRelations(input.chunks),
                 Overrides(input.chunks), Last(m.name), "") :
                target[1] = m.id /\ c.id \in target[2]

(* A name that the file imports is linked to what it imports if that is    *)
(* declared, and in Python else not at all; a name that it does not import *)
(* to a type in its module, package or wildcard imports, or to the only    *)
(* one of that name (_resolve_type_full_name).  The numbers of arguments   *)
(* under which a Python method is looked up are those with which it can be *)
(* called, and a method that an ancestor of its class has too is found as  *)
(* an override of that.                                                    *)
LinksFollowImports ==
  /\ subject = "overrides" /\ input # <<>> => OverridesFound
  /\ subject = "python signatures" => SignaturesKept
  /\ subject = "links" /\ input # <<>> =>
       /\ BoundOnce(input.context, input.type[1])
       /\ LinkFollows(input.type, input.context, input.declared)
=============================================================================
