----------------------------- MODULE CallGraph ------------------------------
(***************************************************************************)
(* The graph of one index run in Neo4j (infrastructure/neo4j/              *)
(* code_graph_store.py): what save_snapshot makes of the chunks and of     *)
(* Joern's calls, and what the queries read from it.                       *)
(*                                                                         *)
(* A chunk has one symbol: its "id", "kind", "lang", "path", the dotted    *)
(* "name" as a sequence, numbers of parameters ("params", "required",      *)
(* "extra" for a rest parameter; NoCount where the language has none), its *)
(* lines "from" to "to", the calls in it (sequence of [line, name]), and,  *)
(* from the linking pass, the full names "extends" and "implements" of its *)
(* supertypes and "ancestors" of its owner.                                *)
(***************************************************************************)
EXTENDS Integers, Sequences, FiniteSets, SequencesExt, FiniteSetsExt

NoCount == -1
TypeKinds == {"class", "interface", "enum", "annotation", "record"}
CallableKinds == {"method", "function", "annotation_element"}

ShortName(name) == Last(name)
OwnerName(name) == Front(name)

(* Java reads the count from the signature, JavaScript and TypeScript from *)
(* the chunk; Python's counts are columns of their own.                    *)
ParameterCount(c) == IF c.lang = "python" THEN NoCount ELSE c.params

RequiredCount(c) ==
  CASE c.lang \in {"javascript", "typescript"} -> c.required
    [] c.lang = "java" /\ c.extra -> c.params - 1
    [] OTHER -> NoCount

Varargs(c) == c.lang # "python" /\ c.extra

Symbols(chunks) ==
  {[id |-> c.id, name |-> c.name, kind |-> c.kind, path |-> c.path,
    count |-> ParameterCount(c), required |-> RequiredCount(c),
    varargs |-> Varargs(c), line |-> c.from] : c \in chunks}

TypeRelations(chunks) ==
  LET Parents(c) == {p \in chunks : /\ c.kind \in TypeKinds /\ p.kind \in TypeKinds
                                    /\ p.name \in c.extends \cup c.implements}
      Relation(c, p) == IF p.name \in c.extends THEN "EXTENDS" ELSE "IMPLEMENTS"
  IN UNION {{<<c.id, Relation(c, p), p.id>> : p \in Parents(c)} : c \in chunks}

(* A method overrides what has its name and its shape in a file that       *)
(* declares an ancestor of its owner.                                      *)
Overrides(chunks) ==
  LET Fits(c, m) ==
        /\ ShortName(m.name) = ShortName(c.name)
        /\ NoCount \in {ParameterCount(m), ParameterCount(c)}
             \/ ParameterCount(m) = ParameterCount(c)
        /\ c.lang = "typescript" => /\ RequiredCount(m) = c.required
                                    /\ Varargs(m) = c.extra
      Homes(c) == {o.path : o \in {x \in chunks : /\ x.name \in c.ancestors
                                                  /\ x.kind \in TypeKinds \ {"annotation"}}}
      Overridden(c) == {m \in chunks : /\ c.kind \in {"method", "function"}
                                       /\ c.lang # "javascript"
                                       /\ m.path \in Homes(c)
                                       /\ Fits(c, m)}
  IN UNION {{<<c.id, m.id>> : m \in Overridden(c)} : c \in chunks}

-----------------------------------------------------------------------------
(* Call sites; CallMatching says how they come about.                      *)

(* The innermost method around the line; the smaller id of two as long.    *)
FindCaller(chunks, call) ==
  LET around == {c \in chunks : /\ c.kind \in CallableKinds
                                /\ c.path = call.path
                                /\ c.from <= call.line /\ call.line <= c.to}
      Smaller(a, b) == \/ a.to - a.from < b.to - b.from
                       \/ a.to - a.from = b.to - b.from /\ a.id < b.id
  IN IF around = {} THEN NoCount
     ELSE (CHOOSE c \in around : \A o \in around \ {c} : Smaller(c, o)).id

FindCallees(chunks, call) ==
  {c.id : c \in {x \in chunks : x.kind \in CallableKinds /\ x.name = call.target}}

CallSite(caller, call, callees, status, provenance) ==
  [caller |-> caller, name |-> call.name, line |-> call.line,
   callees |-> callees, status |-> status, provenance |-> provenance]

(* The calls that the parser saw, by their place in the chunk.             *)
TreeCalls(chunks) ==
  UNION {{[caller |-> c.id, at |-> i, line |-> c.calls[i].line, name |-> c.calls[i].name] :
            i \in DOMAIN c.calls} : c \in chunks}

Calls(sites) ==
  UNION {{<<sites[i].caller, callee, i>> : callee \in sites[i].callees} : i \in DOMAIN sites}

-----------------------------------------------------------------------------
(* The queries, without their LIMIT: symbols by id.                        *)

Of(symbols, id) == CHOOSE s \in symbols : s.id = id

FindCallers(symbols, calls, short) ==
  {<<c[1], c[2]>> : c \in {x \in calls : ShortName(Of(symbols, x[2]).name) = short}}

FindCalleesOf(symbols, calls, name) ==
  {<<c[1], c[2]>> : c \in {x \in calls :
     LET caller == Of(symbols, x[1]).name
     IN <<ShortName(caller)>> = name \/ caller = name}}

FindTypeRelations(symbols, relations, overrides, name) ==
  {[relation |-> r,
    overrides |-> {o[2] : o \in {x \in overrides :
                     OwnerName(Of(symbols, x[1]).name) = Of(symbols, r[1]).name}}] :
     r \in {x \in relations : Of(symbols, x[1]).name = name}}

(* A receiver type must be the name of one symbol; its methods and those   *)
(* of its direct supertypes are the candidates.                            *)
FindDispatchTargets(symbols, relations, overrides, method, receiver) ==
  LET owners == {s \in symbols : Len(s.name) > 1 /\ ShortName(s.name) = receiver}
      owner == CHOOSE s \in owners : TRUE
      types == {owner.name} \cup {Of(symbols, r[3]).name :
                                    r \in {x \in relations : x[1] = owner.id}}
      Bases == {s \in symbols : /\ ShortName(s.name) = method
                                /\ IF receiver = "" THEN s.kind \in CallableKinds \ {"function"}
                                   ELSE OwnerName(s.name) \in types}
  IN IF receiver # "" /\ Cardinality(owners) # 1 THEN {}
     ELSE {<<b.id, {o[1] : o \in {x \in overrides : x[2] = b.id}}>> : b \in Bases}
=============================================================================
