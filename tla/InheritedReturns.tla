-------------------------- MODULE InheritedReturns --------------------------
(***************************************************************************)
(* The pass over inherited return types (_propagate_inherited_methods in   *)
(* repository_processing/resolve_cross_file_calls.py).  It goes through    *)
(* the Java and Python types, and for each through the set of its          *)
(* ancestors, in orders that the code does not fix, and reads and extends  *)
(* one table: what a type takes over is there for the next to take over.   *)
(***************************************************************************)
EXTENDS CallLinks

CONSTANTS
  AllTypes,   \* the full names of the declared types
  Takers,     \* those that are gone through
  Methods,    \* the method chunks there may be: [owner, name, dotted, ...]
  StartRows   \* the rows that collecting return types may give

ASSUME TypesAssumption == Takers \subseteq AllTypes

VARIABLES
  methods,    \* the method chunks
  start,      \* the table as collected
  ancestors,  \* of each declared type
  table,      \* the table as it is
  waiting,    \* the types not gone through yet
  taker,      \* the type under way
  left        \* and its ancestors that are left

passVars == <<methods, start, ancestors, table, waiting, taker, left>>

\* Return types are collected from method chunks.
Collected(rows, chunks) ==
  \A r \in rows : \E m \in chunks : m.owner = r[1] /\ m.name = r[2]

\* What the pass is given.
PassOf(chunks, rows, parents) ==
  /\ methods = chunks
  /\ start = rows
  /\ ancestors = Ancestors(parents)
  /\ table = rows
  /\ waiting = Takers
  /\ taker = NoName
  /\ left = {}

InheritInit ==
  \E chunks \in SUBSET Methods, rows \in SUBSET StartRows,
     parents \in [AllTypes -> SUBSET AllTypes] :
    /\ IsFiniteSet(rows)
    /\ Collected(rows, chunks)
    /\ PassOf(chunks, rows, parents)

NextType ==
  /\ left = {}
  /\ \E type \in waiting :
       /\ taker' = type
       /\ waiting' = waiting \ {type}
       /\ left' = ancestors[type]
  /\ UNCHANGED <<methods, start, ancestors, table>>

InheritStep ==
  /\ \E ancestor \in left :
       /\ left' = left \ {ancestor}
       /\ table' = Inherit(table, methods, taker, ancestor)
  /\ UNCHANGED <<methods, start, ancestors, waiting, taker>>

InheritNext == NextType \/ InheritStep

InheritSpec == InheritInit /\ [][InheritNext]_passVars

-----------------------------------------------------------------------------
\* No method of that name has a dot in its signature.
Plain(name) == \A m \in methods : m.name = name => ~m.dotted

\* What a method of a type returns, by what the files say of the type itself
\* or, when it does not declare the method, of those of its ancestors that say
\* one thing.
Told(type, name, count) ==
  IF name \in DeclaredNames(methods, type)
  THEN Candidates(start, type, name, count)
  ELSE UNION {Candidates(start, d, name, count) :
         d \in {a \in ancestors[type] :
                  Cardinality(Candidates(start, a, name, count)) = 1}}

\* Which return types the pass leaves does not depend on the order in which
\* types and their ancestors are gone through, though each step reads what
\* earlier ones wrote: a type has what its own files say of a method or, for a
\* method that it does not declare, what its ancestors say, and where that is
\* not one thing it has nothing (_propagate_inherited_methods,
\* _merge_return_types).
InheritanceOrderFree ==
  waiting = {} /\ left = {} =>
    LET merged == MergeReturnTypes(table)
    IN \A type \in Takers, r \in table :
         Plain(r[2]) =>
           Candidates(merged, type, r[2], r[3]) =
             LET told == Told(type, r[2], r[3])
             IN IF Cardinality(told) = 1 THEN told ELSE {}
=============================================================================
