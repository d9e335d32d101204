------------------------- MODULE CodeProcessingProofs -------------------------
(***************************************************************************)
(* Proofs about code processing and search: the passes that are machines,  *)
(* and what the operators compute, for any input.                          *)
(***************************************************************************)
EXTENDS InheritedReturns, CallMatching, Search, FiniteSetTheorems,
        SequenceTheorems, WellFoundedInduction, TLAPS

(***************************************************************************)
(* Inherited return types.                                                 *)
(***************************************************************************)

\* The ancestors of an ancestor are ancestors.
Transitive ==
  \A k \in AllTypes : /\ ancestors[k] \subseteq AllTypes
                      /\ \A d \in ancestors[k] : ancestors[d] \subseteq ancestors[k]

\* Where the pass is.
Place ==
  /\ waiting \subseteq Takers
  /\ left # {} => /\ taker \in Takers \ waiting
                  /\ left \subseteq ancestors[taker]

\* Nothing is lost, and a row that is not of the type's own files is of a
\* method it does not declare, and what one of its ancestors says.
Sourced ==
  /\ start \subseteq table
  /\ \A r \in table \ start :
       Plain(r[2]) =>
         /\ r[1] \in Takers
         /\ r[2] \notin DeclaredNames(methods, r[1])
         /\ \E d \in ancestors[r[1]] : Candidates(start, d, r[2], r[3]) = {r[4]}

\* A type has what an ancestor says that it has been compared with.
Taken ==
  \A k \in Takers \ waiting : \A d \in ancestors[k] : \A r \in start :
    /\ ~(k = taker /\ d \in left)
    /\ Plain(r[2]) /\ r[2] \notin DeclaredNames(methods, k)
    /\ Candidates(start, d, r[2], r[3]) = {r[4]}
    => <<k, r[2], r[3], r[4]>> \in table

InheritInv ==
  /\ IsFiniteSet(table)
  /\ Collected(start, methods)
  /\ Transitive
  /\ Place
  /\ Sourced
  /\ Taken

-----------------------------------------------------------------------------
(* A finite set with one member is the set of it. *)
LEMMA OneMember ==
  ASSUME NEW S, IsFiniteSet(S), Cardinality(S) = 1, NEW x \in S
  PROVE  S = {x}
<1>1. IsFiniteSet(S \ {x}) /\ Cardinality(S \ {x}) = 0
  BY FS_RemoveElement
<1>2. S \ {x} = {}
  BY <1>1, FS_EmptySet
<1> QED
  BY <1>2

(* What a table says of a method is finite when the table is. *)
LEMMA FiniteCandidates ==
  ASSUME NEW rows, IsFiniteSet(rows), NEW k, NEW name, NEW count
  PROVE  IsFiniteSet(Candidates(rows, k, name, count))
<1> DEFINE said == {r \in rows : <<r[1], r[2], r[3]>> = <<k, name, count>>}
<1>1. IsFiniteSet(said)
  BY FS_Subset
<1>2. IsFiniteSet({r[4] : r \in said})
  <2> DEFINE f == [r \in said |-> r[4]]
  <2>1. f \in Surjection(said, {r[4] : r \in said})
    BY DEF Surjection
  <2> QED
    BY <1>1, <2>1, FS_Surjection
<1> QED
  BY <1>2 DEF Candidates

(* What is said of a method, by rows. *)
LEMMA InCandidates ==
  ASSUME NEW rows, NEW k, NEW name, NEW count, NEW x
  PROVE  x \in Candidates(rows, k, name, count) <=>
           \E r \in rows : r[1] = k /\ r[2] = name /\ r[3] = count /\ r[4] = x
  BY DEF Candidates

(* The least set that has the parents of a name and of its members has the *)
(* same of every member.                                                   *)
LEMMA AncestorsTransitive ==
  ASSUME NEW parents \in [AllTypes -> SUBSET AllTypes], NEW k \in AllTypes,
         NEW d \in Ancestors(parents)[k]
  PROVE  /\ d \in AllTypes
         /\ Ancestors(parents)[d] \subseteq Ancestors(parents)[k]
<1> DEFINE Closed(S) == \A n \in S : parents[n] \subseteq S
           Above(n) == {e \in AllTypes : \A S \in SUBSET AllTypes :
                          parents[n] \subseteq S /\ Closed(S) => e \in S}
<1>1. \A n \in AllTypes : Ancestors(parents)[n] = Above(n)
  BY DEF Ancestors
<1>2. d \in AllTypes
  BY <1>1
<1>3. ASSUME NEW e \in Above(d), NEW S \in SUBSET AllTypes,
             parents[k] \subseteq S, Closed(S)
      PROVE  e \in S
  <2>1. d \in S
    BY <1>1, <1>3
  <2>2. parents[d] \subseteq S
    BY <2>1, <1>3
  <2> QED
    BY <2>2, <1>3
<1> QED
  BY <1>1, <1>2, <1>3

-----------------------------------------------------------------------------
LEMMA InheritBegins == InheritInit => InheritInv
<1> SUFFICES ASSUME NEW chunks \in SUBSET Methods, NEW rows \in SUBSET StartRows,
                    NEW parents \in [AllTypes -> SUBSET AllTypes],
                    IsFiniteSet(rows), Collected(rows, chunks),
                    PassOf(chunks, rows, parents)
             PROVE  InheritInv
  BY DEF InheritInit
<1> USE DEF PassOf
<1>1. Transitive
  <2>1. \A k \in AllTypes : ancestors[k] \subseteq AllTypes
    BY DEF Ancestors
  <2> QED
    BY <2>1, AncestorsTransitive DEF Transitive
<1>2. Place
  BY DEF Place
<1>3. Sourced
  BY DEF Sourced
<1>4. Taken
  BY DEF Taken
<1> QED
  BY <1>1, <1>2, <1>3, <1>4 DEF InheritInv

LEMMA NextTypeKeeps == InheritInv /\ NextType => InheritInv'
<1> SUFFICES ASSUME InheritInv, left = {}, NEW type \in waiting, taker' = type,
                    waiting' = waiting \ {type}, left' = ancestors[type],
                    UNCHANGED <<methods, start, ancestors, table>>
             PROVE  InheritInv'
  BY DEF NextType
<1>1. IsFiniteSet(table)' /\ Collected(start, methods)' /\ Transitive' /\ Sourced'
  BY DEF InheritInv, Collected, Transitive, Sourced, Plain
<1>2. Place'
  BY DEF InheritInv, Place
<1>3. Taken'
  BY DEF InheritInv, Place, Taken, Plain
<1> QED
  BY <1>1, <1>2, <1>3 DEF InheritInv

(* A row of a type's own files is all that the table says of its method. *)
LEMMA OwnRows ==
  ASSUME InheritInv, NEW r \in start, Plain(r[2])
  PROVE  Candidates(table, r[1], r[2], r[3]) = Candidates(start, r[1], r[2], r[3])
<1>1. r[2] \in DeclaredNames(methods, r[1])
  BY DEF InheritInv, Collected, Plain, DeclaredNames
<1>2. \A q \in table : q[1] = r[1] /\ q[2] = r[2] => q \in start
  BY <1>1 DEF InheritInv, Sourced
<1> QED
  BY <1>2 DEF Candidates, InheritInv, Sourced

LEMMA InheritStepKeeps == InheritInv /\ InheritStep => InheritInv'
<1> SUFFICES ASSUME InheritInv, NEW a \in left,
                    left' = left \ {a},
                    table' = Inherit(table, methods, taker, a),
                    UNCHANGED <<methods, start, ancestors, waiting, taker>>
             PROVE  InheritInv'
  BY DEF InheritStep
<1> DEFINE usable == {r \in table :
                        /\ r[1] = a
                        /\ r[2] \notin DeclaredNames(methods, taker)
                        /\ Cardinality(Candidates(table, r[1], r[2], r[3])) = 1}
           added == {<<taker, r[2], r[3], r[4]>> : r \in usable}
<1>1. table' = table \cup added
  BY DEF Inherit
<1>2. /\ taker \in Takers \ waiting
      /\ taker \in AllTypes
      /\ a \in ancestors[taker]
  BY TypesAssumption DEF InheritInv, Place
<1>3. IsFiniteSet(table')
  <2> DEFINE f == [r \in usable |-> <<taker, r[2], r[3], r[4]>>]
  <2>1. IsFiniteSet(usable)
    BY FS_Subset DEF InheritInv
  <2>2. f \in Surjection(usable, added)
    BY DEF Surjection
  <2>3. IsFiniteSet(added)
    BY <2>1, <2>2, FS_Surjection
  <2>4. IsFiniteSet(table)
    BY DEF InheritInv
  <2> HIDE DEF added
  <2>5. IsFiniteSet(table \cup added)
    BY <2>3, <2>4, FS_Union
  <2> QED
    BY <1>1, <2>5
<1>4. Transitive' /\ Collected(start, methods)'
  BY DEF InheritInv, Transitive, Collected
<1>5. Place'
  BY DEF InheritInv, Place
<1>6. Sourced'
  <2>1. ASSUME NEW q \in added, Plain(q[2])
        PROVE  /\ q[1] \in Takers
               /\ q[2] \notin DeclaredNames(methods, q[1])
               /\ \E d \in ancestors[q[1]] : Candidates(start, d, q[2], q[3]) = {q[4]}
    <3>1. PICK r \in usable : q = <<taker, r[2], r[3], r[4]>>
      OBVIOUS
    <3>2. q[1] = taker /\ q[2] = r[2] /\ q[3] = r[3] /\ q[4] = r[4]
      BY <3>1
    <3>3. \E d \in ancestors[taker] : Candidates(start, d, r[2], r[3]) = {r[4]}
      <4>1. CASE r \in start
        <5>1. Candidates(start, a, r[2], r[3]) = Candidates(table, a, r[2], r[3])
          BY <4>1, <2>1, <3>2, OwnRows
        <5>2. r[4] \in Candidates(table, a, r[2], r[3])
          BY InCandidates
        <5>3. IsFiniteSet(Candidates(table, a, r[2], r[3]))
          BY FiniteCandidates DEF InheritInv
        <5>4. Candidates(table, a, r[2], r[3]) = {r[4]}
          BY <5>2, <5>3, OneMember
        <5> QED
          BY <5>1, <5>4, <1>2
      <4>2. CASE r \notin start
        <5>1. PICK d \in ancestors[a] : Candidates(start, d, r[2], r[3]) = {r[4]}
          BY <4>2, <2>1, <3>2 DEF InheritInv, Sourced
        <5>2. d \in ancestors[taker]
          BY <5>1, <1>2 DEF InheritInv, Transitive
        <5> QED
          BY <5>1, <5>2
      <4> QED
        BY <4>1, <4>2
    <3> QED
      BY <1>2, <3>2, <3>3
  <2>2. Sourced'
    BY <1>1, <2>1 DEF Sourced, InheritInv, Plain
  <2> QED
    BY <2>2
<1>7. Taken'
  <2> SUFFICES ASSUME NEW k \in Takers \ waiting, NEW d \in ancestors[k],
                      NEW r \in start,
                      ~(k = taker /\ d \in left \ {a}),
                      Plain(r[2]), r[2] \notin DeclaredNames(methods, k),
                      Candidates(start, d, r[2], r[3]) = {r[4]}
               PROVE  <<k, r[2], r[3], r[4]>> \in table'
    BY DEF Taken, Plain
  <2>1. CASE ~(k = taker /\ d \in left)
    BY <2>1, <1>1 DEF InheritInv, Taken
  <2>2. CASE k = taker /\ d = a
    <3>1. PICK q \in start : q[1] = a /\ q[2] = r[2] /\ q[3] = r[3] /\ q[4] = r[4]
      BY <2>2, InCandidates
    <3>2. Candidates(table, q[1], q[2], q[3]) = {r[4]}
      BY <3>1, <2>2, OwnRows
    <3>3. Cardinality(Candidates(table, q[1], q[2], q[3])) = 1
      BY <3>2, FS_Singleton
    <3>4. q \in usable
      BY <3>1, <3>3, <2>2 DEF InheritInv, Sourced
    <3> QED
      BY <3>1, <3>4, <2>2, <1>1
  <2> QED
    BY <2>1, <2>2
<1> QED
  BY <1>3, <1>4, <1>5, <1>6, <1>7 DEF InheritInv

(* The invariant of the pass. *)
LEMMA InheritInvariance == InheritSpec => []InheritInv
<1>1. InheritInv /\ [InheritNext]_passVars => InheritInv'
  <2> SUFFICES ASSUME InheritInv, [InheritNext]_passVars PROVE InheritInv'
    OBVIOUS
  <2>1. CASE NextType
    BY <2>1, NextTypeKeeps
  <2>2. CASE InheritStep
    BY <2>2, InheritStepKeeps
  <2>3. CASE UNCHANGED passVars
    BY <2>3 DEF passVars, InheritInv, Collected, Transitive, Place, Sourced, Taken, Plain
  <2> QED
    BY <2>1, <2>2, <2>3 DEF InheritNext
<1> QED
  BY <1>1, InheritBegins, PTL DEF InheritSpec

(* At the end the table says of a method of a type what the type and its   *)
(* ancestors say.                                                          *)
LEMMA TableIsTold ==
  ASSUME InheritInv, waiting = {}, left = {}, NEW k \in Takers,
         NEW name, NEW count, Plain(name)
  PROVE  Candidates(table, k, name, count) = Told(k, name, count)
<1> DEFINE Sole(d) == Cardinality(Candidates(start, d, name, count)) = 1
<1>1. CASE name \in DeclaredNames(methods, k)
  <2>1. \A q \in table : q[1] = k /\ q[2] = name => q \in start
    BY <1>1 DEF InheritInv, Sourced
  <2>2. Told(k, name, count) = Candidates(start, k, name, count)
    BY <1>1 DEF Told
  <2> QED
    BY <2>1, <2>2 DEF Candidates, InheritInv, Sourced
<1>2. CASE name \notin DeclaredNames(methods, k)
  <2>1. Told(k, name, count) =
          UNION {Candidates(start, d, name, count) : d \in {a \in ancestors[k] : Sole(a)}}
    BY <1>2 DEF Told
  <2>2. ASSUME NEW x \in Candidates(table, k, name, count)
        PROVE  x \in Told(k, name, count)
    <3>1. PICK q \in table : q[1] = k /\ q[2] = name /\ q[3] = count /\ q[4] = x
      BY <2>2, InCandidates
    <3>2. q \notin start
      BY <3>1, <1>2 DEF InheritInv, Collected, Plain, DeclaredNames
    <3>3. PICK d \in ancestors[k] : Candidates(start, d, name, count) = {x}
      BY <3>1, <3>2 DEF InheritInv, Sourced
    <3>4. Sole(d)
      BY <3>3, FS_Singleton
    <3> QED
      BY <2>1, <3>3, <3>4
  <2>3. ASSUME NEW x \in Told(k, name, count)
        PROVE  x \in Candidates(table, k, name, count)
    <3>1. PICK d \in ancestors[k] : Sole(d) /\ x \in Candidates(start, d, name, count)
      BY <2>1, <2>3
    <3>2. IsFiniteSet(start)
      BY FS_Subset DEF InheritInv, Sourced
    <3>3. Candidates(start, d, name, count) = {x}
      BY <3>1, <3>2, FiniteCandidates, OneMember
    <3>4. PICK q \in start : q[1] = d /\ q[2] = name /\ q[3] = count /\ q[4] = x
      BY <3>1, InCandidates
    <3>5. <<k, name, count, x>> \in table
      BY <3>3, <3>4, <1>2 DEF InheritInv, Taken
    <3> QED
      BY <3>5, InCandidates
  <2> QED
    BY <2>2, <2>3
<1> QED
  BY <1>1, <1>2

(* Which return types a type takes over from its ancestors is what they    *)
(* say, whatever the order in which types and ancestors are gone through:  *)
(* of every method whose name has no dotted signature                      *)
(* (_propagate_inherited_methods, _merge_return_types).                    *)
THEOREM InheritanceOrder == InheritSpec => []InheritanceOrderFree
<1>1. InheritInv => InheritanceOrderFree
  <2> SUFFICES ASSUME InheritInv, waiting = {}, left = {}, NEW k \in Takers,
                      NEW r \in table, Plain(r[2])
               PROVE  Candidates(MergeReturnTypes(table), k, r[2], r[3]) =
                        IF Cardinality(Told(k, r[2], r[3])) = 1
                        THEN Told(k, r[2], r[3]) ELSE {}
    BY DEF InheritanceOrderFree
  <2> DEFINE said == Candidates(table, k, r[2], r[3])
  <2>1. said = Told(k, r[2], r[3])
    BY TableIsTold
  <2>2. Candidates(MergeReturnTypes(table), k, r[2], r[3]) =
          IF Cardinality(said) = 1 THEN said ELSE {}
    BY DEF MergeReturnTypes, Candidates
  <2> QED
    BY <2>1, <2>2
<1> QED
  BY <1>1, InheritInvariance, PTL

-----------------------------------------------------------------------------
(***************************************************************************)
(* Call sites.                                                             *)
(***************************************************************************)

Provenances == {"BOTH", "JOERN", "TREE_SITTER"}

MatchTyping ==
  /\ IsFiniteSet(repository)
  /\ IsFiniteSet(TreeCalls(repository))
  /\ \A t \in TreeCalls(repository) : t.at \in Nat
  /\ matched \subseteq TreeCalls(repository)
  /\ missing \subseteq TreeCalls(repository) \ matched
  /\ ~joernOver => missing = {}
  /\ joernOver \in BOOLEAN
  /\ \E S : joern \in Seq(S)
  /\ \E S : sites \in Seq(S)

\* How many there are of each kind, key by key.
Counts ==
  \A key :
    /\ Cardinality(Sites(key, {"BOTH"})) = Cardinality(matched \cap InTree(key))
    /\ Cardinality(Sites(key, {"BOTH", "JOERN"})) = Cardinality(InJoern(key))
    /\ Sites(key, {"JOERN"}) # {} => InTree(key) \subseteq matched
    /\ Cardinality(Sites(key, {"BOTH", "TREE_SITTER"})) =
         Cardinality(IF joernOver THEN InTree(key) \ missing ELSE matched \cap InTree(key))

\* A site leads to a callable only if that is the sole target of a call.
AimedSite(site) ==
  /\ site.provenance \in Provenances
  /\ \A callee \in site.callees :
       \E j \in DOMAIN joern : /\ JoernKey(joern[j]) = KeyOf(site)
                               /\ FindCallees(repository, joern[j]) = {callee}
Aimed == \A i \in DOMAIN sites : AimedSite(sites[i])

MatchInv == MatchTyping /\ Counts /\ Aimed

-----------------------------------------------------------------------------
(* A nonempty set of numbers has a least one. *)
LEMMA LeastOf ==
  ASSUME NEW S \in SUBSET Nat, S # {}
  PROVE  \E m \in S : \A n \in S : m <= n
<1>1. PICK m \in S : \A n \in S : ~(<<n, m>> \in OpToRel(<, Nat))
  BY NatLessThanWellFounded, WFMin
<1>2. \A n \in S : ~(n < m)
  BY <1>1 DEF OpToRel
<1> QED
  BY <1>2

LEMMA Appended ==
  ASSUME NEW S, NEW s \in Seq(S), NEW x
  PROVE  /\ Append(s, x) \in Seq(S \cup {x})
         /\ Len(s) \in Nat /\ DOMAIN s = 1 .. Len(s)
         /\ DOMAIN Append(s, x) = 1 .. Len(s) + 1
         /\ \A i \in DOMAIN s : Append(s, x)[i] = s[i]
         /\ Append(s, x)[Len(s) + 1] = x
<1>1. s \in Seq(S \cup {x})
  OBVIOUS
<1> QED
  BY <1>1

LEMMA FinitePlaces ==
  ASSUME NEW S, NEW s \in Seq(S), NEW T \in SUBSET DOMAIN s
  PROVE  IsFiniteSet(T)
  BY FS_Interval, FS_Subset

(* One more of those that are counted, if it is one of them. *)
LEMMA OneMore ==
  ASSUME NEW S, IsFiniteSet(S), NEW x, x \notin S, NEW B \in BOOLEAN
  PROVE  Cardinality(S \cup (IF B THEN {x} ELSE {})) = Cardinality(S) + (IF B THEN 1 ELSE 0)
<1>1. Cardinality(S) \in Nat
  BY FS_CardinalityType
<1>2. Cardinality(S \cup {x}) = Cardinality(S) + 1
  BY FS_AddElement
<1> QED
  BY <1>1, <1>2

(* The parser's calls are finitely many, each at a place of its chunk. *)
LEMMA TreeCallsFinite ==
  ASSUME NEW chunks \in SUBSET Chunks, IsFiniteSet(chunks)
  PROVE  /\ IsFiniteSet(TreeCalls(chunks))
         /\ \A t \in TreeCalls(chunks) : t.at \in Nat
<1> DEFINE Entry(c, i) == [caller |-> c.id, at |-> i, line |-> c.calls[i].line,
                           name |-> c.calls[i].name]
           Entries(c) == {Entry(c, i) : i \in DOMAIN c.calls}
           all == {Entries(c) : c \in chunks}
<1>1. \A c \in chunks : Len(c.calls) \in Nat /\ DOMAIN c.calls = 1 .. Len(c.calls)
  BY ChunksAssumption
<1>2. TreeCalls(chunks) = UNION all
  BY DEF TreeCalls
<1>3. ASSUME NEW c \in chunks PROVE IsFiniteSet(Entries(c))
  <2> DEFINE f == [i \in DOMAIN c.calls |-> Entry(c, i)]
  <2>1. IsFiniteSet(DOMAIN c.calls)
    <3> DEFINE n == Len(c.calls)
    <3>1. n \in Nat /\ DOMAIN c.calls = 1 .. n
      BY <1>1
    <3> HIDE DEF n
    <3>2. IsFiniteSet(1 .. n)
      BY <3>1, FS_Interval
    <3> QED
      BY <3>1, <3>2
  <2>2. f \in Surjection(DOMAIN c.calls, Entries(c))
    BY DEF Surjection
  <2> QED
    BY <2>1, <2>2, FS_Surjection
<1>4. IsFiniteSet(all)
  <2> DEFINE f == [c \in chunks |-> Entries(c)]
  <2>1. f \in Surjection(chunks, all)
    BY DEF Surjection
  <2> QED
    BY <2>1, FS_Surjection
<1>5. IsFiniteSet(UNION all)
  <2> HIDE DEF Entries
  <2>1. \A T \in all : IsFiniteSet(T)
    BY <1>3
  <2> HIDE DEF all
  <2> QED
    BY <1>4, <2>1, FS_UNION
<1>6. \A t \in UNION all : t.at \in Nat
  BY <1>1
<1> QED
  BY <1>2, <1>5, <1>6

LEMMA CalleesFinite ==
  ASSUME NEW chunks, IsFiniteSet(chunks), NEW call
  PROVE  IsFiniteSet(FindCallees(chunks, call))
<1> DEFINE named == {x \in chunks : x.kind \in CallableKinds /\ x.name = call.target}
           f == [c \in named |-> c.id]
<1>1. IsFiniteSet(named)
  BY FS_Subset
<1>2. f \in Surjection(named, FindCallees(chunks, call))
  BY DEF Surjection, FindCallees
<1> QED
  BY <1>1, <1>2, FS_Surjection

-----------------------------------------------------------------------------
LEMMA MatchBegins == MatchInit => MatchInv
<1> SUFFICES ASSUME NEW chunks \in SUBSET Chunks, IsFiniteSet(chunks), MatchingOf(chunks)
             PROVE  MatchInv
  BY DEF MatchInit
<1> USE DEF MatchingOf
<1>1. MatchTyping
  <2>1. <<>> \in Seq({})
    OBVIOUS
  <2>2. \E S : <<>> \in Seq(S)
    BY <2>1
  <2> QED
    BY <2>2, TreeCallsFinite DEF MatchTyping
<1>2. Counts
  <2>1. \A key, from : Sites(key, from) = {} /\ InJoern(key) = {}
    BY DEF Sites, InJoern
  <2>2. \A key : matched \cap InTree(key) = {}
    OBVIOUS
  <2> QED
    BY <2>1, <2>2, FS_EmptySet DEF Counts
<1>3. Aimed
  BY DEF Aimed
<1> QED
  BY <1>1, <1>2, <1>3 DEF MatchInv

(* A site that is well aimed stays so when calls of Joern are added. *)
LEMMA StaysAimed ==
  ASSUME UNCHANGED repository,
         \A j \in DOMAIN joern : j \in DOMAIN joern' /\ joern'[j] = joern[j]
  PROVE  \A site : AimedSite(site) => AimedSite(site)'
<1> SUFFICES ASSUME NEW site, AimedSite(site), NEW callee \in site.callees
             PROVE  \E j \in DOMAIN joern' : /\ JoernKey(joern[j])' = KeyOf(site)
                                             /\ FindCallees(repository, joern[j])' = {callee}
  BY DEF AimedSite, KeyOf
<1>1. PICK j \in DOMAIN joern : /\ JoernKey(joern[j]) = KeyOf(site)
                                /\ FindCallees(repository, joern[j]) = {callee}
  BY DEF AimedSite
<1>2. JoernKey(joern[j])' = JoernKey(joern[j])
  BY DEF JoernKey
<1>3. FindCallees(repository, joern[j])' = FindCallees(repository, joern[j])
  OBVIOUS
<1> QED
  BY <1>1, <1>2, <1>3

(* Aimed, of the values that the sites have after a step. *)
LEMMA AimedByValue ==
  ASSUME \A i \in DOMAIN sites' : \A x : x = sites'[i] => AimedSite(x)'
  PROVE  Aimed'
  BY DEF Aimed, AimedSite, KeyOf

(* What a new site adds to the sites of a key. *)
LEMMA SiteAdded ==
  ASSUME MatchTyping, NEW x, sites' = Append(sites, x), NEW key, NEW from
  PROVE  /\ Sites(key, from)' = Sites(key, from) \cup
              (IF KeyOf(x) = key /\ x.provenance \in from THEN {Len(sites) + 1} ELSE {})
         /\ Len(sites) + 1 \notin Sites(key, from)
         /\ IsFiniteSet(Sites(key, from))
         /\ Cardinality(Sites(key, from)') = Cardinality(Sites(key, from)) +
              (IF KeyOf(x) = key /\ x.provenance \in from THEN 1 ELSE 0)
<1>1. PICK S : sites \in Seq(S)
  BY DEF MatchTyping
<1>2. /\ Len(sites) \in Nat /\ DOMAIN sites = 1 .. Len(sites)
      /\ DOMAIN sites' = 1 .. Len(sites) + 1
      /\ \A i \in DOMAIN sites : sites'[i] = sites[i]
      /\ sites'[Len(sites) + 1] = x
  BY <1>1, Appended
<1>3. Sites(key, from)' = Sites(key, from) \cup
        (IF KeyOf(x) = key /\ x.provenance \in from THEN {Len(sites) + 1} ELSE {})
  BY <1>2 DEF Sites, KeyOf
<1>4. Len(sites) + 1 \notin Sites(key, from)
  BY <1>2 DEF Sites
<1>5. IsFiniteSet(Sites(key, from))
  BY <1>1, FinitePlaces DEF Sites
<1> QED
  BY <1>3, <1>4, <1>5, OneMore

(* What a call of Joern adds to those of its key. *)
LEMMA JoernAdded ==
  ASSUME MatchTyping, NEW call, joern' = Append(joern, call), UNCHANGED repository, NEW key
  PROVE  /\ IsFiniteSet(InJoern(key))
         /\ Cardinality(InJoern(key)') = Cardinality(InJoern(key)) +
              (IF JoernKey(call) = key /\ FindCaller(repository, call) # NoCount THEN 1 ELSE 0)
         /\ \A i \in DOMAIN joern : i \in DOMAIN joern' /\ joern'[i] = joern[i]
         /\ \E i \in DOMAIN joern' : joern'[i] = call
<1>1. PICK S : joern \in Seq(S)
  BY DEF MatchTyping
<1>2. /\ Len(joern) \in Nat /\ DOMAIN joern = 1 .. Len(joern)
      /\ DOMAIN joern' = 1 .. Len(joern) + 1
      /\ \A i \in DOMAIN joern : joern'[i] = joern[i]
      /\ joern'[Len(joern) + 1] = call
  BY <1>1, Appended
<1> DEFINE counts == JoernKey(call) = key /\ FindCaller(repository, call) # NoCount
<1>3. InJoern(key)' = InJoern(key) \cup (IF counts THEN {Len(joern) + 1} ELSE {})
  BY <1>2 DEF InJoern, JoernKey
<1>4. Len(joern) + 1 \notin InJoern(key)
  BY <1>2 DEF InJoern
<1>5. IsFiniteSet(InJoern(key))
  BY <1>1, FinitePlaces DEF InJoern
<1>6. Cardinality(InJoern(key) \cup (IF counts THEN {Len(joern) + 1} ELSE {})) =
        Cardinality(InJoern(key)) + (IF counts THEN 1 ELSE 0)
  BY <1>4, <1>5, OneMore
<1> QED
  BY <1>2, <1>3, <1>5, <1>6

(* A call of Joern in a known caller is one more site of its key; it takes *)
(* a call of the parser unless all of that key are taken.                  *)
LEMMA JoernMatched ==
  ASSUME MatchInv, NEW call, MatchJoern(call), FindCaller(repository, call) # NoCount
  PROVE  MatchInv'
<1> DEFINE own == JoernKey(call)
           free == {t \in TreeCalls(repository) \ matched : KeyOf(t) = own}
           taken == IF free = {} THEN {} ELSE {FirstCall(free)}
           callees == FindCallees(repository, call)
           status == IF Cardinality(callees) = 1 THEN "RESOLVED"
                     ELSE IF callees = {} THEN "UNRESOLVED" ELSE "AMBIGUOUS"
           site == CallSite(FindCaller(repository, call), call,
                            IF status = "RESOLVED" THEN callees ELSE {}, status,
                            IF free = {} THEN "JOERN" ELSE "BOTH")
<1>1. /\ ~joernOver
      /\ joern' = Append(joern, call)
      /\ matched' = matched \cup taken
      /\ sites' = Append(sites, site)
      /\ UNCHANGED <<repository, joernOver, missing>>
  BY DEF MatchJoern
<1>2. /\ KeyOf(site) = own
      /\ site.provenance = (IF free = {} THEN "JOERN" ELSE "BOTH")
      /\ site.callees = (IF status = "RESOLVED" THEN callees ELSE {})
  BY DEF CallSite, KeyOf, JoernKey
<1>3. free # {} => FirstCall(free) \in free
  <2> SUFFICES ASSUME free # {} PROVE \E t \in free : \A u \in free : t.at <= u.at
    BY DEF FirstCall
  <2> DEFINE places == {t.at : t \in free}
  <2>1. places \in SUBSET Nat /\ places # {}
    BY DEF MatchInv, MatchTyping
  <2>2. PICK m \in places : \A n \in places : m <= n
    BY <2>1, LeastOf
  <2> QED
    BY <2>2
<1>4. taken \subseteq free
  BY <1>3
<1>5. MatchTyping'
  <2>1. PICK S : joern \in Seq(S)
    BY DEF MatchInv, MatchTyping
  <2>2. joern' \in Seq(S \cup {call})
    BY <1>1, <2>1, Appended
  <2>3. PICK T : sites \in Seq(T)
    BY DEF MatchInv, MatchTyping
  <2>4. sites' \in Seq(T \cup {site})
    BY <1>1, <2>3, Appended
  <2> HIDE DEF taken, site, free
  <2>5. matched' \subseteq TreeCalls(repository)
    BY <1>1, <1>4 DEF MatchInv, MatchTyping, free
  <2>6. missing = {}
    BY <1>1 DEF MatchInv, MatchTyping
  <2> QED
    BY <1>1, <2>2, <2>4, <2>5, <2>6 DEF MatchInv, MatchTyping
<1>6. Counts'
  <2> SUFFICES ASSUME NEW key
               PROVE /\ Cardinality(Sites(key, {"BOTH"})') = Cardinality((matched \cap InTree(key))')
                     /\ Cardinality(Sites(key, {"BOTH", "JOERN"})') = Cardinality(InJoern(key)')
                     /\ Sites(key, {"JOERN"})' # {} => (InTree(key) \subseteq matched)'
                     /\ Cardinality(Sites(key, {"BOTH", "TREE_SITTER"})') =
                           Cardinality((matched \cap InTree(key))')
    BY <1>1 DEF Counts
  <2> DEFINE both == KeyOf(site) = key /\ free # {}
             new(B) == IF B THEN 1 ELSE 0
  <2>1. InTree(key)' = InTree(key) /\ IsFiniteSet(InTree(key))
    BY <1>1, FS_Subset DEF InTree, MatchInv, MatchTyping
  <2>2. MatchTyping
    BY DEF MatchInv
  <2>3. Cardinality(Sites(key, {"BOTH"})') = Cardinality(Sites(key, {"BOTH"})) + new(both)
    BY <1>1, <1>2, <2>2, SiteAdded
  <2>4. Cardinality(Sites(key, {"BOTH", "TREE_SITTER"})') =
          Cardinality(Sites(key, {"BOTH", "TREE_SITTER"})) + new(both)
    BY <1>1, <1>2, <2>2, SiteAdded
  <2>5. Cardinality(Sites(key, {"BOTH", "JOERN"})') =
          Cardinality(Sites(key, {"BOTH", "JOERN"})) + new(KeyOf(site) = key)
    BY <1>1, <1>2, <2>2, SiteAdded
  <2>6. Cardinality(InJoern(key)') = Cardinality(InJoern(key)) + new(KeyOf(site) = key)
    BY <1>1, <1>2, <2>2, JoernAdded
  <2>7. Cardinality((matched \cap InTree(key))') = Cardinality(matched \cap InTree(key)) + new(both)
    <3>1. (matched \cap InTree(key))' =
            (matched \cap InTree(key)) \cup (IF both THEN {FirstCall(free)} ELSE {})
      BY <1>1, <1>2, <1>3, <2>1 DEF InTree
    <3>2. FirstCall(free) \notin matched \cap InTree(key) \/ ~both
      BY <1>3
    <3>3. IsFiniteSet(matched \cap InTree(key))
      BY <2>1, FS_Subset
    <3>4. Cardinality((matched \cap InTree(key)) \cup (IF both THEN {FirstCall(free)} ELSE {})) =
            Cardinality(matched \cap InTree(key)) + new(both)
      <4>1. CASE both
        BY <3>2, <3>3, <4>1, OneMore
      <4>2. CASE ~both
        <5>1. Cardinality(matched \cap InTree(key)) \in Nat
          BY <3>3, FS_CardinalityType
        <5>2. (matched \cap InTree(key)) \cup {} = matched \cap InTree(key)
          OBVIOUS
        <5> HIDE DEF both
        <5> QED
          BY <4>2, <5>1, <5>2
      <4> QED
        BY <4>1, <4>2
    <3> QED
      BY <3>1, <3>4
  <2>8. Sites(key, {"JOERN"})' # {} => (InTree(key) \subseteq matched)'
    <3>1. Sites(key, {"JOERN"})' = Sites(key, {"JOERN"}) \cup
            (IF KeyOf(site) = key /\ site.provenance \in {"JOERN"} THEN {Len(sites) + 1} ELSE {})
      BY <1>1, <2>2, SiteAdded
    <3>2. KeyOf(site) = key /\ free = {} => InTree(key) \subseteq matched
      BY <1>2 DEF InTree
    <3> QED
      BY <1>1, <1>2, <2>1, <3>1, <3>2 DEF MatchInv, Counts
  <2> HIDE DEF new, both
  <2> QED
    BY <1>1, <2>3, <2>4, <2>5, <2>6, <2>7, <2>8 DEF MatchInv, Counts
<1>7. Aimed'
  <2>1. PICK S : sites \in Seq(S)
    BY DEF MatchInv, MatchTyping
  <2>2. /\ Len(sites) \in Nat /\ DOMAIN sites = 1 .. Len(sites)
        /\ DOMAIN sites' = 1 .. Len(sites) + 1
        /\ \A i \in DOMAIN sites : sites'[i] = sites[i]
        /\ sites'[Len(sites) + 1] = site
    BY <1>1, <2>1, Appended
  <2>3. /\ \A j \in DOMAIN joern : j \in DOMAIN joern' /\ joern'[j] = joern[j]
        /\ \E j \in DOMAIN joern' : joern'[j] = call
    BY <1>1, JoernAdded DEF MatchInv
  <2>4. ASSUME NEW callee \in site.callees
        PROVE  FindCallees(repository, call) = {callee}
    <3>1. IsFiniteSet(callees)
      BY CalleesFinite DEF MatchInv, MatchTyping
    <3>2. Cardinality(callees) = 1 /\ callee \in callees
      BY <1>2, <2>4
    <3> QED
      BY <3>1, <3>2, OneMember
  <2>5. \A x : AimedSite(x) => AimedSite(x)'
    BY <1>1, <2>3, StaysAimed
  <2>6. PICK j \in DOMAIN joern' : joern'[j] = call
    BY <2>3
  <2>7. JoernKey(call)' = KeyOf(site)
    BY <1>1, <1>2 DEF JoernKey
  <2>8. FindCallees(repository, call)' = FindCallees(repository, call)
    BY <1>1
  <2>9. site.provenance \in Provenances
    BY <1>2 DEF Provenances
  <2> HIDE DEF site, own, callees, free
  <2>10. ASSUME NEW x, x = site
         PROVE  AimedSite(x)'
    <3> SUFFICES ASSUME NEW callee \in x.callees
                 PROVE  \E i \in DOMAIN joern' : /\ JoernKey(joern[i])' = KeyOf(x)
                                                 /\ FindCallees(repository, joern[i])' = {callee}
      BY <2>9, <2>10 DEF AimedSite, KeyOf
    <3>1. JoernKey(joern[j])' = KeyOf(x)
      BY <2>6, <2>7, <2>10 DEF JoernKey
    <3>2. FindCallees(repository, joern[j])' = {callee}
      BY <2>4, <2>6, <2>8, <2>10
    <3> QED
      BY <2>6, <3>1, <3>2
  <2>11. \A i \in DOMAIN sites : AimedSite(sites[i])
    BY DEF MatchInv, Aimed
  <2>12. ASSUME NEW i \in DOMAIN sites', NEW x, x = sites'[i]
         PROVE  AimedSite(x)'
    <3>1. CASE i = Len(sites) + 1
      BY <2>2, <2>10, <2>12, <3>1
    <3>2. CASE i \in DOMAIN sites
      <4>1. AimedSite(x)
        BY <2>2, <2>11, <2>12, <3>2
      <4> QED
        BY <2>5, <4>1
    <3> QED
      BY <2>2, <3>1, <3>2
  <2> QED
    BY <2>12, AimedByValue
<1> QED
  BY <1>5, <1>6, <1>7 DEF MatchInv

LEMMA MatchJoernKeeps ==
  ASSUME MatchInv, NEW call, MatchJoern(call)
  PROVE  MatchInv'
<1>1. CASE FindCaller(repository, call) # NoCount
  BY <1>1, JoernMatched
<1>2. CASE FindCaller(repository, call) = NoCount
  <2>1. /\ joern' = Append(joern, call)
        /\ UNCHANGED <<matched, sites, repository, joernOver, missing>>
    BY <1>2 DEF MatchJoern
  <2>2. MatchTyping'
    <3>1. PICK S : joern \in Seq(S)
      BY DEF MatchInv, MatchTyping
    <3>2. joern' \in Seq(S \cup {call})
      BY <2>1, <3>1, Appended
    <3> QED
      BY <2>1, <3>2 DEF MatchInv, MatchTyping
  <2>3. ASSUME NEW key
        PROVE  /\ Cardinality(InJoern(key)') = Cardinality(InJoern(key))
               /\ InTree(key)' = InTree(key)
               /\ \A from : Sites(key, from)' = Sites(key, from)
    <3>1. Cardinality(InJoern(key)') = Cardinality(InJoern(key)) + 0
      BY <1>2, <2>1, JoernAdded DEF MatchInv
    <3>2. Cardinality(InJoern(key)) \in Nat
      BY <2>1, JoernAdded, FS_CardinalityType DEF MatchInv
    <3> QED
      BY <2>1, <3>1, <3>2 DEF InTree, Sites
  <2>4. Counts'
    BY <2>1, <2>3 DEF MatchInv, Counts
  <2>5. Aimed'
    <3>1. \A j \in DOMAIN joern : j \in DOMAIN joern' /\ joern'[j] = joern[j]
      BY <2>1, JoernAdded DEF MatchInv
    <3>2. \A x : AimedSite(x) => AimedSite(x)'
      BY <2>1, <3>1, StaysAimed
    <3>3. ASSUME NEW i \in DOMAIN sites', NEW x, x = sites'[i]
          PROVE  AimedSite(x)'
      <4>1. AimedSite(x)
        BY <2>1, <3>3 DEF MatchInv, Aimed
      <4> QED
        BY <3>2, <4>1
    <3> QED
      BY <3>3, AimedByValue
  <2> QED
    BY <2>2, <2>4, <2>5 DEF MatchInv
<1> QED
  BY <1>1, <1>2

LEMMA EndJoernKeeps == MatchInv /\ EndJoern => MatchInv'
<1> SUFFICES ASSUME MatchInv, EndJoern PROVE MatchInv'
  OBVIOUS
<1>1. /\ joernOver' = TRUE /\ missing' = TreeCalls(repository) \ matched
      /\ ~joernOver
      /\ UNCHANGED <<repository, joern, matched, sites>>
  BY DEF EndJoern
<1>2. MatchTyping'
  BY <1>1 DEF MatchInv, MatchTyping
<1>3. \A key : /\ InTree(key)' = InTree(key) /\ InJoern(key)' = InJoern(key)
               /\ (InTree(key) \ missing)' = matched \cap InTree(key)
               /\ \A from : Sites(key, from)' = Sites(key, from)
  BY <1>1 DEF InTree, InJoern, JoernKey, Sites, MatchInv, MatchTyping
<1>4. Counts'
  BY <1>1, <1>3 DEF MatchInv, Counts
<1>5. Aimed'
  BY <1>1 DEF MatchInv, Aimed, AimedSite, JoernKey, KeyOf
<1> QED
  BY <1>2, <1>4, <1>5 DEF MatchInv

LEMMA AddMissingKeeps == MatchInv /\ AddMissing => MatchInv'
<1> SUFFICES ASSUME MatchInv, NEW t \in missing, missing' = missing \ {t},
                    sites' = Append(sites, CallSite(t.caller, t, {}, "UNRESOLVED", "TREE_SITTER")),
                    UNCHANGED <<repository, joern, matched, joernOver>>
             PROVE  MatchInv'
  BY DEF AddMissing
<1> DEFINE site == CallSite(t.caller, t, {}, "UNRESOLVED", "TREE_SITTER")
<1>1. KeyOf(site) = KeyOf(t) /\ site.provenance = "TREE_SITTER" /\ site.callees = {}
  BY DEF CallSite, KeyOf
<1>2. joernOver /\ t \in TreeCalls(repository) \ matched
  BY DEF MatchInv, MatchTyping
<1> HIDE DEF site
<1>3. sites' = Append(sites, site)
  BY DEF site
<1>4. MatchTyping'
  <2>1. PICK S : sites \in Seq(S)
    BY DEF MatchInv, MatchTyping
  <2>2. sites' \in Seq(S \cup {site})
    BY <1>3, <2>1, Appended
  <2> QED
    BY <2>2 DEF MatchInv, MatchTyping
<1>5. Counts'
  <2> SUFFICES ASSUME NEW key
               PROVE /\ Cardinality(Sites(key, {"BOTH"})') = Cardinality((matched \cap InTree(key))')
                     /\ Cardinality(Sites(key, {"BOTH", "JOERN"})') = Cardinality(InJoern(key)')
                     /\ Sites(key, {"JOERN"})' # {} => (InTree(key) \subseteq matched)'
                     /\ Cardinality(Sites(key, {"BOTH", "TREE_SITTER"})') =
                           Cardinality((InTree(key) \ missing)')
    BY <1>2 DEF Counts
  <2> DEFINE more == IF KeyOf(t) = key THEN 1 ELSE 0
  <2>0. MatchTyping
    BY DEF MatchInv
  <2>1. InTree(key)' = InTree(key) /\ InJoern(key)' = InJoern(key) /\ IsFiniteSet(InTree(key))
    BY FS_Subset DEF InTree, InJoern, JoernKey, MatchInv, MatchTyping
  <2>2. /\ Sites(key, {"BOTH"})' = Sites(key, {"BOTH"})
        /\ Sites(key, {"JOERN"})' = Sites(key, {"JOERN"})
        /\ Sites(key, {"BOTH", "JOERN"})' = Sites(key, {"BOTH", "JOERN"})
    <3>1. ASSUME NEW from, "TREE_SITTER" \notin from
          PROVE  Sites(key, from)' = Sites(key, from)
      <4>1. Sites(key, from)' = Sites(key, from) \cup
              (IF KeyOf(site) = key /\ site.provenance \in from THEN {Len(sites) + 1} ELSE {})
        BY <1>3, <2>0, SiteAdded
      <4> QED
        BY <1>1, <3>1, <4>1
    <3> QED
      BY <3>1
  <2>3. Cardinality(Sites(key, {"BOTH", "TREE_SITTER"})') =
          Cardinality(Sites(key, {"BOTH", "TREE_SITTER"})) + more
    BY <1>1, <1>3, <2>0, SiteAdded
  <2>4. Cardinality((InTree(key) \ missing)') = Cardinality(InTree(key) \ missing) + more
    <3>1. (InTree(key) \ missing)' =
            (InTree(key) \ missing) \cup (IF KeyOf(t) = key THEN {t} ELSE {})
      BY <1>2, <2>1 DEF InTree
    <3>2. IsFiniteSet(InTree(key) \ missing)
      BY <2>1, FS_Subset
    <3>3. t \notin InTree(key) \ missing
      OBVIOUS
    <3>4. Cardinality((InTree(key) \ missing) \cup (IF KeyOf(t) = key THEN {t} ELSE {})) =
            Cardinality(InTree(key) \ missing) + more
      BY <3>2, <3>3, OneMore
    <3> QED
      BY <3>1, <3>4
  <2> QED
    BY <1>2, <2>1, <2>2, <2>3, <2>4 DEF MatchInv, Counts
<1>6. Aimed'
  <2>1. PICK S : sites \in Seq(S)
    BY DEF MatchInv, MatchTyping
  <2>2. /\ Len(sites) \in Nat /\ DOMAIN sites = 1 .. Len(sites)
        /\ DOMAIN sites' = 1 .. Len(sites) + 1
        /\ \A i \in DOMAIN sites : sites'[i] = sites[i]
        /\ sites'[Len(sites) + 1] = site
    BY <1>3, <2>1, Appended
  <2> QED
    <3>1. \A x : AimedSite(x) => AimedSite(x)'
      BY StaysAimed
    <3>2. ASSUME NEW i \in DOMAIN sites', NEW x, x = sites'[i]
          PROVE  AimedSite(x)'
      <4>1. CASE i = Len(sites) + 1
        BY <1>1, <2>2, <3>2, <4>1 DEF AimedSite, Provenances
      <4>2. CASE i \in DOMAIN sites
        <5>1. AimedSite(x)
          BY <2>2, <3>2, <4>2 DEF MatchInv, Aimed
        <5> QED
          BY <3>1, <5>1
      <4> QED
        BY <2>2, <4>1, <4>2
    <3> QED
      BY <3>2, AimedByValue
<1> QED
  BY <1>4, <1>5, <1>6 DEF MatchInv

(* The invariant of the matching. *)
LEMMA MatchInvariance == MatchSpec => []MatchInv
<1>1. MatchInv /\ [MatchNext]_matchVars => MatchInv'
  <2> SUFFICES ASSUME MatchInv, [MatchNext]_matchVars PROVE MatchInv'
    OBVIOUS
  <2>1. ASSUME NEW call \in JoernCalls, MatchJoern(call) PROVE MatchInv'
    BY <2>1, MatchJoernKeeps
  <2>2. CASE EndJoern
    BY <2>2, EndJoernKeeps
  <2>3. CASE AddMissing
    BY <2>3, AddMissingKeeps
  <2>4. CASE UNCHANGED matchVars
    <3>1. MatchTyping'
      BY <2>4 DEF matchVars, MatchInv, MatchTyping
    <3>2. \A key : /\ InTree(key)' = InTree(key) /\ InJoern(key)' = InJoern(key)
                   /\ \A from : Sites(key, from)' = Sites(key, from)
      BY <2>4 DEF matchVars, InTree, InJoern, JoernKey, Sites
    <3>3. Counts'
      BY <2>4, <3>2 DEF matchVars, MatchInv, Counts
    <3>4. Aimed'
      BY <2>4 DEF matchVars, MatchInv, Aimed, AimedSite, JoernKey, KeyOf
    <3> QED
      BY <3>1, <3>3, <3>4 DEF MatchInv
  <2> QED
    BY <2>1, <2>2, <2>3, <2>4 DEF MatchNext
<1> QED
  BY <1>1, MatchBegins, PTL DEF MatchSpec

(* Every call of Joern with a known caller is one call site, as many as    *)
(* possible are the parser's calls too, and in the end every call of the   *)
(* parser is one; an edge leads only to the sole callable of the name that *)
(* a call of Joern there has as its target (_resolve_joern_call_sites).    *)
THEOREM CallSites == MatchSpec => []CallSitesAccounted
<1>1. MatchInv => CallSitesAccounted
  <2> SUFFICES ASSUME MatchInv PROVE CallSitesAccounted
    OBVIOUS
  <2>1. ASSUME NEW key
        PROVE  /\ Cardinality(Sites(key, {"BOTH", "JOERN"})) = Cardinality(InJoern(key))
               /\ Cardinality(Sites(key, {"BOTH"})) =
                    (IF Cardinality(InTree(key)) < Cardinality(InJoern(key))
                     THEN Cardinality(InTree(key)) ELSE Cardinality(InJoern(key)))
               /\ joernOver /\ missing = {} =>
                    Cardinality(Sites(key, {"BOTH", "TREE_SITTER"})) = Cardinality(InTree(key))
    <3>1. /\ IsFiniteSet(InTree(key))
          /\ Cardinality(InTree(key)) \in Nat
          /\ Cardinality(matched \cap InTree(key)) \in Nat
          /\ Cardinality(matched \cap InTree(key)) <= Cardinality(InTree(key))
      <4>1. IsFiniteSet(InTree(key))
        BY FS_Subset DEF InTree, MatchInv, MatchTyping
      <4> QED
        BY <4>1, FS_Subset, FS_CardinalityType
    <3>2. PICK S : sites \in Seq(S)
      BY DEF MatchInv, MatchTyping
    <3>3. IsFiniteSet(Sites(key, {"BOTH", "JOERN"}))
      BY <3>2, FinitePlaces DEF Sites
    <3>4. Sites(key, {"BOTH"}) \subseteq Sites(key, {"BOTH", "JOERN"})
      BY DEF Sites
    <3>5. /\ Cardinality(Sites(key, {"BOTH"})) <= Cardinality(Sites(key, {"BOTH", "JOERN"}))
          /\ Cardinality(Sites(key, {"BOTH", "JOERN"})) \in Nat
      BY <3>3, <3>4, FS_Subset, FS_CardinalityType
    <3>6. CASE Sites(key, {"JOERN"}) = {}
      <4>1. Sites(key, {"BOTH"}) = Sites(key, {"BOTH", "JOERN"})
        BY <3>6 DEF Sites
      <4> QED
        BY <3>1, <3>5, <4>1 DEF MatchInv, Counts
    <3>7. CASE Sites(key, {"JOERN"}) # {}
      <4>1. matched \cap InTree(key) = InTree(key)
        BY <3>7 DEF MatchInv, Counts
      <4> QED
        BY <3>1, <3>5, <4>1 DEF MatchInv, Counts
    <3> QED
      BY <3>6, <3>7
  <2>2. ASSUME NEW edge \in Calls(sites)
        PROVE  \E i \in DOMAIN joern : /\ JoernKey(joern[i]) = KeyOf(sites[edge[3]])
                                       /\ FindCallees(repository, joern[i]) = {edge[2]}
    <3>1. PICK i \in DOMAIN sites : \E callee \in sites[i].callees :
                                      edge = <<sites[i].caller, callee, i>>
      BY DEF Calls
    <3> QED
      BY <3>1 DEF MatchInv, Aimed, AimedSite
  <2> QED
    BY <2>1, <2>2 DEF CallSitesAccounted
<1> QED
  BY <1>1, MatchInvariance, PTL

-----------------------------------------------------------------------------
(***************************************************************************)
(* Names.                                                                  *)
(***************************************************************************)

\* A context whose names are made of the parts.
NamesOf(f, Parts) == \A x \in DOMAIN f : f[x] \in Seq(Parts)
ContextOf(context, Parts) ==
  /\ NamesOf(context.explicit, Parts)
  /\ NamesOf(context.aliases, Parts)
  /\ NamesOf(context.requireAliases, Parts)

LEMMA OnlyMember ==
  ASSUME NEW S, IsFiniteSet(S)
  PROVE  /\ TheOnly(S) \in S \cup {NoName}
         /\ TheOnly(S) # NoName => S = {TheOnly(S)}
<1>1. CASE Cardinality(S) = 1
  <2>1. PICK x : S = {x}
    BY <1>1, FS_Singleton
  <2> QED
    BY <1>1, <2>1 DEF TheOnly
<1>2. CASE Cardinality(S) # 1
  BY <1>2 DEF TheOnly
<1> QED
  BY <1>1, <1>2

\* The first of four names that is declared.
LEMMA FirstVisible ==
  ASSUME NEW visible, NEW declared,
         NEW I, I = {i \in 1 .. 4 : visible[i] \in declared},
         NEW k, k = IF I # {} THEN Min(I) ELSE 0
  PROVE  /\ k = 0 \/ (k \in 1 .. 4 /\ visible[k] \in declared)
         /\ visible[1] \notin declared /\ visible[2] \in declared => k = 2
<1>1. I \in SUBSET Nat /\ \A i \in I : i \in 1 .. 4 /\ visible[i] \in declared
  OBVIOUS
<1>2. /\ visible[1] \notin declared => 1 \notin I
      /\ visible[2] \in declared => 2 \in I
  OBVIOUS
<1>3. I # {} => Min(I) \in I /\ \A i \in I : Min(I) <= i
  <2> SUFFICES ASSUME I # {} PROVE Min(I) \in I /\ \A i \in I : Min(I) <= i
    OBVIOUS
  <2>1. PICK m \in I : \A i \in I : m <= i
    BY <1>1, LeastOf
  <2> QED
    BY <2>1 DEF Min
<1>4. k = 0 \/ (k \in 1 .. 4 /\ visible[k] \in declared)
  BY <1>1, <1>3
<1>5. ASSUME visible[1] \notin declared, visible[2] \in declared PROVE k = 2
  <2>1. Min(I) \in I /\ Min(I) <= 2 /\ k = Min(I) /\ 1 \notin I
    BY <1>2, <1>3, <1>5
  <2> QED
    BY <1>1, <2>1
<1> QED
  BY <1>4, <1>5

(* The last steps of the search for a name. *)
LEMMA Scoped ==
  ASSUME NEW declared, IsFiniteSet(declared), NoName \notin declared,
         NEW type, NEW context
  PROVE  LET local == Last(type)
             found == ByScope(type, context, declared)
         IN /\ found \in declared \cup {NoName}
            /\ /\ At(context.requireImports, local) = NoName
               /\ At(context.explicit, local) \in declared
               => found = At(context.explicit, local)
            /\ /\ At(context.requireImports, local) = NoName
               /\ At(context.explicit, local) = NoName
               /\ found # NoName
               => \/ found \in {Append(context.module, local), Append(context.package, local)}
                                 \cup {Append(w, local) : w \in context.wildcards}
                  \/ WithShort(local, declared) = {found}
<1> DEFINE local == Last(type)
           a == At(context.requireImports, local)
           b == At(context.explicit, local)
           c == Append(context.module, local)
           d == Append(context.package, local)
           k == SelectInSeq(<<a, b, c, d>>, LAMBDA n : n \in declared)
           open == {Append(w, local) : w \in context.wildcards}
           wild == open \cap declared
           short == WithShort(local, declared)
           found == ByScope(type, context, declared)
<1>2. found = IF k # 0 THEN <<a, b, c, d>>[k]
              ELSE IF Cardinality(wild) = 1 THEN TheOnly(wild) ELSE TheOnly(short)
  BY DEF ByScope
<1>3. /\ k = 0 \/ (k \in 1 .. 4 /\ <<a, b, c, d>>[k] \in declared)
      /\ a \notin declared /\ b \in declared => k = 2
  <2> DEFINE visible == <<a, b, c, d>>
             I == {i \in 1 .. 4 : visible[i] \in declared}
  <2>1. k = IF I # {} THEN Min(I) ELSE 0
    <3>1. Len(<<a, b, c, d>>) = 4
      OBVIOUS
    <3> HIDE DEF a, b, c, d
    <3> QED
      BY <3>1 DEF SelectInSeq
  <2>2. visible[1] = a /\ visible[2] = b
    OBVIOUS
  <2>3. I = {i \in 1 .. 4 : visible[i] \in declared}
    OBVIOUS
  <2> HIDE DEF I, k, visible, a, b
  <2>4. /\ k = 0 \/ (k \in 1 .. 4 /\ visible[k] \in declared)
        /\ visible[1] \notin declared /\ visible[2] \in declared => k = 2
    BY <2>1, <2>3, FirstVisible
  <2> QED
    BY <2>2, <2>4 DEF visible
<1>4. /\ IsFiniteSet(wild) /\ wild \subseteq declared /\ wild \subseteq open
      /\ IsFiniteSet(short) /\ short \subseteq declared
  <2>1. wild \in SUBSET declared /\ wild \subseteq open
    OBVIOUS
  <2>2. short \in SUBSET declared
    BY DEF WithShort
  <2> HIDE DEF wild, short
  <2> QED
    BY <2>1, <2>2, FS_Subset
<1> HIDE DEF wild, short, k, found, a, b, c, d, open
<1>5. /\ TheOnly(wild) \in wild \cup {NoName}
      /\ TheOnly(short) \in short \cup {NoName}
      /\ TheOnly(short) # NoName => short = {TheOnly(short)}
  BY <1>4, OnlyMember
<1>6. found \in declared \cup {NoName}
  BY <1>2, <1>3, <1>4, <1>5
<1>7. ASSUME a = NoName, b \in declared PROVE found = b
  <2>1. k = 2
    BY <1>3, <1>7
  <2> QED
    BY <1>2, <2>1
<1>8. ASSUME a = NoName, b = NoName, found # NoName
      PROVE  found \in {c, d} \cup open \/ short = {found}
  <2>1. CASE k = 0
    BY <1>2, <1>4, <1>5, <1>8, <2>1
  <2>2. CASE k \in 1 .. 4
    <3>1. found \in {a, b, c, d}
      <4>1. <<a, b, c, d>>[k] \in {a, b, c, d}
        BY <2>2
      <4> QED
        BY <1>2, <2>2, <4>1
    <3> QED
      BY <1>8, <3>1
  <2> QED
    BY <1>3, <2>1, <2>2
<1> QED
  BY <1>6, <1>7, <1>8 DEF a, b, c, d, open, short, found

(* Whatever is declared, and in whatever file a name stands whose header   *)
(* says once where it comes from, the name is linked to a declared type or *)
(* not at all, and to one that the imports and the neighbours of the file  *)
(* lead to (_resolve_type_full_name).                                      *)
THEOREM LinksFollow ==
  ASSUME NEW Parts, NEW declared \in SUBSET (Seq(Parts) \ {NoName}), IsFiniteSet(declared),
         NEW type \in Seq(Parts) \ {NoName},
         NEW context, ContextOf(context, Parts), BoundOnce(context, type[1])
  PROVE  LinkFollows(type, context, declared)
<1> DEFINE local == type[1]
           alias == At(context.aliases, local)
           prefix == IF alias # NoName THEN alias ELSE At(context.requireAliases, local)
           bound == At(context.explicit, local)
           within == {n \in Under(prefix, declared) : Last(n) = Last(type)}
           default == IF At(context.defaults, local) # NoName
                      THEN At(context.defaults, local) ELSE prefix
           result == Resolve(type, context, declared)
           last == ByScope(type, context, declared)
           full == prefix \o Tail(type)
<1>1. result = IF type \in declared THEN type
               ELSE IF prefix # NoName /\ full \in declared THEN full
               ELSE IF Len(type) > 1 /\ prefix # NoName /\ within # {} THEN TheOnly(within)
               ELSE IF ~(Len(type) > 1) /\ default # NoName
                    THEN TheOnly(Under(default, declared))
               ELSE last
  BY DEF Resolve
<1>2. /\ prefix \in Seq(Parts) /\ bound \in Seq(Parts)
  BY DEF ContextOf, NamesOf, At, NoName
<1>3. Len(type) \in Nat /\ Len(type) >= 1
  BY DEF NoName
<1>4. /\ bound # NoName => /\ prefix \in {NoName, bound}
                           /\ At(context.defaults, local) = NoName
                           /\ At(context.requireImports, local) = NoName
  BY DEF BoundOnce
<1>5. /\ \A p : Under(p, declared) \in SUBSET declared
      /\ \A p : \A n \in Under(p, declared) : IsPrefix(p, n)
      /\ within \in SUBSET declared
  BY DEF Under, IsStrictPrefix
<1>6. /\ TheOnly(within) \in declared \cup {NoName}
      /\ TheOnly(Under(default, declared)) \in Under(default, declared) \cup {NoName}
  <2>1. IsFiniteSet(within) /\ IsFiniteSet(Under(default, declared))
    <3> HIDE DEF within, default
    <3> QED
      BY <1>5, FS_Subset
  <2> HIDE DEF within, default
  <2> QED
    BY <1>5, <2>1, OnlyMember
<1>7. /\ last \in declared \cup {NoName}
      /\ Len(type) = 1 /\ At(context.requireImports, local) = NoName =>
           /\ bound \in declared => last = bound
           /\ bound = NoName /\ last # NoName =>
                \/ last \in {Append(context.module, local), Append(context.package, local)}
                             \cup {Append(w, local) : w \in context.wildcards}
                \/ WithShort(local, declared) = {last}
  <2>1. Len(type) = 1 => Last(type) = local
    BY DEF Last
  <2> HIDE DEF bound, last, local
  <2>2. last \in declared \cup {NoName}
    BY Scoped DEF last
  <2>3. ASSUME Len(type) = 1, At(context.requireImports, local) = NoName
        PROVE  /\ bound \in declared => last = bound
               /\ bound = NoName /\ last # NoName =>
                    \/ last \in {Append(context.module, local), Append(context.package, local)}
                                 \cup {Append(w, local) : w \in context.wildcards}
                    \/ WithShort(local, declared) = {last}
    BY <2>1, <2>3, Scoped DEF last, bound
  <2> QED
    BY <2>2, <2>3
<1>8. Len(type) = 1 => full = prefix
  <2>1. type \in Seq(Parts) /\ type # <<>>
    BY DEF NoName
  <2>2. Len(type) = 1 => Tail(type) = <<>>
    <3>1. Tail(type) \in Seq(Parts) /\ Len(Tail(type)) = Len(type) - 1
      BY <2>1, HeadTailProperties
    <3> DEFINE t == Tail(type)
    <3> HIDE DEF t
    <3>2. t \in Seq(Parts) /\ (Len(type) = 1 => Len(t) = 0)
      BY <3>1 DEF t
    <3>3. t # <<>> => Len(t) # 0
      BY <3>2, EmptySeq
    <3> QED
      BY <3>2, <3>3 DEF t
  <2> HIDE DEF prefix
  <2>3. prefix \o <<>> = prefix
    BY <1>2, ConcatEmptySeq
  <2> QED
    BY <2>2, <2>3
<1> HIDE DEF prefix, within, last, full, result
<1>9. result \in declared \cup {NoName}
  BY <1>1, <1>5, <1>6, <1>7
<1>10. ASSUME Len(type) = 1, type \notin declared, bound \in declared
       PROVE  result = bound
  <2>1. bound # NoName
    BY <1>10
  <2>2. CASE prefix = bound
    BY <1>1, <1>8, <1>10, <2>1, <2>2
  <2>3. CASE prefix = NoName
    BY <1>1, <1>4, <1>7, <1>10, <2>1, <2>3
  <2> QED
    BY <1>4, <2>1, <2>2, <2>3
<1>11. ASSUME Len(type) = 1, type \notin declared, bound # NoName, alias = bound
       PROVE  result = NoName \/ IsPrefix(bound, result)
  <2>1. prefix = bound /\ default = bound
    BY <1>4, <1>11 DEF prefix
  <2>2. IsPrefix(bound, bound)
    BY <1>2 DEF IsPrefix
  <2>3. result = bound \/ result = TheOnly(Under(bound, declared))
    BY <1>1, <1>8, <1>11, <2>1
  <2>4. TheOnly(Under(bound, declared)) \in Under(bound, declared) \cup {NoName}
    BY <1>6, <2>1
  <2> QED
    BY <1>5, <2>2, <2>3, <2>4
<1>12. ASSUME Len(type) = 1, type \notin declared, result # NoName,
              local \notin DOMAIN context.explicit \cup DOMAIN context.aliases
                             \cup DOMAIN context.defaults
                             \cup DOMAIN context.requireAliases
                             \cup DOMAIN context.requireImports
       PROVE  \/ result \in {Append(context.module, local), Append(context.package, local)}
                              \cup {Append(w, local) : w \in context.wildcards}
              \/ WithShort(local, declared) = {result}
  <2>1. /\ prefix = NoName /\ default = NoName /\ bound = NoName
        /\ At(context.requireImports, local) = NoName
    BY <1>12 DEF prefix, At
  <2>2. result = last
    BY <1>1, <1>12, <2>1
  <2> QED
    BY <1>7, <1>12, <2>1, <2>2
<1> QED
  BY <1>9, <1>10, <1>11, <1>12 DEF LinkFollows, result

(* The headers of the three kinds of files give such contexts: in Python   *)
(* what is imported is also an alias, in the same words, unless the file   *)
(* imports something else under that name; in Java there are no aliases;   *)
(* in a script a name is imported in one form.                             *)
LEMMA PythonBindsOnce ==
  ASSUME NEW path, NEW imports, NEW local,
         \A i, j \in imports : i.local = j.local /\ i.form = "from" => i = j
  PROVE  BoundOnce(PythonContext(path, imports), local)
<1> DEFINE context == PythonContext(path, imports)
           froms == {i \in imports : i.form = "from" /\ i.name # "*"}
           plain == {i \in imports : i.form = "import"}
           OneOf(S, l) ==
             LET i == CHOOSE i \in S : i.local = l
             IN IF i.form = "from"
                THEN AbsolutePythonImport(context.package, i.module, i.level) \o <<i.name>>
                ELSE i.module
<1>1. /\ context.requireAliases = <<>> /\ context.requireImports = <<>>
      /\ context.defaults = <<>>
      /\ context.explicit = [l \in {i.local : i \in froms} |-> OneOf(froms, l)]
      /\ context.aliases = [l \in {i.local : i \in froms \cup plain} |->
                              OneOf(froms \cup plain, l)]
  BY DEF PythonContext, EmptyContext
<1>4. ASSUME NEW l \in {i.local : i \in froms}
      PROVE  OneOf(froms, l) = OneOf(froms \cup plain, l)
  <2>1. PICK i \in froms : i.local = l
    OBVIOUS
  <2>2. \A j \in froms \cup plain : j.local = l => j = i
    BY <2>1
  <2>3. /\ (CHOOSE j \in froms : j.local = l) = i
        /\ (CHOOSE j \in froms \cup plain : j.local = l) = i
    BY <2>1, <2>2
  <2> QED
    BY <2>3
<1>2. \A x : At(<<>>, x) = NoName
  BY DEF At
<1> HIDE DEF context, OneOf
<1>3. At(context.explicit, local) # NoName =>
        At(context.aliases, local) = At(context.explicit, local)
  BY <1>1, <1>4 DEF At
<1> QED
  BY <1>1, <1>2, <1>3 DEF BoundOnce, context

LEMMA JavaBindsOnce ==
  ASSUME NEW package, NEW imports, NEW local
  PROVE  BoundOnce(JavaContext(package, imports), local)
<1> DEFINE context == JavaContext(package, imports)
<1>1. /\ context.requireAliases = <<>> /\ context.requireImports = <<>>
      /\ context.defaults = <<>> /\ context.aliases = <<>>
  BY DEF JavaContext, EmptyContext
<1>2. \A x : At(<<>>, x) = NoName
  BY DEF At
<1> QED
  BY <1>1, <1>2 DEF BoundOnce

LEMMA ScriptBindsOnce ==
  ASSUME NEW module, NEW imports, NEW local,
         \A i, j \in imports : i.local = j.local => i = j
  PROVE  BoundOnce(EcmascriptContext(module, imports), local)
<1> DEFINE context == EcmascriptContext(module, imports)
           Given(form) == {i \in imports : /\ i.form = form
                            /\ AbsoluteEcmascriptImport(module, i.relative, i.steps) # NoName}
           Locals(form) == {i.local : i \in Given(form)}
<1>1. /\ context.requireAliases = <<>> /\ context.requireImports = <<>>
      /\ DOMAIN context.explicit = Locals("named")
      /\ DOMAIN context.aliases = Locals("namespace")
      /\ DOMAIN context.defaults = Locals("default")
  BY DEF EcmascriptContext, EmptyContext
<1>2. \A l \in Locals("named") : l \notin Locals("namespace") /\ l \notin Locals("default")
  OBVIOUS
<1>3. \A x : At(<<>>, x) = NoName
  BY DEF At
<1> HIDE DEF context, Locals
<1>4. At(context.explicit, local) # NoName =>
        /\ At(context.aliases, local) = NoName
        /\ At(context.defaults, local) = NoName
  BY <1>1, <1>2 DEF At
<1> QED
  BY <1>1, <1>3, <1>4 DEF BoundOnce, context

-----------------------------------------------------------------------------
(***************************************************************************)
(* Search: the orders.                                                     *)
(***************************************************************************)

\* A strict order in which any two members can be compared.
Orders(S, order) ==
  /\ \A c \in S : <<c, c>> \notin order
  /\ \A c, d \in S : c # d => <<c, d>> \in order \/ <<d, c>> \in order
  /\ \A c, d, e \in S : <<c, d>> \in order /\ <<d, e>> \in order => <<c, e>> \in order

\* A list of all of S, each member once.
Lists(s, S) ==
  /\ Cardinality(S) \in Nat
  /\ s \in [1 .. Cardinality(S) -> S]
  /\ ToSet(s) = S
  /\ IsInjective(s)

(* Where there is an order, there is a list in that order: each member     *)
(* stands at one more than the number of those before it.                  *)
LEMMA InOrderExists ==
  ASSUME NEW S, IsFiniteSet(S), NEW order, Orders(S, order)
  PROVE  \E s \in [1 .. Cardinality(S) -> S] :
           /\ ToSet(s) = S
           /\ \A i, j \in DOMAIN s : i < j => <<s[i], s[j]>> \in order
<1> DEFINE n == Cardinality(S)
           before(c) == {d \in S : <<d, c>> \in order}
           place == [c \in S |-> Cardinality(before(c)) + 1]
<1>1. n \in Nat
  BY FS_CardinalityType
<1>2. ASSUME NEW c \in S
      PROVE  /\ IsFiniteSet(before(c)) /\ Cardinality(before(c)) \in Nat
             /\ place[c] \in 1 .. n
  <2>1. IsFiniteSet(S \ {c}) /\ Cardinality(S \ {c}) = n - 1
    BY FS_RemoveElement
  <2>2. before(c) \in SUBSET (S \ {c})
    BY DEF Orders
  <2>3. IsFiniteSet(before(c)) /\ Cardinality(before(c)) <= n - 1
    <3> HIDE DEF before
    <3> QED
      BY <2>1, <2>2, FS_Subset
  <2>4. Cardinality(before(c)) \in Nat
    BY <2>3, FS_CardinalityType
  <2> QED
    BY <1>1, <2>3, <2>4
<1>3. ASSUME NEW c \in S, NEW d \in S, <<c, d>> \in order
      PROVE  place[c] < place[d]
  <2>1. before(c) \in SUBSET before(d) /\ c \in before(d) \ before(c)
    BY <1>3 DEF Orders
  <2>2. Cardinality(before(c)) <= Cardinality(before(d))
        /\ Cardinality(before(c)) # Cardinality(before(d))
    <3> HIDE DEF before
    <3> QED
      BY <1>2, <2>1, FS_Subset
  <2>3. place[c] = Cardinality(before(c)) + 1 /\ place[d] = Cardinality(before(d)) + 1
    OBVIOUS
  <2> HIDE DEF before, place
  <2> QED
    BY <1>2, <2>2, <2>3
<1>4. place \in Injection(S, 1 .. n)
  <2>1. place \in [S -> 1 .. n]
    BY <1>2
  <2>2. ASSUME NEW c \in S, NEW d \in S, place[c] = place[d] PROVE c = d
    <3>1. /\ <<c, d>> \in order => place[c] < place[d]
          /\ <<d, c>> \in order => place[d] < place[c]
      BY <1>3
    <3>2. place[c] \in Int
      BY <2>1
    <3> HIDE DEF place
    <3> QED
      BY <2>2, <3>1, <3>2 DEF Orders
  <2> HIDE DEF place
  <2> QED
    BY <2>1, <2>2 DEF Injection, IsInjective
<1>5. IsFiniteSet(1 .. n) /\ Cardinality(1 .. n) = n
  BY <1>1, FS_Interval
<1>6. place \in Surjection(S, 1 .. n)
  BY <1>4, <1>5, FS_Injection
<1> DEFINE s == [i \in 1 .. n |-> CHOOSE c \in S : place[c] = i]
<1> HIDE DEF n, place, before
<1>7. \A i \in 1 .. n : s[i] \in S /\ place[s[i]] = i
  BY <1>6 DEF Surjection
<1>8. \A c \in S : place[c] \in 1 .. n /\ s[place[c]] = c
  <2>1. ASSUME NEW c \in S PROVE place[c] \in 1 .. n
    BY <1>4 DEF Injection
  <2> QED
    BY <1>4, <1>7, <2>1 DEF Injection, IsInjective
<1>9. ToSet(s) = S
  <2>1. DOMAIN s = 1 .. n
    OBVIOUS
  <2> HIDE DEF s
  <2> QED
    BY <1>7, <1>8, <2>1 DEF ToSet
<1>10. ASSUME NEW i \in 1 .. n, NEW j \in 1 .. n, i < j PROVE <<s[i], s[j]>> \in order
  <2>1. s[i] # s[j]
    BY <1>7, <1>10
  <2>2. <<s[j], s[i]>> \in order => j < i
    <3> HIDE DEF s
    <3> QED
      BY <1>3, <1>7
  <2>3. ~(j < i)
    BY <1>1, <1>10
  <2> HIDE DEF s
  <2> QED
    BY <1>7, <2>1, <2>2, <2>3 DEF Orders
<1>11. s \in [1 .. n -> S] /\ DOMAIN s = 1 .. n
  BY <1>7
<1> HIDE DEF s
<1> QED
  BY <1>9, <1>10, <1>11 DEF n

LEMMA InOrderWorks ==
  ASSUME NEW S, IsFiniteSet(S), NEW order, Orders(S, order)
  PROVE  /\ Lists(InOrder(S, order), S)
         /\ \A i, j \in 1 .. Cardinality(S) :
              i < j => <<InOrder(S, order)[i], InOrder(S, order)[j]>> \in order
<1> DEFINE s == InOrder(S, order)
<1>1. /\ s \in [1 .. Cardinality(S) -> S]
      /\ ToSet(s) = S
      /\ \A i, j \in DOMAIN s : i < j => <<s[i], s[j]>> \in order
  BY InOrderExists DEF InOrder
<1>2. Cardinality(S) \in Nat
  BY FS_CardinalityType
<1> HIDE DEF s
<1>3. DOMAIN s = 1 .. Cardinality(S)
  BY <1>1
<1>4. IsInjective(s)
  <2> SUFFICES ASSUME NEW i \in DOMAIN s, NEW j \in DOMAIN s, s[i] = s[j]
               PROVE  i = j
    BY DEF IsInjective
  <2>1. ~(i < j) /\ ~(j < i)
    BY <1>1 DEF Orders
  <2> QED
    BY <1>2, <1>3, <2>1
<1> QED
  BY <1>1, <1>2, <1>3, <1>4 DEF Lists, s

-----------------------------------------------------------------------------
(* Fractions with natural numerators and positive denominators.            *)

LEMMA Cancel ==
  ASSUME NEW a \in Nat, NEW b \in Nat, NEW k \in Nat \ {0}
  PROVE  /\ a < b <=> k * a < k * b
         /\ a <= b <=> k * a <= k * b
  OBVIOUS

LEMMA Fractions ==
  ASSUME NEW a \in Nat, NEW c \in Nat, NEW e \in Nat,
         NEW b \in Nat \ {0}, NEW d \in Nat \ {0}, NEW f \in Nat \ {0},
         a * d >= c * b, c * f >= e * d
  PROVE  /\ a * f >= e * b
         /\ a * d > c * b \/ c * f > e * d => a * f > e * b
<1>1. /\ a * d \in Nat /\ c * b \in Nat /\ c * f \in Nat /\ e * d \in Nat
      /\ a * f \in Nat /\ e * b \in Nat
  OBVIOUS
<1>2. f * (c * b) <= f * (a * d) /\ (c * b < a * d => f * (c * b) < f * (a * d))
  BY <1>1, Cancel
<1>3. b * (e * d) <= b * (c * f) /\ (e * d < c * f => b * (e * d) < b * (c * f))
  BY <1>1, Cancel
<1>4. /\ f * (c * b) = b * (c * f)
      /\ f * (a * d) = d * (a * f)
      /\ b * (e * d) = d * (e * b)
  OBVIOUS
<1>5. /\ f * (c * b) \in Nat /\ f * (a * d) \in Nat /\ b * (e * d) \in Nat
  BY <1>1
<1>6. d * (e * b) <= d * (a * f)
      /\ (a * d > c * b \/ c * f > e * d => d * (e * b) < d * (a * f))
  BY <1>1, <1>2, <1>3, <1>4, <1>5
<1> QED
  BY <1>1, <1>6, Cancel

(* The sum of two fractions grows with each of them. *)
LEMMA Sums ==
  ASSUME NEW a \in Nat, NEW b \in Nat \ {0}, NEW c \in Nat, NEW d \in Nat \ {0},
         NEW p \in Nat, NEW q \in Nat \ {0}, NEW r \in Nat, NEW t \in Nat \ {0},
         a * q >= p * b, c * t >= r * d,
         a * q > p * b \/ c * t > r * d
  PROVE  (a * d + c * b) * (q * t) > (p * t + r * q) * (b * d)
<1>1. /\ a * q \in Nat /\ p * b \in Nat /\ c * t \in Nat /\ r * d \in Nat
      /\ d * t \in Nat \ {0} /\ b * q \in Nat \ {0}
  OBVIOUS
<1>2. /\ (d * t) * (p * b) <= (d * t) * (a * q)
      /\ p * b < a * q => (d * t) * (p * b) < (d * t) * (a * q)
  BY <1>1, Cancel
<1>3. /\ (b * q) * (r * d) <= (b * q) * (c * t)
      /\ r * d < c * t => (b * q) * (r * d) < (b * q) * (c * t)
  BY <1>1, Cancel
<1>4. /\ (d * t) * (p * b) \in Nat /\ (d * t) * (a * q) \in Nat
      /\ (b * q) * (r * d) \in Nat /\ (b * q) * (c * t) \in Nat
  BY <1>1
<1>5. (a * d + c * b) * (q * t) = (d * t) * (a * q) + (b * q) * (c * t)
  OBVIOUS
<1>6. (p * t + r * q) * (b * d) = (d * t) * (p * b) + (b * q) * (r * d)
  OBVIOUS
<1>7. (d * t) * (p * b) + (b * q) * (r * d) < (d * t) * (a * q) + (b * q) * (c * t)
  BY <1>1, <1>2, <1>3, <1>4
<1> QED
  BY <1>5, <1>6, <1>7

-----------------------------------------------------------------------------
(***************************************************************************)
(* Search: the fusion.                                                     *)
(***************************************************************************)

\* Chunks in a list without repetition.
HitList(s) ==
  \E n \in Nat : s \in [1 .. n -> Corpus] /\ IsInjective(s)

\* x is the rank of c in the list.
LEMMA RankOf ==
  ASSUME NEW s, HitList(s), NEW i \in DOMAIN s
  PROVE  /\ i \in Nat \ {0} /\ s[i] \in Corpus /\ s[i] \in ToSet(s)
         /\ (CHOOSE j \in DOMAIN s : s[j] = s[i]) = i
<1>1. PICK n \in Nat : s \in [1 .. n -> Corpus] /\ IsInjective(s)
  BY DEF HitList
<1>2. DOMAIN s = 1 .. n
  BY <1>1
<1>3. i \in Nat \ {0} /\ s[i] \in Corpus /\ s[i] \in ToSet(s)
  BY <1>1, <1>2 DEF ToSet
<1>4. \A j \in DOMAIN s : s[j] = s[i] => j = i
  BY <1>1 DEF IsInjective
<1> QED
  BY <1>3, <1>4

(* What a list gives to a chunk is a fraction. *)
LEMMA Shares ==
  ASSUME NEW s, HitList(s), NEW c
  PROVE  /\ Share(s, c)[1] \in Nat /\ Share(s, c)[2] \in Nat \ {0}
         /\ \A i \in DOMAIN s : s[i] = c => Share(s, c) = <<1, 60 + i>>
         /\ c \notin ToSet(s) => Share(s, c) = <<0, 1>>
<1>1. CASE c \notin ToSet(s)
  <2>1. Share(s, c) = <<0, 1>> /\ \A i \in DOMAIN s : s[i] # c
    BY <1>1 DEF Share, ToSet
  <2> QED
    BY <2>1
<1>2. CASE c \in ToSet(s)
  <2>1. PICK i \in DOMAIN s : s[i] = c
    BY <1>2 DEF ToSet
  <2>2. Share(s, c) = <<1, 60 + i>> /\ i \in Nat
    <3>1. (CHOOSE j \in DOMAIN s : s[j] = s[i]) = i /\ i \in Nat
      BY RankOf
    <3>2. (CHOOSE j \in DOMAIN s : s[j] = c) = i
      BY <2>1, <3>1
    <3> QED
      BY <1>2, <3>1, <3>2 DEF Share, RrfRankConstant
  <2>3. \A j \in DOMAIN s : s[j] = c => j = i
    <3>1. PICK n \in Nat : s \in [1 .. n -> Corpus] /\ IsInjective(s)
      BY DEF HitList
    <3> QED
      BY <2>1, <3>1 DEF IsInjective
  <2> QED
    BY <1>2, <2>2, <2>3
<1> QED
  BY <1>1, <1>2

\* A chunk before another in a list has no smaller share.
LEMMA AheadShares ==
  ASSUME NEW s, HitList(s), NEW c, NEW d, Ahead(s, c, d)
  PROVE  LET p == Share(s, c)
             q == Share(s, d)
         IN /\ p[1] * q[2] >= q[1] * p[2]
            /\ d \in ToSet(s) => p[1] * q[2] > q[1] * p[2] /\ c # d
<1>1. CASE d \notin ToSet(s)
  <2>1. Share(s, d) = <<0, 1>> /\ Share(s, c)[1] \in Nat /\ Share(s, c)[2] \in Nat
    BY <1>1, Shares
  <2> DEFINE x == Share(s, c)[1]
             y == Share(s, c)[2]
  <2>2. x * 1 >= 0 * y
    <3> HIDE DEF x, y
    <3>1. x \in Nat /\ y \in Nat
      BY <2>1 DEF x, y
    <3> QED
      BY <3>1
  <2> QED
    BY <1>1, <2>1, <2>2
<1>2. CASE d \in ToSet(s)
  <2>1. PICK i \in DOMAIN s, j \in DOMAIN s : s[i] = c /\ s[j] = d /\ i < j
    BY <1>2 DEF Ahead
  <2>2. Share(s, c) = <<1, 60 + i>> /\ Share(s, d) = <<1, 60 + j>>
    BY <2>1, Shares
  <2>3. i \in Nat /\ j \in Nat
    BY RankOf
  <2>4. 1 * (60 + j) > 1 * (60 + i)
    BY <2>1, <2>3
  <2>5. c # d
    <3>1. PICK n \in Nat : s \in [1 .. n -> Corpus] /\ IsInjective(s)
      BY DEF HitList
    <3>2. i # j
      BY <2>1, <2>3
    <3> QED
      BY <2>1, <3>1, <3>2 DEF IsInjective
  <2>6. /\ Share(s, c)[1] * Share(s, d)[2] = 1 * (60 + j)
        /\ Share(s, d)[1] * Share(s, c)[2] = 1 * (60 + i)
    BY <2>2
  <2> QED
    BY <2>3, <2>4, <2>5, <2>6
<1> QED
  BY <1>1, <1>2

LEMMA Scores ==
  ASSUME HitList(keyword), HitList(nearest), NEW c
  PROVE  Score(c)[1] \in Nat /\ Score(c)[2] \in Nat \ {0}
<1> DEFINE k == Share(keyword, c)
           v == Share(nearest, c)
<1>1. /\ k[1] \in Nat /\ k[2] \in Nat \ {0}
      /\ v[1] \in Nat /\ v[2] \in Nat \ {0}
  BY Shares
<1>2. Score(c) = <<k[1] * v[2] + v[1] * k[2], k[2] * v[2]>>
  BY DEF Score
<1>3. ASSUME NEW a \in Nat, NEW b \in Nat \ {0}, NEW x \in Nat, NEW y \in Nat \ {0}
      PROVE  a * y + x * b \in Nat /\ b * y \in Nat \ {0}
  OBVIOUS
<1> HIDE DEF k, v
<1> QED
  BY <1>1, <1>2, <1>3

(* The scores order the chunks. *)
LEMMA BetterOrders ==
  ASSUME HitList(keyword), HitList(nearest), NEW S \in SUBSET Corpus
  PROVE  Orders(S, {p \in S \X S : Better(p[1], p[2])})
<1> DEFINE order == {p \in S \X S : Better(p[1], p[2])}
           N(c) == Score(c)[1]
           D(c) == Score(c)[2]
<1>1. \A c, d \in S : <<c, d>> \in order <=> Better(c, d)
  OBVIOUS
<1>2. \A c \in S : c \in Nat
  BY SearchAssumption
<1>3. \A c : N(c) \in Nat /\ D(c) \in Nat \ {0}
  BY Scores
<1>4. \A c, d : Better(c, d) <=> \/ N(c) * D(d) > N(d) * D(c)
                                 \/ N(c) * D(d) = N(d) * D(c) /\ c < d
  BY DEF Better
<1> HIDE DEF order, N, D
<1>5. \A c, d : N(c) * D(d) \in Nat
  BY <1>3
<1>6. \A c \in S : ~Better(c, c)
  BY <1>2, <1>4, <1>5
<1>7. \A c, d \in S : c # d => Better(c, d) \/ Better(d, c)
  <2> SUFFICES ASSUME NEW c \in S, NEW d \in S, c # d
               PROVE  Better(c, d) \/ Better(d, c)
    OBVIOUS
  <2> DEFINE x == N(c) * D(d)
             y == N(d) * D(c)
  <2>1. x \in Nat /\ y \in Nat /\ c \in Nat /\ d \in Nat
    BY <1>2, <1>5
  <2>2. /\ x > y \/ (x = y /\ c < d) => Better(c, d)
        /\ y > x \/ (y = x /\ d < c) => Better(d, c)
    BY <1>4
  <2> HIDE DEF x, y
  <2> QED
    BY <2>1, <2>2
<1>8. ASSUME NEW c \in S, NEW d \in S, NEW e \in S, Better(c, d), Better(d, e)
      PROVE  Better(c, e)
  <2>1. /\ N(c) * D(d) >= N(d) * D(c) /\ N(d) * D(e) >= N(e) * D(d)
        /\ N(c) * D(d) = N(d) * D(c) => c < d
        /\ N(d) * D(e) = N(e) * D(d) => d < e
    BY <1>4, <1>5, <1>8
  <2>2. /\ N(c) * D(e) >= N(e) * D(c)
        /\ N(c) * D(d) > N(d) * D(c) \/ N(d) * D(e) > N(e) * D(d) =>
             N(c) * D(e) > N(e) * D(c)
    BY <1>3, <2>1, Fractions
  <2> DEFINE x == N(c) * D(e)
             y == N(e) * D(c)
             t == N(c) * D(d)
             u == N(d) * D(c)
             v == N(d) * D(e)
             w == N(e) * D(d)
  <2>3. /\ x \in Nat /\ y \in Nat /\ t \in Nat /\ u \in Nat /\ v \in Nat /\ w \in Nat
        /\ c \in Nat /\ d \in Nat /\ e \in Nat
    BY <1>2, <1>5
  <2>4. /\ t >= u /\ v >= w /\ (t = u => c < d) /\ (v = w => d < e)
        /\ x >= y /\ (t > u \/ v > w => x > y)
    BY <2>1, <2>2
  <2>5. x > y \/ (x = y /\ c < e) => Better(c, e)
    BY <1>4
  <2> HIDE DEF x, y, t, u, v, w
  <2> QED
    BY <2>3, <2>4, <2>5
<1> QED
  BY <1>1, <1>6, <1>7, <1>8 DEF Orders, order

(* What both engines put before another has the better score. *)
LEMMA AheadIsBetter ==
  ASSUME HitList(keyword), HitList(nearest), NEW c, NEW d \in Found,
         Ahead(keyword, c, d), Ahead(nearest, c, d)
  PROVE  Better(c, d) /\ c # d
<1> DEFINE a == Share(keyword, c)
           b == Share(nearest, c)
           p == Share(keyword, d)
           q == Share(nearest, d)
<1>1. /\ a[1] \in Nat /\ a[2] \in Nat \ {0} /\ b[1] \in Nat /\ b[2] \in Nat \ {0}
      /\ p[1] \in Nat /\ p[2] \in Nat \ {0} /\ q[1] \in Nat /\ q[2] \in Nat \ {0}
  BY Shares
<1>2. d \in ToSet(keyword) \/ d \in ToSet(nearest)
  BY DEF Found
<1>3. /\ a[1] * p[2] >= p[1] * a[2] /\ b[1] * q[2] >= q[1] * b[2]
      /\ a[1] * p[2] > p[1] * a[2] \/ b[1] * q[2] > q[1] * b[2]
      /\ c # d
  BY <1>2, AheadShares
<1>4. Score(c) = <<a[1] * b[2] + b[1] * a[2], a[2] * b[2]>>
      /\ Score(d) = <<p[1] * q[2] + q[1] * p[2], p[2] * q[2]>>
  BY DEF Score
<1> HIDE DEF a, b, p, q
<1>5. (a[1] * b[2] + b[1] * a[2]) * (p[2] * q[2]) > (p[1] * q[2] + q[1] * p[2]) * (a[2] * b[2])
  BY <1>1, <1>3, Sums
<1> QED
  BY <1>3, <1>4, <1>5 DEF Better

-----------------------------------------------------------------------------
(***************************************************************************)
(* Search: the second ranking.                                             *)
(***************************************************************************)

LEMMA ListOf ==
  ASSUME NEW T, NEW m \in Nat, NEW s \in [1 .. m -> T]
  PROVE  s \in Seq(T) /\ Len(s) = m /\ DOMAIN s = 1 .. m
  OBVIOUS

LEMMA FirstOfList ==
  ASSUME NEW T, NEW s \in Seq(T), NEW n \in Nat
  PROVE  /\ Smaller(n, Len(s)) \in Nat
         /\ FirstOf(n, s) \in Seq(T)
         /\ Len(FirstOf(n, s)) = Smaller(n, Len(s))
         /\ \A i \in 1 .. Smaller(n, Len(s)) : FirstOf(n, s)[i] = s[i]
<1> DEFINE k == Smaller(n, Len(s))
<1>1. k \in Nat /\ k <= Len(s)
  BY DEF Smaller
<1>2. FirstOf(n, s) = SubSeq(s, 1, k)
  BY DEF FirstOf
<1> HIDE DEF k
<1>3. \A i \in 1 .. k : s[i] \in T
  BY <1>1
<1>4. SubSeq(s, 1, k) = [i \in 1 .. k |-> s[i]]
  BY <1>1
<1>5. SubSeq(s, 1, k) \in Seq(T) /\ Len(SubSeq(s, 1, k)) = k
  BY <1>1, <1>3, SubSeqProperties
<1> QED
  BY <1>1, <1>2, <1>4, <1>5 DEF k

\* A permutation of the first n numbers.
Permutes(ranking, n) ==
  /\ ranking \in [1 .. n -> 1 .. n]
  /\ ToSet(ranking) = 1 .. n
  /\ IsInjective(ranking)

(* Whatever the model answers, a ranking that is used is a permutation. *)
LEMMA Rankings ==
  ASSUME NEW answer \in Outputs, NEW n \in Nat,
         NEW ranking \in {ApiRanking(answer, n), LocalRanking(answer, n)},
         ranking # NoRanking
  PROVE  Permutes(ranking, n)
<1>1. Len(answer) \in Nat /\ answer \in [1 .. Len(answer) -> Int]
  BY SearchAssumption
<1>2. IsFiniteSet(1 .. n) /\ Cardinality(1 .. n) = n
  BY FS_Interval
<1>3. CASE ranking = ApiRanking(answer, n)
  <2>1. ranking = answer /\ Len(answer) = n /\ ToSet(answer) = 1 .. n
    BY <1>3 DEF ApiRanking
  <2>2. DOMAIN ranking = 1 .. n /\ ranking \in [1 .. n -> Int]
    BY <1>1, <2>1
  <2>3. \A i \in 1 .. n : ranking[i] \in 1 .. n
    BY <2>1, <2>2 DEF ToSet
  <2>4. ranking \in [1 .. n -> 1 .. n]
    BY <2>2, <2>3
  <2>5. \A k \in 1 .. n : \E i \in 1 .. n : ranking[i] = k
    BY <2>1, <2>2 DEF ToSet
  <2>6. ranking \in Surjection(1 .. n, 1 .. n)
    BY <2>4, <2>5 DEF Surjection
  <2>7. ranking \in Injection(1 .. n, 1 .. n)
    BY <1>2, <2>6, FS_Surjection
  <2> QED
    BY <2>1, <2>4, <2>7 DEF Permutes, Injection, IsInjective
<1>4. CASE ranking = LocalRanking(answer, n)
  <2> DEFINE order == {p \in (1 .. n) \X (1 .. n) :
                         \/ answer[p[1]] > answer[p[2]]
                         \/ answer[p[1]] = answer[p[2]] /\ p[1] < p[2]}
  <2>1. Len(answer) = n /\ ranking = InOrder(1 .. n, order)
    BY <1>4 DEF LocalRanking
  <2>2. \A i \in 1 .. n : answer[i] \in Int
    BY <1>1, <2>1
  <2>3. \A i, j \in 1 .. n : <<i, j>> \in order <=>
          answer[i] > answer[j] \/ (answer[i] = answer[j] /\ i < j)
    OBVIOUS
  <2>4. \A i \in 1 .. n : i \in Int
    OBVIOUS
  <2> HIDE DEF order
  <2>5. Orders(1 .. n, order)
    <3>1. \A i \in 1 .. n : <<i, i>> \notin order
      BY <2>2, <2>3, <2>4
    <3>2. \A i, j \in 1 .. n : i # j => <<i, j>> \in order \/ <<j, i>> \in order
      BY <2>2, <2>3, <2>4
    <3>3. \A i, j, k \in 1 .. n :
            <<i, j>> \in order /\ <<j, k>> \in order => <<i, k>> \in order
      BY <2>2, <2>3, <2>4
    <3> QED
      BY <3>1, <3>2, <3>3 DEF Orders
  <2>6. Lists(ranking, 1 .. n)
    BY <1>2, <2>1, <2>5, InOrderWorks
  <2> QED
    BY <1>2, <2>6 DEF Lists, Permutes
<1> QED
  BY <1>3, <1>4

(* The ranked candidates and the rest, place by place. *)
LEMMA Reranked ==
  ASSUME NEW T, NEW candidates \in Seq(T),
         NEW topK \in Nat \ {0}, NEW n \in Nat, n <= Len(candidates),
         NEW ranking, Permutes(ranking, n)
  PROVE  /\ Rerank(candidates, topK, ranking) \in Seq(T)
         /\ Len(Rerank(candidates, topK, ranking)) = Smaller(topK, Len(candidates))
         /\ \A i \in 1 .. Smaller(topK, Len(candidates)) :
              Rerank(candidates, topK, ranking)[i] =
                IF i <= n THEN candidates[ranking[i]] ELSE candidates[i]
<1> DEFINE m == Len(candidates)
           ranked == [i \in DOMAIN ranking |-> candidates[ranking[i]]]
           w == Smaller(topK, m)
           head == FirstOf(topK, ranked)
           rest == SubSeq(candidates, n + 1, w)
<1>0. m \in Nat /\ candidates \in [1 .. m -> T] /\ n <= m
  OBVIOUS
<1> HIDE DEF m
<1>1. ranking \in [1 .. n -> 1 .. n] /\ Len(ranking) = n
  BY DEF Permutes
<1>2. ranked \in [1 .. n -> T] /\ \A i \in 1 .. n : ranked[i] = candidates[ranking[i]]
  <2>1. DOMAIN ranking = 1 .. n /\ \A i \in 1 .. n : ranking[i] \in 1 .. m
    BY <1>0, <1>1
  <2> QED
    BY <1>0, <2>1
<1>3. w \in Nat /\ w <= m /\ Len(candidates) = m /\ candidates \in Seq(T)
  BY <1>0 DEF Smaller, m
<1>4. Rerank(candidates, topK, ranking) = head \o rest
  BY <1>1, <1>3 DEF Rerank
<1> HIDE DEF ranked
<1>5. /\ head \in Seq(T) /\ Len(head) = Smaller(topK, n)
      /\ \A i \in 1 .. Smaller(topK, n) : head[i] = ranked[i]
  <2>1. topK \in Nat
    OBVIOUS
  <2>2. ranked \in Seq(T) /\ Len(ranked) = n
    BY <1>2, ListOf
  <2> QED
    BY <2>1, <2>2, FirstOfList
<1> DEFINE h == Smaller(topK, n)
<1>6. /\ h \in Nat /\ h <= w /\ h <= n
      /\ w <= n => h = w
      /\ w > n => h = n
  BY <1>0 DEF Smaller
<1> HIDE DEF h, w, head, rest
<1>7. Len(rest) = w - h /\ rest \in Seq(T)
      /\ \A i \in 1 .. w - h : rest[i] = candidates[n + i]
  <2>1. CASE w <= n
    <3>1. rest = << >> /\ w - h = 0
      BY <1>3, <1>6, <2>1 DEF rest
    <3> QED
      BY <3>1
  <2>2. CASE w > n
    <3>1. /\ Len(rest) = w - n /\ rest \in Seq(T)
          /\ \A i \in 1 .. w - n : rest[i] = candidates[n + i]
      BY <1>3, <2>2 DEF rest
    <3> QED
      BY <1>6, <2>2, <3>1
  <2> QED
    BY <1>3, <1>6, <2>1, <2>2
<1>8. head \in Seq(T) /\ Len(head) = h
  BY <1>5, <1>6 DEF h
<1>9. /\ head \o rest \in Seq(T) /\ Len(head \o rest) = w
      /\ \A i \in 1 .. h : (head \o rest)[i] = head[i]
      /\ \A i \in h + 1 .. w : (head \o rest)[i] = rest[i - h]
  <2>1. head \o rest \in Seq(T) /\ Len(head \o rest) = Len(head) + Len(rest)
    BY <1>7, <1>8, ConcatProperties
  <2>2. h + (w - h) = w
    BY <1>3, <1>6
  <2>3. \A i \in 1 .. Len(head) + Len(rest) :
          (head \o rest)[i] = IF i <= Len(head) THEN head[i] ELSE rest[i - Len(head)]
    BY <1>7, <1>8, ConcatProperties
  <2>4. \A i \in 1 .. w : (head \o rest)[i] = IF i <= h THEN head[i] ELSE rest[i - h]
    BY <1>7, <1>8, <2>2, <2>3
  <2>5. /\ \A i \in 1 .. h : i \in 1 .. w /\ i <= h
        /\ \A i \in h + 1 .. w : i \in 1 .. w /\ ~(i <= h)
    BY <1>3, <1>6
  <2> QED
    BY <1>7, <1>8, <2>1, <2>2, <2>4, <2>5
<1>10. ASSUME NEW i \in 1 .. w
       PROVE  (head \o rest)[i] = IF i <= n THEN candidates[ranking[i]] ELSE candidates[i]
  <2>1. CASE i <= h
    <3>1. i \in 1 .. h /\ i \in 1 .. n /\ i <= n
      BY <1>3, <1>6, <2>1
    <3>2. (head \o rest)[i] = ranked[i]
      BY <1>5, <1>9, <3>1 DEF h
    <3> QED
      BY <1>2, <3>1, <3>2
  <2>2. CASE i > h
    <3>1. h = n /\ i > n /\ i - h \in 1 .. w - h /\ i \in h + 1 .. w /\ n + (i - h) = i
      BY <1>3, <1>6, <2>2
    <3>2. (head \o rest)[i] = candidates[i]
      BY <1>7, <1>9, <3>1
    <3> QED
      BY <3>1, <3>2
  <2>3. i <= h \/ i > h
    BY <1>3, <1>6
  <2> QED
    BY <2>1, <2>2, <2>3
<1> QED
  BY <1>4, <1>9, <1>10 DEF w, m

-----------------------------------------------------------------------------
(***************************************************************************)
(* Search: the machine.                                                    *)
(***************************************************************************)

Fusion == InOrder(Found, {p \in Found \X Found : Better(p[1], p[2])})

\* The first part of RankingIsWhole, of any list, and the second.
Whole(list) ==
  /\ Len(list) = Smaller(query.topK, Cardinality(Found))
  /\ IsInjective(list)
  /\ ToSet(list) \subseteq ToSet(fused)
  /\ \A i \in Shown + 1 .. Len(list) : list[i] = fused[i]
  /\ Shown <= query.topK => ToSet(list) = ToSet(FirstOf(query.topK, fused))

Respected ==
  /\ ToSet(fused) \subseteq Found
  /\ \A c \in Found, j \in DOMAIN fused :
       Ahead(keyword, c, fused[j]) /\ Ahead(nearest, c, fused[j]) =>
         \E i \in DOMAIN fused : fused[i] = c /\ i < j

SearchTyping ==
  /\ query \in Queries
  /\ settings \in Settings
  /\ HitList(keyword)
  /\ HitList(nearest)

SearchInv ==
  /\ SearchTyping
  /\ stage = "rank" =>
       fused = FirstOf(Larger(query.topK, settings.rerank), Fusion)
  /\ RankingIsWhole

LEMMA Asked ==
  ASSUME SearchTyping
  PROVE  /\ query.topK \in Nat \ {0}
         /\ settings.rerank \in Nat
         /\ CandidateCount \in Nat
<1>1. /\ query.topK \in Nat \ {0} /\ settings.multiplier \in Nat \ {0}
      /\ settings.max \in Nat \ {0} /\ settings.rerank \in Nat
  BY SearchAssumption DEF SearchTyping
<1>2. query.topK * settings.multiplier \in Nat
  BY <1>1
<1> QED
  BY <1>1, <1>2 DEF CandidateCount, Smaller

LEMMA HitsAreLists ==
  ASSUME SearchTyping, NEW store \in SUBSET Corpus, NEW s \in Hits(store)
  PROVE  HitList(s)
<1>1. PICK n \in 0 .. CandidateCount :
        s \in [1 .. n -> {c \in store : InScope(c)}] /\ IsInjective(s)
  BY DEF Hits
<1>2. n \in Nat
  BY Asked
<1>3. s \in [1 .. n -> Corpus]
  BY <1>1
<1> QED
  BY <1>1, <1>2, <1>3 DEF HitList

(* The fusion is a list of what was found, best first. *)
LEMMA FusionOrdered ==
  ASSUME SearchTyping
  PROVE  /\ Found \subseteq Nat
         /\ Lists(Fusion, Found)
         /\ \A i, j \in 1 .. Cardinality(Found) : i < j => Better(Fusion[i], Fusion[j])
<1> DEFINE order == {p \in Found \X Found : Better(p[1], p[2])}
<1>1. \A s : HitList(s) => ToSet(s) \subseteq Corpus
  BY DEF HitList, ToSet
<1>2. Found \subseteq Corpus
  BY <1>1 DEF Found, SearchTyping
<1>3. IsFiniteSet(Found)
  BY <1>2, SearchAssumption, FS_Subset
<1>4. Orders(Found, order)
  BY <1>2, BetterOrders DEF SearchTyping
<1>5. Fusion = InOrder(Found, order)
  BY DEF Fusion
<1>6. \A c, d : <<c, d>> \in order => Better(c, d)
  OBVIOUS
<1> HIDE DEF order
<1>7. /\ Lists(Fusion, Found)
      /\ \A i, j \in 1 .. Cardinality(Found) : i < j => <<Fusion[i], Fusion[j]>> \in order
  BY <1>3, <1>4, <1>5, InOrderWorks
<1> QED
  BY <1>2, <1>6, <1>7, SearchAssumption

(* One of two chunks is the better one. *)
LEMMA BetterOne ==
  ASSUME SearchTyping, NEW c \in Found, NEW d \in Found, Better(c, d)
  PROVE  ~Better(d, c)
<1>1. Found \subseteq Corpus
  BY DEF Found, SearchTyping, HitList, ToSet
<1>2. Orders(Found, {p \in Found \X Found : Better(p[1], p[2])})
  BY <1>1, BetterOrders DEF SearchTyping
<1> QED
  BY <1>2 DEF Orders

(* What the fusion gives. *)
LEMMA FusedIs ==
  ASSUME SearchTyping,
         fused = FirstOf(Larger(query.topK, settings.rerank), Fusion)
  PROVE  /\ Cardinality(Found) \in Nat
         /\ Len(fused) = Smaller(Larger(query.topK, settings.rerank), Cardinality(Found))
         /\ Len(fused) \in Nat
         /\ fused \in [1 .. Len(fused) -> Found]
         /\ IsInjective(fused)
         /\ Respected
<1> DEFINE n == Cardinality(Found)
           k == Larger(query.topK, settings.rerank)
<1>1. /\ n \in Nat /\ Fusion \in [1 .. n -> Found] /\ ToSet(Fusion) = Found
      /\ IsInjective(Fusion)
      /\ \A i, j \in 1 .. n : i < j => Better(Fusion[i], Fusion[j])
  BY FusionOrdered DEF Lists
<1>2. k \in Nat
  BY Asked DEF Larger
<1> HIDE DEF n, k
<1>3. Fusion \in Seq(Found) /\ Len(Fusion) = n
  BY <1>1, ListOf
<1>4. /\ fused \in Seq(Found) /\ Len(fused) = Smaller(k, n)
      /\ \A i \in 1 .. Smaller(k, n) : fused[i] = Fusion[i]
  BY <1>2, <1>3, FirstOfList DEF k
<1> DEFINE m == Smaller(k, n)
<1>5. m \in Nat /\ m <= n
  BY <1>1, <1>2 DEF Smaller
<1> HIDE DEF m
<1>6. DOMAIN fused = 1 .. m /\ \A i \in 1 .. m : i \in 1 .. n /\ fused[i] = Fusion[i]
  BY <1>1, <1>4, <1>5 DEF m
<1>7. IsInjective(fused)
  BY <1>1, <1>6 DEF IsInjective
<1>8. ToSet(fused) \subseteq Found
  BY <1>1, <1>6 DEF ToSet
<1>9. ASSUME NEW c \in Found, NEW j \in 1 .. m,
             Ahead(keyword, c, fused[j]), Ahead(nearest, c, fused[j])
      PROVE  \E i \in 1 .. m : fused[i] = c /\ i < j
  <2>1. fused[j] \in Found /\ fused[j] = Fusion[j] /\ j \in 1 .. n
    BY <1>1, <1>6
  <2>2. Better(c, fused[j]) /\ c # fused[j]
    BY <1>9, <2>1, AheadIsBetter DEF SearchTyping
  <2>3. PICK i \in 1 .. n : Fusion[i] = c
    BY <1>1 DEF ToSet
  <2>4. ~Better(fused[j], c)
    BY <2>1, <2>2, BetterOne
  <2>5. ~(j < i) /\ i # j
    BY <1>1, <2>1, <2>2, <2>3, <2>4
  <2>6. i < j /\ i \in 1 .. m
    BY <1>1, <1>5, <2>5
  <2> QED
    BY <1>6, <2>3, <2>6
<1>10. Respected
  BY <1>6, <1>8, <1>9 DEF Respected
<1> QED
  BY <1>1, <1>4, <1>5, <1>6, <1>7, <1>10 DEF n, k, m

(* What is reordered stays whole. *)
LEMMA Placed ==
  ASSUME NEW T, NEW s \in Seq(T), IsInjective(s),
         NEW list \in Seq(T), Len(list) <= Len(s),
         NEW n \in Nat, n <= Len(s),
         NEW ranking, Permutes(ranking, n),
         \A i \in 1 .. Len(list) : list[i] = IF i <= n THEN s[ranking[i]] ELSE s[i]
  PROVE  /\ IsInjective(list)
         /\ ToSet(list) \subseteq ToSet(s)
         /\ n <= Len(list) => ToSet(list) = {s[i] : i \in 1 .. Len(list)}
<1> DEFINE m == Len(s)
           w == Len(list)
           place == [i \in 1 .. w |-> IF i <= n THEN ranking[i] ELSE i]
<1>0. m \in Nat /\ w \in Nat /\ w <= m /\ n <= m
  OBVIOUS
<1>5. DOMAIN list = 1 .. w /\ DOMAIN s = 1 .. m
  OBVIOUS
<1>1. /\ \A i \in 1 .. n : ranking[i] \in 1 .. n
      /\ \A i, j \in 1 .. n : ranking[i] = ranking[j] => i = j
      /\ \A k \in 1 .. n : \E i \in 1 .. n : ranking[i] = k
  BY DEF Permutes, IsInjective, ToSet
<1>2. \A i \in 1 .. w : list[i] = s[place[i]]
  OBVIOUS
<1> HIDE DEF m, w
<1>3. ASSUME NEW i \in 1 .. w
      PROVE  /\ place[i] \in 1 .. m
             /\ i <= n => place[i] = ranking[i] /\ place[i] \in 1 .. n
             /\ ~(i <= n) => place[i] = i
  <2>1. CASE i <= n
    <3>1. i \in 1 .. n
      BY <2>1
    <3>2. ranking[i] \in 1 .. n /\ place[i] = ranking[i]
      BY <1>1, <2>1, <3>1
    <3> HIDE DEF place
    <3> QED
      BY <1>0, <2>1, <3>2
  <2>2. CASE ~(i <= n)
    BY <1>0, <2>2
  <2> QED
    BY <2>1, <2>2
<1> HIDE DEF place
<1>4. ASSUME NEW i \in 1 .. w, NEW j \in 1 .. w, place[i] = place[j]
      PROVE  i = j
  <2>1. CASE i <= n /\ j <= n
    <3>1. i \in 1 .. n /\ j \in 1 .. n
      BY <1>0, <2>1
    <3> QED
      BY <1>1, <1>3, <1>4, <2>1, <3>1
  <2>2. CASE ~(i <= n /\ j <= n)
    BY <1>0, <1>3, <1>4, <2>2
  <2> QED
    BY <2>1, <2>2
<1>6. IsInjective(list)
  <2> SUFFICES ASSUME NEW i \in 1 .. w, NEW j \in 1 .. w, list[i] = list[j]
               PROVE  i = j
    BY <1>5 DEF IsInjective
  <2>1. place[i] = place[j]
    BY <1>2, <1>3, <1>5 DEF IsInjective
  <2> QED
    BY <1>4, <2>1
<1>7. ToSet(list) \subseteq ToSet(s)
  BY <1>2, <1>3, <1>5 DEF ToSet
<1>8. ASSUME n <= w PROVE ToSet(list) = {s[i] : i \in 1 .. w}
  <2>1. \A i \in 1 .. w : place[i] \in 1 .. w
    BY <1>0, <1>3, <1>8
  <2>2. \A k \in 1 .. w : \E i \in 1 .. w : place[i] = k
    <3> SUFFICES ASSUME NEW k \in 1 .. w PROVE \E i \in 1 .. w : place[i] = k
      OBVIOUS
    <3>1. CASE k <= n
      <4>1. k \in 1 .. n
        BY <1>0, <3>1
      <4>2. PICK i \in 1 .. n : ranking[i] = k
        BY <1>1, <4>1
      <4>3. i \in 1 .. w /\ i <= n
        BY <1>0, <1>8
      <4> QED
        BY <1>3, <4>2, <4>3
    <3>2. CASE ~(k <= n)
      BY <1>3, <3>2
    <3> QED
      BY <3>1, <3>2
  <2>3. ToSet(list) = {list[i] : i \in 1 .. w}
    BY <1>5 DEF ToSet
  <2>4. \A i \in 1 .. w : \E k \in 1 .. w : list[i] = s[k]
    BY <1>2, <2>1
  <2>5. \A k \in 1 .. w : \E i \in 1 .. w : s[k] = list[i]
    BY <1>2, <2>2
  <2> SUFFICES ASSUME NEW x PROVE x \in ToSet(list) <=> x \in {s[i] : i \in 1 .. w}
    OBVIOUS
  <2>6. x \in ToSet(list) <=> \E i \in 1 .. w : x = list[i]
    BY <2>3
  <2>7. ASSUME x \in ToSet(list) PROVE x \in {s[i] : i \in 1 .. w}
    BY <2>4, <2>6, <2>7
  <2>8. ASSUME NEW k \in 1 .. w, x = s[k] PROVE x \in ToSet(list)
    BY <2>5, <2>6, <2>8
  <2> QED
    BY <2>7, <2>8
<1> QED
  BY <1>6, <1>7, <1>8 DEF w

(* Both ways to end a search give the whole list. *)
LEMMA ResultIsWhole ==
  ASSUME SearchTyping,
         fused = FirstOf(Larger(query.topK, settings.rerank), Fusion),
         NEW answer \in Outputs,
         NEW ranking \in {ApiRanking(answer, Shown), LocalRanking(answer, Shown)},
         NEW list,
         list = IF fused = <<>> \/ ranking = NoRanking
                THEN FirstOf(query.topK, fused)
                ELSE Rerank(fused, query.topK, ranking)
  PROVE  Whole(list) /\ list # Failed
<1> DEFINE m == Len(fused)
           topK == query.topK
           n == Shown
           w == Smaller(topK, m)
<1>1. /\ topK \in Nat \ {0} /\ settings.rerank \in Nat
  BY Asked
<1>2. /\ m \in Nat /\ fused \in [1 .. m -> Found] /\ IsInjective(fused)
      /\ m = Smaller(Larger(topK, settings.rerank), Cardinality(Found))
      /\ Cardinality(Found) \in Nat
  BY FusedIs
<1>3. n = Smaller(settings.rerank, m)
  BY DEF Shown
<1> HIDE DEF m, topK, n
<1>4. n \in Nat /\ n <= m
  BY <1>1, <1>2, <1>3 DEF Smaller
<1>5. w = Smaller(topK, Cardinality(Found))
  BY <1>1, <1>2 DEF Smaller, Larger
<1>6. w \in Nat /\ w <= m /\ w <= topK /\ (n <= topK => n <= w)
  BY <1>1, <1>2, <1>4 DEF Smaller
<1>7. /\ FirstOf(topK, fused) \in Seq(Found) /\ Len(FirstOf(topK, fused)) = w
      /\ \A i \in 1 .. w : FirstOf(topK, fused)[i] = fused[i]
  <2>1. fused \in Seq(Found) /\ topK \in Nat
    BY <1>1, <1>2, ListOf
  <2> QED
    BY <2>1, FirstOfList DEF m
<1> HIDE DEF w
<1>8. /\ DOMAIN FirstOf(topK, fused) = 1 .. w
      /\ ToSet(FirstOf(topK, fused)) = {fused[i] : i \in 1 .. w}
  BY <1>6, <1>7 DEF ToSet
<1>9. /\ list \in [1 .. w -> Found] /\ Len(list) = w
      /\ IsInjective(list)
      /\ ToSet(list) \subseteq ToSet(fused)
      /\ \A i \in n + 1 .. w : list[i] = fused[i]
      /\ n <= w => ToSet(list) = {fused[i] : i \in 1 .. w}
  <2>1. CASE fused = <<>> \/ ranking = NoRanking
    <3>1. list = FirstOf(topK, fused)
      BY <2>1 DEF topK
    <3>2. DOMAIN list = 1 .. w /\ list \in [1 .. w -> Found]
      BY <1>6, <1>7, <3>1
    <3>3. \A i \in 1 .. w : list[i] = fused[i] /\ i \in 1 .. m
      BY <1>2, <1>6, <1>7, <3>1
    <3>4. IsInjective(list)
      <4> SUFFICES ASSUME NEW i \in 1 .. w, NEW j \in 1 .. w, list[i] = list[j]
                   PROVE  i = j
        BY <3>2 DEF IsInjective
      <4>1. /\ i \in DOMAIN fused /\ j \in DOMAIN fused
            /\ fused[i] = fused[j]
        BY <1>2, <3>3
      <4> QED
        BY <1>2, <4>1 DEF IsInjective
    <3>5. ToSet(list) \subseteq ToSet(fused)
      BY <1>2, <3>2, <3>3 DEF ToSet
    <3>6. \A i \in n + 1 .. w : i \in 1 .. w
      BY <1>4, <1>6
    <3> QED
      BY <1>7, <1>8, <3>1, <3>2, <3>3, <3>4, <3>5, <3>6
  <2>2. CASE ~(fused = <<>> \/ ranking = NoRanking)
    <3>1. list = Rerank(fused, topK, ranking)
      BY <2>2 DEF topK
    <3>2. Permutes(ranking, n)
      BY <1>4, <2>2, Rankings DEF n
    <3>3. fused \in Seq(Found) /\ Len(fused) = m
      BY <1>2, ListOf DEF m
    <3>4. /\ list \in Seq(Found) /\ Len(list) = w
          /\ \A i \in 1 .. w : list[i] = IF i <= n THEN fused[ranking[i]] ELSE fused[i]
      BY <1>1, <1>4, <3>1, <3>2, <3>3, Reranked DEF w
    <3>5. /\ IsInjective(list)
          /\ ToSet(list) \subseteq ToSet(fused)
          /\ n <= w => ToSet(list) = {fused[i] : i \in 1 .. w}
      <4>1. Len(list) <= Len(fused) /\ n <= Len(fused)
        BY <1>4, <1>6, <3>3, <3>4
      <4>2. \A i \in 1 .. Len(list) : list[i] = IF i <= n THEN fused[ranking[i]] ELSE fused[i]
        BY <3>4
      <4>3. /\ IsInjective(list)
            /\ ToSet(list) \subseteq ToSet(fused)
            /\ n <= Len(list) => ToSet(list) = {fused[i] : i \in 1 .. Len(list)}
        BY ONLY Placed, <1>2, <1>4, <3>2, <3>3, <3>4, <4>1, <4>2
      <4> QED
        BY <3>4, <4>3
    <3>6. list \in [1 .. w -> Found]
      BY <3>4
    <3>7. \A i \in n + 1 .. w : i \in 1 .. w /\ ~(i <= n)
      BY <1>4, <1>6
    <3> QED
      BY <3>4, <3>5, <3>6, <3>7
  <2> QED
    BY <2>1, <2>2
<1>10. list # Failed
  <2> SUFFICES ASSUME list = <<-1>> PROVE FALSE
    BY DEF Failed
  <2>1. w = 1 /\ list[1] = -1
    <3>1. Len(<<-1>>) = 1 /\ <<-1>>[1] = -1
      OBVIOUS
    <3>2. Len(list) = w
      BY <1>9
    <3> QED
      BY <3>1, <3>2
  <2>2. list[1] \in Nat
    BY <1>9, <2>1, FusionOrdered
  <2> QED
    BY <2>1, <2>2
<1> QED
  BY <1>5, <1>6, <1>8, <1>9, <1>10 DEF Whole, topK, n

-----------------------------------------------------------------------------
LEMMA SearchStarts ==
  ASSUME SearchInit
  PROVE  SearchInv
<1>1. HitList(<<>>)
  <2>1. <<>> \in [1 .. 0 -> Corpus]
    OBVIOUS
  <2>2. IsInjective(<<>>)
    BY DEF IsInjective
  <2> QED
    BY <2>1, <2>2 DEF HitList
<1> QED
  BY <1>1 DEF SearchInit, SearchInv, SearchTyping, RankingIsWhole

\* The stores hold chunks.
StoresTyped == documents \subseteq Corpus /\ vectors \subseteq Corpus

LEMMA SearchSteps ==
  ASSUME SearchInv, StoresTyped, [SearchNext]_searchVars
  PROVE  SearchInv' /\ StoresTyped'
<1> USE DEF stores, asked
<1>1. CASE StoresChange
  <2>1. /\ stage \in {"keyword", "vector", "load"}
        /\ UNCHANGED <<query, settings, stage, keyword, nearest, fused, results>>
    BY <1>1 DEF StoresChange
  <2>2. StoresTyped'
    BY <1>1, SearchAssumption DEF StoresChange, StoresTyped
  <2> QED
    BY <2>1, <2>2 DEF SearchInv, SearchTyping, RankingIsWhole
<1>2. CASE ReadKeywords
  <2>1. HitList(keyword')
    BY <1>2, HitsAreLists DEF ReadKeywords, StoresTyped, SearchInv
  <2> QED
    BY <1>2, <2>1 DEF ReadKeywords, SearchInv, SearchTyping, StoresTyped, RankingIsWhole
<1>3. CASE ReadVectors
  <2>1. HitList(nearest')
    BY <1>3, HitsAreLists DEF ReadVectors, StoresTyped, SearchInv
  <2> QED
    BY <1>3, <2>1 DEF ReadVectors, SearchInv, SearchTyping, StoresTyped, RankingIsWhole
<1>4. CASE LoadVectors
  <2>1. UNCHANGED <<documents, vectors, query, settings, keyword, nearest, fused>>
    BY <1>4 DEF LoadVectors
  <2>2. stage' = "fuse" \/ (/\ stage' = "done" /\ results' = Failed
                            /\ ~(ToSet(nearest) \subseteq documents))
    BY <1>4 DEF LoadVectors
  <2>3. RankingIsWhole'
    BY <2>1, <2>2 DEF RankingIsWhole
  <2> QED
    BY <2>1, <2>2, <2>3 DEF SearchInv, SearchTyping, StoresTyped
<1>5. CASE FuseResults
  <2>1. /\ UNCHANGED <<documents, vectors, query, settings, keyword, nearest, results>>
        /\ stage' = "rank"
        /\ fused' = FirstOf(Larger(query.topK, settings.rerank), Fusion)
    BY <1>5 DEF FuseResults, Fusion
  <2>2. Fusion' = Fusion
    BY <2>1 DEF Fusion, Found, Better, Score
  <2>3. RankingIsWhole'
    BY <2>1 DEF RankingIsWhole
  <2> QED
    BY <2>1, <2>2, <2>3 DEF SearchInv, SearchTyping, StoresTyped
<1>6. CASE RankResults
  <2>1. /\ UNCHANGED <<documents, vectors, query, settings, keyword, nearest, fused>>
        /\ stage = "rank" /\ stage' = "done"
    BY <1>6 DEF RankResults
  <2>2. SearchTyping /\ fused = FirstOf(Larger(query.topK, settings.rerank), Fusion)
    BY <2>1 DEF SearchInv
  <2>3. Whole(results') /\ results' # Failed
    BY <1>6, <2>2, ResultIsWhole DEF RankResults
  <2>4. Respected
    BY <2>2, FusedIs
  <2>5. RankingIsWhole'
    BY <2>1, <2>3, <2>4 DEF RankingIsWhole, Whole, Respected, Found, Shown
  <2> QED
    BY <2>1, <2>2, <2>5 DEF SearchInv, SearchTyping, StoresTyped
<1>7. CASE UNCHANGED searchVars
  <2>1. Fusion' = Fusion
    BY <1>7 DEF searchVars, Fusion, Found, Better, Score
  <2>2. RankingIsWhole' = RankingIsWhole
    BY <1>7 DEF searchVars, RankingIsWhole, Found, Shown
  <2> QED
    BY <1>7, <2>1, <2>2 DEF searchVars, SearchInv, SearchTyping, StoresTyped
<1> QED
  BY <1>1, <1>2, <1>3, <1>4, <1>5, <1>6, <1>7 DEF SearchNext

(* A search gives each chunk found once, as many as are asked for, and     *)
(* what the second model answers only moves the chunks it was shown; only  *)
(* a vector without its document fails it.  Indexing may change the stores *)
(* between any two readings.                                               *)
THEOREM WholeRanking == SearchSpec => []RankingIsWhole
<1>1. SearchInit => SearchInv /\ StoresTyped
  BY SearchStarts DEF SearchInit, StoresTyped
<1>2. (SearchInv /\ StoresTyped) /\ [SearchNext]_searchVars => (SearchInv /\ StoresTyped)'
  BY SearchSteps
<1>3. SearchInv => RankingIsWhole
  BY DEF SearchInv
<1> QED
  BY <1>1, <1>2, <1>3, PTL DEF SearchSpec
===============================================================================
