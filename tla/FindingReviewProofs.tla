------------------------ MODULE FindingReviewProofs ------------------------
(***************************************************************************)
(* Proofs about the reviews and the report, for any candidates, routes and *)
(* needs, and for any number of records and continuations.  ReviewInv is   *)
(* the inductive invariant: it follows what a reviewer was given from the  *)
(* packet of its job to its review, across the continuations of a task.    *)
(* That each candidate is in one finding is a statement about a fold over  *)
(* the ledger; it is shown by induction over sets of candidates, from a    *)
(* smallest counterexample.                                                *)
(***************************************************************************)
EXTENDS FindingReview, FiniteSetTheorems, TLAPS

Inputs == [of : Candidates, status : Outcome \union {"absent", "open"}, opinions : Nat,
           detail : Nat, given : SUBSET Evidence]

\* The reviews that decided; they cite only what the reviewer was given.
Decided ==
  {r \in [input : Inputs, outcome : Outcome, cites : SUBSET Evidence, error : {FALSE},
          reused : BOOLEAN] : r.cites \subseteq r.input.given}

Broken == [outcome |-> "inconclusive", cites |-> {}, error |-> TRUE, reused |-> FALSE]

Ledgers == [status   : [Candidates -> Outcome \union {"absent", "open"}],
            opinions : [Candidates -> Nat],
            detail   : [Candidates -> Nat],
            refs     : [Candidates -> SUBSET Evidence],
            evidence : SUBSET Evidence]

Backed(l) == \A c \in Candidates : Own(c) \in l.evidence /\ l.refs[c] \subseteq l.evidence

Types ==
  /\ mode \in {"alone", "team", "paths"}
  /\ task \in 1 .. MaxTasks /\ records \in 0 .. MaxRecords
  /\ status \in {"running", "stopped", "failed", "needs_review"}
  /\ place \in {"investigate", "save", "validate", "over"}
  /\ ledger \in Ledgers /\ saved \in Ledgers
  /\ previous \subseteq Decided \union {Broken}
  /\ job \in [Candidates -> JobState]
  /\ tries \in [Candidates -> 0 .. 1]
  /\ packet \in [Candidates -> SUBSET Evidence]
  /\ result \in [Candidates -> Decided \union {Broken, NoReview}]
  /\ reviews \in [Candidates -> Decided \union {Broken, NoReview}]

\* The review decided about the candidate as the ledger has it, on the evidence it
\* was given; one that was taken over had all of it in the ledger.
About(r, c) ==
  /\ r.input = Input(ledger, c, r.input.given)
  /\ r.reused => r.input.given \subseteq ledger.evidence

\* Where a candidate's review stands.
Stands(c) ==
  /\ job[c] \in {"start", "ask", "ended"} => place = "validate"
  /\ job[c] # "none" => place \in {"validate", "over"} /\ ledger.status[c] = "supported"
  /\ job[c] = "ended" => /\ result[c] # NoReview
                         /\ result[c] \in Decided =>
                              About(result[c], c) /\ result[c].input.given = packet[c]
  /\ job[c] = "done" => reviews[c] # NoReview
  /\ reviews[c] # NoReview => place \in {"validate", "over"} /\ ledger.status[c] = "supported"
  /\ reviews[c] \in Decided =>
       /\ About(reviews[c], c)
       /\ mode # "alone" => reviews[c].cites \subseteq ledger.evidence

\* The report is there when the validation has ended, and only then.
Reported ==
  /\ status # "needs_review" => report = NoReport
  /\ place # "over" => status = "running"

ReviewInv ==
  /\ Types
  /\ Backed(ledger) /\ Backed(saved)
  /\ \A c \in Candidates : Stands(c)
  /\ Reported
  /\ FindingsAreReviewed
  /\ NoCandidateLost

-----------------------------------------------------------------------------

-----------------------------------------------------------------------------
(* Every non-empty set of finite sets has one without any of its proper subsets. *)
LEMMA SmallestSet ==
  ASSUME NEW S, IsFiniteSet(S), NEW T \in SUBSET SUBSET S, T # {}
  PROVE  \E s \in T : \A u \in T : u \subseteq s => u = s
<1>1. IsWellFoundedOn(StrictSubsetOrdering(S), FiniteSubsetsOf(S))
  BY FS_StrictSubsetOrderingWellFounded
<1>2. T \subseteq FiniteSubsetsOf(S)
  BY FS_Subset DEF FiniteSubsetsOf
<1>3. \E x \in T : \A y \in T : ~ (<<y, x>> \in StrictSubsetOrdering(S))
  BY <1>1, <1>2, WFMin
<1> QED
  BY <1>3 DEF StrictSubsetOrdering

(* A non-empty set of natural numbers has a least element. *)
LEMMA LeastNumber ==
  ASSUME NEW T \in SUBSET Nat, T # {}
  PROVE  \E i \in T : \A k \in T : i <= k
<1>1. PICK n \in T : TRUE
  OBVIOUS
<1> DEFINE U == {0 .. k : k \in {j \in T : j <= n}}
<1>2. U \in SUBSET SUBSET (0 .. n) /\ U # {}
  <2>1. 0 .. n \in U
    BY <1>1
  <2>2. \A k \in T : k <= n => 0 .. k \subseteq 0 .. n
    BY <1>1
  <2> QED
    BY <2>1, <2>2
<1>3. PICK s \in U : \A u \in U : u \subseteq s => u = s
  <2> DEFINE S == 0 .. n
  <2>1. IsFiniteSet(S) /\ U \in SUBSET SUBSET S /\ U # {}
    BY <1>1, <1>2, FS_Interval
  <2> HIDE DEF U, S
  <2>2. \E s \in U : \A u \in U : u \subseteq s => u = s
    BY <2>1, SmallestSet
  <2> QED
    BY <2>2
<1>4. PICK i \in T : i <= n /\ s = 0 .. i
  BY <1>3
<1>5. ASSUME NEW k \in T, ~(i <= k) PROVE FALSE
  <2>1. k \in Nat /\ i \in Nat /\ k < i /\ k <= n
    BY <1>1, <1>4, <1>5
  <2>2. 0 .. k \in U /\ 0 .. k \subseteq s
    BY <1>4, <1>5, <2>1
  <2>3. 0 .. k = 0 .. i
    BY <1>3, <1>4, <2>2
  <2> QED
    BY <2>1, <2>3
<1> QED
  BY <1>5

(* The candidates are finitely many, and every non-empty set of them has a last one. *)
LEMMA LastCandidate ==
  /\ IsFiniteSet(Candidates)
  /\ \A s \in SUBSET Candidates : s # {} => Max(s) \in s
<1>1. MaxCandidates \in Nat
  BY ReviewAssumption
<1>2. IsFiniteSet(Candidates)
  BY <1>1, FS_Interval DEF Candidates
<1>3. ASSUME NEW s \in SUBSET Candidates, s # {} PROVE Max(s) \in s
  <2> DEFINE T == {k \in Nat : MaxCandidates - k \in s}
  <2>1. PICK c \in s : TRUE
    BY <1>3
  <2>2. c \in 1 .. MaxCandidates
    BY <1>3 DEF Candidates
  <2>3. MaxCandidates - c \in T
    <3>1. MaxCandidates - (MaxCandidates - c) = c /\ MaxCandidates - c \in Nat
      BY <1>1, <2>2
    <3> QED
      BY <2>1, <3>1
  <2>4. PICK i \in T : \A k \in T : i <= k
    BY <2>3, LeastNumber
  <2> DEFINE m == MaxCandidates - i
  <2>5. m \in s
    BY <2>4
  <2>6. ASSUME NEW y \in s PROVE m >= y
    <3>1. y \in 1 .. MaxCandidates
      BY <1>3 DEF Candidates
    <3>2. MaxCandidates - (MaxCandidates - y) = y /\ MaxCandidates - y \in Nat
      BY <1>1, <3>1
    <3>3. i <= MaxCandidates - y
      BY <2>4, <3>2
    <3> QED
      BY <1>1, <3>1, <3>3
  <2> HIDE DEF m, T
  <2> QED
    BY <2>5, <2>6 DEF Max
<1> QED
  BY <1>2, <1>3

(* The list of findings is computed by a function of the sets of candidates. *)
Step(g, s) ==
  AddFinding(g[s \ {Max(s)}], [c \in Candidates |-> c][Max(s)])

IsFold(g, S) == g = [s \in SUBSET S |-> IF s = {} THEN <<>> ELSE Step(g, s)]

(* That is how FoldLeft is defined. *)
LEMMA FoldUnfolds ==
  Findings = (CHOOSE g : IsFold(g, DOMAIN [c \in Candidates |-> c]))[DOMAIN [c \in Candidates |-> c]]
  BY DEF Findings, FoldLeft, MapThenFoldSet, IsFold, Step

(* Two such functions agree on the sets of candidates that they share. *)
LEMMA FoldUnique ==
  ASSUME NEW S \in SUBSET Candidates, NEW U, NEW g, NEW h,
         IsFold(g, S), IsFold(h, U), S \subseteq U
  PROVE  \A s \in SUBSET S : g[s] = h[s]
<1> DEFINE T == {s \in SUBSET S : g[s] # h[s]}
<1>1. SUFFICES ASSUME T # {} PROVE FALSE
  OBVIOUS
<1>2. PICK s \in T : \A u \in T : u \subseteq s => u = s
  <2>1. T \in SUBSET SUBSET S /\ IsFiniteSet(S)
    BY LastCandidate, FS_Subset
  <2> HIDE DEF T
  <2> QED
    BY <1>1, <2>1, SmallestSet
<1>3. s \in SUBSET S /\ s \in SUBSET U /\ g[s] # h[s]
  BY <1>2
<1>4. /\ g[s] = IF s = {} THEN <<>> ELSE Step(g, s)
      /\ h[s] = IF s = {} THEN <<>> ELSE Step(h, s)
  BY <1>3 DEF IsFold
<1>5. s # {}
  BY <1>3, <1>4
<1>6. Max(s) \in s
  BY <1>5, LastCandidate
<1>7. g[s \ {Max(s)}] = h[s \ {Max(s)}]
  BY <1>2, <1>3, <1>6
<1>8. Step(g, s) = Step(h, s)
  BY <1>7 DEF Step
<1> QED
  BY <1>3, <1>4, <1>8

(* There is such a function for every set of candidates. *)
LEMMA FoldExists ==
  ASSUME NEW S \in SUBSET Candidates
  PROVE  \E g : IsFold(g, S)
<1> DEFINE T == {s \in SUBSET S : ~ \E g : IsFold(g, s)}
<1>1. SUFFICES ASSUME T # {} PROVE FALSE
  OBVIOUS
<1>2. PICK s \in T : \A u \in T : u \subseteq s => u = s
  <2>1. T \in SUBSET SUBSET S /\ IsFiniteSet(S)
    BY LastCandidate, FS_Subset
  <2> HIDE DEF T
  <2> QED
    BY <1>1, <2>1, SmallestSet
<1> DEFINE H(u) == CHOOSE g : IsFold(g, u)
           V(u) == IF u = {} THEN <<>> ELSE Step(H(u \ {Max(u)}), u)
           G == [u \in SUBSET s |-> V(u)]
<1>3. s \in SUBSET S /\ s \in SUBSET Candidates /\ ~ \E g : IsFold(g, s)
  BY <1>2
<1>4. \A u \in SUBSET s : u # s => IsFold(H(u), u)
  BY <1>2, <1>3
<1>5. ASSUME NEW u \in SUBSET s, u # s
      PROVE  H(u)[u] = V(u)
  <2>1. IsFold(H(u), u)
    BY <1>4, <1>5
  <2>2. H(u)[u] = IF u = {} THEN <<>> ELSE Step(H(u), u)
    <3> HIDE DEF H
    <3> QED
      BY <2>1 DEF IsFold
  <2>3. CASE u = {}
    BY <2>2, <2>3
  <2>4. CASE u # {}
    <3> DEFINE v == u \ {Max(u)}
    <3>1. v \in SUBSET s /\ v # s /\ v \subseteq u /\ v \in SUBSET Candidates
      BY <1>3, <1>5, <2>4, LastCandidate
    <3>2. IsFold(H(v), v)
      BY <1>4, <3>1
    <3>3. H(v)[v] = H(u)[v]
      <4> HIDE DEF H, v
      <4> QED
        BY <2>1, <3>1, <3>2, FoldUnique
    <3>4. Step(H(v), u) = Step(H(u), u)
      <4> HIDE DEF H
      <4> QED
        BY <3>3 DEF Step
    <3> HIDE DEF H
    <3> QED
      BY <2>2, <2>4, <3>4
  <2> QED
    BY <2>3, <2>4
<1>6. ASSUME NEW u \in SUBSET s
      PROVE  G[u] = IF u = {} THEN <<>> ELSE Step(G, u)
  <2>1. CASE u = {}
    BY <2>1
  <2>2. CASE u # {}
    <3> DEFINE v == u \ {Max(u)}
    <3>1. v \in SUBSET s /\ v # s
      BY <1>3, <2>2, LastCandidate
    <3>2. H(v)[v] = V(v)
      <4> HIDE DEF H, V, v
      <4> QED
        BY <1>5, <3>1
    <3>3. G[v] = V(v)
      <4> HIDE DEF V, v
      <4> QED
        BY <3>1
    <3>4. G[u] = Step(H(v), u)
      <4>1. G[u] = V(u)
        <5> HIDE DEF V
        <5> QED
          OBVIOUS
      <4>2. V(u) = Step(H(v), u)
        BY <2>2
      <4> QED
        BY <4>1, <4>2
    <3>5. Step(H(v), u) = Step(G, u)
      <4> HIDE DEF G, H, V
      <4> QED
        BY <3>2, <3>3 DEF Step
    <3> HIDE DEF G, H, V
    <3> QED
      BY <2>2, <3>4, <3>5
  <2> QED
    BY <2>1, <2>2
<1>7. IsFold(G, s)
  <2>1. G = [u \in SUBSET s |-> G[u]]
    <3> HIDE DEF V
    <3> QED
      OBVIOUS
  <2> HIDE DEF G
  <2> QED
    BY <1>6, <2>1 DEF IsFold
<1> QED
  BY <1>3, <1>7

(* What the loop does for each set of candidates: nothing for none, and for others *)
(* it takes the last one last.                                                     *)
LEMMA Folding ==
  \E g : /\ Findings = g[Candidates]
         /\ g[{}] = <<>>
         /\ \A s \in SUBSET Candidates :
              s # {} => Max(s) \in s /\ g[s] = AddFinding(g[s \ {Max(s)}], Max(s))
<1> DEFINE g == CHOOSE g : IsFold(g, Candidates)
<1>1. DOMAIN [c \in Candidates |-> c] = Candidates
  OBVIOUS
<1>2. Findings = g[Candidates]
  BY <1>1, FoldUnfolds
<1>3. IsFold(g, Candidates)
  BY FoldExists
<1> HIDE DEF g
<1>4. g[{}] = <<>>
  BY <1>3 DEF IsFold
<1>5. ASSUME NEW s \in SUBSET Candidates, s # {}
      PROVE  Max(s) \in s /\ g[s] = AddFinding(g[s \ {Max(s)}], Max(s))
  <2>1. Max(s) \in s /\ [c \in Candidates |-> c][Max(s)] = Max(s)
    BY <1>5, LastCandidate
  <2>2. g[s] = Step(g, s)
    BY <1>3, <1>5 DEF IsFold
  <2> QED
    BY <2>1, <2>2 DEF Step
<1> QED
  BY <1>2, <1>4, <1>5

\* What one entry of the report can hold.
Entries == [candidates : SUBSET Candidates, routes : SUBSET UNION {Routes[c] : c \in Candidates},
            place : {Place[c] : c \in Candidates}]

Within(fs) == UNION {fs[i].candidates : i \in DOMAIN fs}

Apart(fs) ==
  \A i, k \in DOMAIN fs : i # k => fs[i].candidates \intersect fs[k].candidates = {}

(* A candidate that is not in the list yet gets into one finding. *)
LEMMA Merging ==
  ASSUME NEW fs \in Seq(Entries), NEW c \in Candidates, Apart(fs), c \notin Within(fs)
  PROVE  /\ Merge(fs, Finding(c)) \in Seq(Entries)
         /\ Within(Merge(fs, Finding(c))) = Within(fs) \union {c}
         /\ Apart(Merge(fs, Finding(c)))
<1> DEFINE f == Finding(c)
           same == {i \in DOMAIN fs : SameFinding(fs[i], f)}
<1>1. f \in Entries /\ f.candidates = {c}
  BY DEF Finding, Entries
<1>2. CASE same = {}
  <2>1. Merge(fs, f) = Append(fs, f)
    BY <1>2 DEF Merge
  <2> DEFINE new == Append(fs, f)
  <2>2. /\ new \in Seq(Entries) /\ Len(new) = Len(fs) + 1 /\ Len(fs) \in Nat
        /\ DOMAIN new = 1 .. (Len(fs) + 1) /\ DOMAIN fs = 1 .. Len(fs)
        /\ \A i \in DOMAIN fs : new[i] = fs[i]
        /\ new[Len(fs) + 1] = f
    BY <1>1
  <2> HIDE DEF new, f, same
  <2>3. \A i \in DOMAIN new : i \in DOMAIN fs \/ new[i].candidates = {c}
    BY <1>1, <2>2
  <2>4. Within(new) = Within(fs) \union {c}
    BY <1>1, <2>2, <2>3 DEF Within
  <2>5. Apart(new)
    <3> SUFFICES ASSUME NEW i \in DOMAIN new, NEW k \in DOMAIN new, i # k
                 PROVE  new[i].candidates \intersect new[k].candidates = {}
      BY DEF Apart
    <3>1. \A j \in DOMAIN fs : c \notin new[j].candidates
      BY <2>2 DEF Within
    <3>2. i \in DOMAIN fs \/ k \in DOMAIN fs
      BY <2>2
    <3> QED
      BY <2>2, <2>3, <3>1, <3>2 DEF Apart
  <2> QED
    BY <2>1, <2>2, <2>4, <2>5 DEF new, f
<1>3. CASE same # {}
  <2> DEFINE i == CHOOSE i \in same : \A k \in same : i <= k
             new == [fs EXCEPT ![i].candidates = @ \union f.candidates,
                               ![i].routes = @ \union f.routes]
  <2>1. Merge(fs, f) = new
    BY <1>3 DEF Merge
  <2>2. i \in DOMAIN fs
    <3>1. same \in SUBSET Nat
      OBVIOUS
    <3>2. i \in same
      <4> HIDE DEF same
      <4> QED
        BY <1>3, <3>1, LeastNumber
    <3> QED
      BY <3>2
  <2> HIDE DEF i, same
  <2>3. /\ DOMAIN new = DOMAIN fs
        /\ \A k \in DOMAIN fs : k # i => new[k] = fs[k]
        /\ new[i] = [fs[i] EXCEPT !.candidates = @ \union f.candidates, !.routes = @ \union f.routes]
    <3> HIDE DEF f
    <3> QED
      BY <2>2
  <2>4. fs[i] \in Entries
    BY <2>2
  <2>5. new[i] \in Entries /\ new[i].candidates = fs[i].candidates \union {c}
    <3> HIDE DEF new, f
    <3> QED
      BY <1>1, <2>3, <2>4 DEF Entries
  <2>6. new \in Seq(Entries)
    <3>1. Len(fs) \in Nat /\ DOMAIN fs = 1 .. Len(fs) /\ \A k \in 1 .. Len(fs) : fs[k] \in Entries
      OBVIOUS
    <3>2. new = [k \in DOMAIN fs |-> new[k]]
      OBVIOUS
    <3> HIDE DEF new
    <3>3. \A k \in 1 .. Len(fs) : new[k] \in Entries
      BY <2>2, <2>3, <2>5, <3>1
    <3>4. new = [k \in 1 .. Len(fs) |-> new[k]]
      BY <3>1, <3>2
    <3> QED
      BY <3>1, <3>3, <3>4
  <2> HIDE DEF new, f
  <2>7. /\ \A k \in DOMAIN fs : k # i => new[k].candidates = fs[k].candidates
        /\ new[i].candidates = fs[i].candidates \union {c}
        /\ DOMAIN new = DOMAIN fs
    BY <2>3, <2>5
  <2>8. Within(new) = Within(fs) \union {c}
    <3>1. ASSUME NEW x \in Within(new) PROVE x \in Within(fs) \union {c}
      BY <2>2, <2>7, <3>1 DEF Within
    <3>2. ASSUME NEW x \in Within(fs) PROVE x \in Within(new)
      <4>1. PICK k \in DOMAIN fs : x \in fs[k].candidates
        BY <3>2 DEF Within
      <4>2. x \in new[k].candidates
        BY <2>7, <4>1
      <4> QED
        BY <2>7, <4>1, <4>2 DEF Within
    <3>3. c \in Within(new)
      BY <2>2, <2>7 DEF Within
    <3> QED
      BY <3>1, <3>2, <3>3
  <2>9. Apart(new)
    <3> SUFFICES ASSUME NEW j \in DOMAIN fs, NEW k \in DOMAIN fs, j # k
                 PROVE  new[j].candidates \intersect new[k].candidates = {}
      BY <2>7 DEF Apart
    <3>1. c \notin fs[j].candidates /\ c \notin fs[k].candidates
      BY DEF Within
    <3>2. fs[j].candidates \intersect fs[k].candidates = {}
      BY DEF Apart
    <3> QED
      BY <2>7, <3>1, <3>2
  <2> QED
    BY <2>1, <2>6, <2>8, <2>9 DEF f
<1> QED
  BY <1>2, <1>3

(* The report names each promoted candidate, no other, and each in one finding. *)
LEMMA PromotedOnce ==
  Findings \in Seq(Entries) /\ Within(Findings) = Promoted /\ Apart(Findings)
<1>1. PICK g : /\ Findings = g[Candidates]
               /\ g[{}] = <<>>
               /\ \A s \in SUBSET Candidates :
                    s # {} => Max(s) \in s /\ g[s] = AddFinding(g[s \ {Max(s)}], Max(s))
  BY Folding
<1> DEFINE Good(s) == g[s] \in Seq(Entries) /\ Within(g[s]) = s \intersect Promoted /\ Apart(g[s])
           T == {s \in SUBSET Candidates : ~Good(s)}
<1>2. T = {}
  <2>1. SUFFICES ASSUME T # {} PROVE FALSE
    OBVIOUS
  <2>2. PICK s \in T : \A u \in T : u \subseteq s => u = s
    <3>1. T \in SUBSET SUBSET Candidates /\ IsFiniteSet(Candidates)
      BY LastCandidate
    <3> HIDE DEF T
    <3> QED
      BY <2>1, <3>1, SmallestSet
  <2>3. s \in SUBSET Candidates /\ ~Good(s)
    BY <2>2
  <2>4. s # {}
    <3>1. /\ <<>> \in Seq(Entries)
          /\ Within(<<>>) = {} \intersect Promoted /\ Apart(<<>>)
      BY DEF Within, Apart
    <3>2. Good({})
      BY <1>1, <3>1
    <3> QED
      BY <2>3, <3>2
  <2> DEFINE c == Max(s)
             fs == g[s \ {c}]
  <2>5. c \in s /\ c \in Candidates /\ g[s] = AddFinding(fs, c)
    BY <1>1, <2>3, <2>4
  <2>6. Good(s \ {c})
    BY <2>2, <2>3, <2>5
  <2>7. fs \in Seq(Entries) /\ Within(fs) = (s \ {c}) \intersect Promoted /\ Apart(fs)
    BY <2>6
  <2> HIDE DEF c, fs
  <2>8. CASE c \in Promoted
    <3>1. g[s] = Merge(fs, Finding(c))
      BY <2>5, <2>8 DEF AddFinding
    <3>2. /\ g[s] \in Seq(Entries) /\ Apart(g[s])
          /\ Within(g[s]) = ((s \ {c}) \intersect Promoted) \union {c}
      BY <2>5, <2>7, <3>1, Merging
    <3>3. ((s \ {c}) \intersect Promoted) \union {c} = s \intersect Promoted
      BY <2>5, <2>8
    <3> QED
      BY <2>3, <3>2, <3>3
  <2>9. CASE c \notin Promoted
    <3>1. g[s] = fs
      BY <2>5, <2>9 DEF AddFinding
    <3>2. (s \ {c}) \intersect Promoted = s \intersect Promoted
      BY <2>9
    <3> QED
      BY <2>3, <2>7, <3>1, <3>2
  <2> QED
    BY <2>8, <2>9
<1>3. Good(Candidates)
  BY <1>2
<1>4. Candidates \intersect Promoted = Promoted
  BY DEF Promoted
<1> QED
  BY <1>1, <1>3, <1>4

-----------------------------------------------------------------------------
(* A candidate's own evidence is evidence, and so is what its reviewer may need. *)
LEMMA EvidenceTyping ==
  /\ \A c \in Candidates : Own(c) \in Evidence /\ Needs[c] \subseteq Evidence
  /\ Extra \subseteq Evidence
  /\ NoReview \notin Decided \union {Broken}
  /\ \A c \in Candidates : FailedReview(c) = Broken
  /\ Broken.error = TRUE /\ Broken.cites = {} /\ Broken.outcome # "none"
  /\ \A r \in Decided : r.error = FALSE /\ r.outcome \in Outcome /\ r.outcome # "none"
  /\ Broken \notin Decided
<1>1. \A c \in Candidates : Own(c) \in Evidence /\ Needs[c] \subseteq Evidence
  BY ReviewAssumption DEF Evidence
<1>2. Extra \subseteq Evidence
  BY DEF Evidence
<1>3. \A r \in Decided : r.error = FALSE /\ r.outcome \in Outcome /\ r.outcome # "none"
  BY DEF Decided, Outcome
<1>4. Broken.error = TRUE /\ Broken.cites = {} /\ Broken.outcome # "none" /\ NoReview.outcome = "none"
  BY DEF Broken, NoReview
<1>5. \A c \in Candidates : FailedReview(c) = Broken
  BY DEF FailedReview, Broken
<1> QED
  BY <1>1, <1>2, <1>3, <1>4, <1>5

(* The identity of a review's input is one of the inputs. *)
LEMMA InputTyping ==
  ASSUME NEW l \in Ledgers, NEW c \in Candidates, NEW given \in SUBSET Evidence
  PROVE  /\ Input(l, c, given) \in Inputs /\ Input(l, c, given).given = given
         /\ Input(l, c, given).detail = l.detail[c]
  BY DEF Input, Inputs, Ledgers

(* A ledger to which evidence is added says nothing else about a candidate. *)
LEMMA EvidenceOnly ==
  ASSUME NEW l \in Ledgers, NEW e \in SUBSET Evidence, Backed(l), l.evidence \subseteq e
  PROVE  /\ [l EXCEPT !.evidence = e] \in Ledgers
         /\ [l EXCEPT !.evidence = e].evidence = e
         /\ [l EXCEPT !.evidence = e].status = l.status
         /\ [l EXCEPT !.evidence = e].detail = l.detail
         /\ [l EXCEPT !.evidence = e].refs = l.refs
         /\ \A c, given : Input([l EXCEPT !.evidence = e], c, given) = Input(l, c, given)
         /\ Backed([l EXCEPT !.evidence = e])
<1> DEFINE m == [l EXCEPT !.evidence = e]
<1>1. /\ m \in Ledgers /\ m.evidence = e /\ m.status = l.status /\ m.opinions = l.opinions
      /\ m.detail = l.detail /\ m.refs = l.refs
  BY DEF Ledgers
<1> HIDE DEF m
<1>2. \A c, given : Input(m, c, given) = Input(l, c, given)
  BY <1>1 DEF Input
<1>3. Backed(m)
  BY <1>1 DEF Backed
<1> QED
  BY <1>1, <1>2, <1>3 DEF m

-----------------------------------------------------------------------------
(* Without a report there is nothing to say about one. *)
LEMMA NotReported ==
  ASSUME report' = NoReport, status' # "needs_review"
  PROVE  FindingsAreReviewed' /\ NoCandidateLost'
<1>1. DOMAIN report'.findings = {}
  BY DEF NoReport
<1>2. FindingsAreReviewed'
  BY <1>1 DEF FindingsAreReviewed
<1>3. NoCandidateLost'
  BY DEF NoCandidateLost
<1> QED
  BY <1>2, <1>3

(* A task starts with an empty ledger, and nothing is reviewed. *)
LEMMA Starting == Init => ReviewInv
<1> SUFFICES ASSUME Init PROVE ReviewInv
  OBVIOUS
<1>1. /\ mode \in {"alone", "team", "paths"}
      /\ task = 1 /\ status = "running" /\ place = "investigate"
      /\ ledger = EmptyLedger /\ saved = EmptyLedger
      /\ records = 0 /\ previous = {} /\ report = NoReport
      /\ job = [c \in Candidates |-> "none"]
      /\ tries = [c \in Candidates |-> 0]
      /\ packet = [c \in Candidates |-> {}]
      /\ result = [c \in Candidates |-> NoReview]
      /\ reviews = [c \in Candidates |-> NoReview]
  BY DEF Init, NoReviewYet
<1>2. EmptyLedger \in Ledgers /\ Backed(EmptyLedger)
  <2>1. \A c \in Candidates : Own(c) \in Evidence
    BY EvidenceTyping
  <2>2. EmptyLedger.evidence \subseteq Evidence /\ \A c \in Candidates : Own(c) \in EmptyLedger.evidence
    BY <2>1 DEF EmptyLedger
  <2>3. /\ EmptyLedger.refs \in [Candidates -> SUBSET Evidence]
        /\ \A c \in Candidates : EmptyLedger.refs[c] = {Own(c)}
    BY <2>1 DEF EmptyLedger
  <2> HIDE DEF Evidence
  <2>4. EmptyLedger \in Ledgers
    BY <2>2, <2>3 DEF EmptyLedger, Ledgers
  <2> QED
    BY <2>2, <2>3, <2>4 DEF Backed
<1>3. Types
  BY <1>1, <1>2, ReviewAssumption DEF Types, JobState
<1>4. \A c \in Candidates : Stands(c)
  BY <1>1, EvidenceTyping DEF Stands
<1>5. Reported
  BY <1>1 DEF Reported
<1>6. FindingsAreReviewed
  <2>1. DOMAIN report.findings = {}
    BY <1>1 DEF NoReport
  <2> QED
    BY <2>1 DEF FindingsAreReviewed
<1>7. NoCandidateLost
  BY <1>1 DEF NoCandidateLost
<1> QED
  BY <1>1, <1>2, <1>3, <1>4, <1>5, <1>6, <1>7 DEF ReviewInv

(* During the investigation no candidate is in review. *)
LEMMA NothingInReview ==
  ASSUME ReviewInv, place \in {"investigate", "save"}
  PROVE  /\ \A c \in Candidates : job[c] = "none" /\ reviews[c] = NoReview
         /\ status = "running" /\ report = NoReport
<1>1. \A c \in Candidates : Stands(c) /\ job[c] \in JobState
  BY DEF ReviewInv, Types
<1>2. Reported
  BY DEF ReviewInv
<1> QED
  BY <1>1, <1>2 DEF Stands, Reported, JobState

(* A recorded change keeps the invariant when it keeps what the ledger is. *)
LEMMA Recording ==
  ASSUME ReviewInv, NEW new \in Ledgers, Backed(new), Record(new)
  PROVE  ReviewInv'
<1>1. /\ place = "investigate" /\ records < MaxRecords
      /\ ledger' = new /\ records' = records + 1 /\ place' = "save"
      /\ mode' = mode /\ task' = task /\ status' = status /\ saved' = saved
      /\ previous' = previous /\ job' = job /\ tries' = tries /\ packet' = packet
      /\ result' = result /\ reviews' = reviews /\ report' = report
  BY DEF Record, validation
<1>2. Types /\ Backed(saved)
  BY DEF ReviewInv
<1>3. /\ \A c \in Candidates : job[c] = "none" /\ reviews[c] = NoReview
      /\ status = "running" /\ report = NoReport
  BY <1>1, NothingInReview
<1>4. Types'
  <2>1. records' \in 0 .. MaxRecords
    BY <1>1, <1>2, ReviewAssumption DEF Types
  <2> QED
    BY <1>1, <1>2, <2>1 DEF Types
<1>5. Backed(ledger)' /\ Backed(saved)'
  BY <1>1, <1>2 DEF Backed
<1>6. ASSUME NEW c \in Candidates PROVE Stands(c)'
  <2>1. job'[c] = "none" /\ reviews'[c] = NoReview
    BY <1>1, <1>3
  <2> QED
    BY <2>1, EvidenceTyping DEF Stands
<1>7. Reported'
  BY <1>1, <1>3 DEF Reported
<1>8. FindingsAreReviewed' /\ NoCandidateLost'
  BY <1>1, <1>3, NotReported
<1> QED
  BY <1>4, <1>5, <1>6, <1>7, <1>8 DEF ReviewInv

(* Every change of the investigation keeps what the ledger is. *)
LEMMA Investigating ==
  ASSUME ReviewInv, Investigate
  PROVE  ReviewInv'
<1>1. Types /\ Backed(ledger) /\ Backed(saved) /\ ledger \in Ledgers
  BY DEF ReviewInv, Types
<1>2. ASSUME NEW c \in Candidates, RecordInvestigation(c) PROVE ReviewInv'
  <2> DEFINE new == [ledger EXCEPT !.status[c] = "open"]
  <2>1. new \in Ledgers /\ new.evidence = ledger.evidence /\ new.refs = ledger.refs
    BY <1>1 DEF Ledgers
  <2>2. Record(new)
    BY <1>2 DEF RecordInvestigation
  <2> HIDE DEF new
  <2>3. Backed(new)
    BY <1>1, <2>1 DEF Backed
  <2> QED
    BY <2>1, <2>2, <2>3, Recording
<1>3. ASSUME NEW c \in Candidates, ReviewInvestigation(c) PROVE ReviewInv'
  <2>1. PICK o \in Outcome : Record([ledger EXCEPT !.status[c] = o, !.opinions[c] = @ + 1])
    BY <1>3 DEF ReviewInvestigation
  <2> DEFINE new == [ledger EXCEPT !.status[c] = o, !.opinions[c] = @ + 1]
  <2>2. new \in Ledgers /\ new.evidence = ledger.evidence /\ new.refs = ledger.refs
    <3> DEFINE mid == [ledger EXCEPT !.status[c] = o]
    <3>1. mid \in Ledgers /\ mid.evidence = ledger.evidence /\ mid.refs = ledger.refs
      BY <1>1 DEF Ledgers
    <3>2. new = [mid EXCEPT !.opinions[c] = @ + 1]
      BY <1>1 DEF Ledgers
    <3> HIDE DEF mid, new
    <3> QED
      BY <3>1, <3>2 DEF Ledgers
  <2>3. Record(new)
    BY <2>1
  <2> HIDE DEF new
  <2>4. Backed(new)
    BY <1>1, <2>2 DEF Backed
  <2> QED
    BY <2>2, <2>3, <2>4, Recording
<1>4. ASSUME NEW c \in Candidates, RecordDetail(c) PROVE ReviewInv'
  <2>1. PICK refs \in SUBSET Citable(c) :
          Record([ledger EXCEPT !.detail[c] = @ + 1, !.refs[c] = refs])
    BY <1>4 DEF RecordDetail
  <2>2. refs \subseteq ledger.evidence /\ refs \in SUBSET Evidence
    <3>1. Own(c) \in ledger.evidence /\ ledger.evidence \subseteq Evidence
      BY <1>1 DEF Backed, Ledgers
    <3> QED
      BY <2>1, <3>1 DEF Citable
  <2> DEFINE new == [ledger EXCEPT !.detail[c] = @ + 1, !.refs[c] = refs]
  <2>3. /\ new \in Ledgers /\ new.evidence = ledger.evidence
        /\ \A d \in Candidates : new.refs[d] = IF d = c THEN refs ELSE ledger.refs[d]
    <3> DEFINE mid == [ledger EXCEPT !.detail[c] = @ + 1]
    <3>1. mid \in Ledgers /\ mid.evidence = ledger.evidence /\ mid.refs = ledger.refs
      BY <1>1 DEF Ledgers
    <3>2. new = [mid EXCEPT !.refs[c] = refs]
      BY <1>1 DEF Ledgers
    <3> HIDE DEF mid, new
    <3> QED
      BY <2>2, <3>1, <3>2 DEF Ledgers
  <2>4. Record(new)
    BY <2>1
  <2> HIDE DEF new
  <2>5. Backed(new)
    BY <1>1, <2>2, <2>3 DEF Backed
  <2> QED
    BY <2>3, <2>4, <2>5, Recording
<1>5. ASSUME NEW e \in Extra, ReadEvidence(e) PROVE ReviewInv'
  <2> DEFINE ev == ledger.evidence \union {e}
             new == [ledger EXCEPT !.evidence = ev]
  <2>1. ev \in SUBSET Evidence /\ ledger.evidence \subseteq ev
    BY <1>1, EvidenceTyping DEF Ledgers
  <2>2. Record(new)
    BY <1>5 DEF ReadEvidence
  <2>3. new \in Ledgers /\ Backed(new)
    <3> HIDE DEF ev
    <3> QED
      BY <1>1, <2>1, EvidenceOnly
  <2> HIDE DEF new
  <2> QED
    BY <2>2, <2>3, Recording
<1>6. ASSUME SaveCheckpoint PROVE ReviewInv'
  <2>1. /\ place = "save" /\ saved' = ledger /\ place' = "investigate"
        /\ mode' = mode /\ task' = task /\ status' = status /\ ledger' = ledger
        /\ records' = records /\ previous' = previous /\ job' = job /\ tries' = tries
        /\ packet' = packet /\ result' = result /\ reviews' = reviews /\ report' = report
    BY <1>6 DEF SaveCheckpoint, validation
  <2>2. /\ \A c \in Candidates : job[c] = "none" /\ reviews[c] = NoReview
        /\ status = "running" /\ report = NoReport
    BY <2>1, NothingInReview
  <2>3. Types'
    BY <1>1, <2>1 DEF Types
  <2>4. Backed(ledger)' /\ Backed(saved)'
    BY <1>1, <2>1 DEF Backed
  <2>5. ASSUME NEW c \in Candidates PROVE Stands(c)'
    <3>1. job'[c] = "none" /\ reviews'[c] = NoReview
      BY <2>1, <2>2
    <3> QED
      BY <3>1, EvidenceTyping DEF Stands
  <2>6. Reported'
    BY <2>1, <2>2 DEF Reported
  <2>7. FindingsAreReviewed' /\ NoCandidateLost'
    BY <2>1, <2>2, NotReported
  <2> QED
    BY <2>3, <2>4, <2>5, <2>6, <2>7 DEF ReviewInv
<1> QED
  BY <1>2, <1>3, <1>4, <1>5, <1>6 DEF Investigate

-----------------------------------------------------------------------------
(* A ledger that only gains evidence keeps where a candidate's review stands. *)
LEMMA StandsOn ==
  ASSUME ReviewInv, NEW c \in Candidates,
         place' = place, mode' = mode,
         ledger'.status = ledger.status, ledger.evidence \subseteq ledger'.evidence,
         \A given : Input(ledger', c, given) = Input(ledger, c, given),
         job'[c] = job[c], packet'[c] = packet[c],
         result'[c] = result[c], reviews'[c] = reviews[c]
  PROVE  Stands(c)'
<1>1. Stands(c)
  BY DEF ReviewInv
<1>2. job[c] = "ended" /\ result[c] \in Decided => About(result[c], c)'
  BY <1>1 DEF Stands, About
<1>3. reviews[c] \in Decided => About(reviews[c], c)'
  BY <1>1 DEF Stands, About
<1>4. mode' # "alone" /\ reviews'[c] \in Decided => reviews'[c].cites \subseteq ledger'.evidence
  BY <1>1 DEF Stands
<1> QED
  BY <1>1, <1>2, <1>3, <1>4 DEF Stands

(* A step of the validation that leaves the report alone keeps the invariant when *)
(* it keeps where every review stands.                                            *)
LEMMA Validating ==
  ASSUME ReviewInv, place' = "validate", status = "running", report = NoReport,
         mode' = mode, task' = task, status' = status, saved' = saved,
         previous' = previous, report' = report,
         records' \in 0 .. MaxRecords,
         ledger' \in Ledgers, Backed(ledger'),
         job' \in [Candidates -> JobState],
         tries' \in [Candidates -> 0 .. 1],
         packet' \in [Candidates -> SUBSET Evidence],
         result' \in [Candidates -> Decided \union {Broken, NoReview}],
         reviews' \in [Candidates -> Decided \union {Broken, NoReview}],
         \A c \in Candidates : Stands(c)'
  PROVE  ReviewInv'
<1>1. Types /\ Backed(saved)
  BY DEF ReviewInv
<1>2. Types'
  BY <1>1 DEF Types
<1>3. Backed(ledger)' /\ Backed(saved)'
  BY <1>1 DEF Backed
<1>4. Reported'
  BY DEF Reported
<1>5. FindingsAreReviewed' /\ NoCandidateLost'
  BY NotReported
<1> QED
  BY <1>2, <1>3, <1>4, <1>5 DEF ReviewInv

(* Main submits the supported candidates, and no other. *)
LEMMA Submitting ==
  ASSUME ReviewInv, SubmitReport
  PROVE  ReviewInv'
<1>1. PICK last \in 0 .. MaxCandidates :
        LET due == {c \in 1 .. last : ledger.status[c] = "supported"}
        IN /\ job' = [c \in Candidates |->
                        IF c \in due /\ ledger.detail[c] > 0 THEN "start" ELSE "none"]
           /\ reviews' = [c \in Candidates |->
                        IF c \in due /\ ledger.detail[c] = 0 THEN FailedReview(c) ELSE NoReview]
  BY DEF SubmitReport
<1>2. /\ place = "investigate" /\ place' = "validate" /\ records' = 0
      /\ mode' = mode /\ task' = task /\ status' = status /\ ledger' = ledger
      /\ saved' = saved /\ previous' = previous /\ tries' = tries
      /\ packet' = packet /\ result' = result /\ report' = report
  BY DEF SubmitReport
<1>3. Types /\ Backed(ledger)
  BY DEF ReviewInv
<1>4. status = "running" /\ report = NoReport
  BY <1>2, NothingInReview
<1>5. /\ \A c \in Candidates : job'[c] \in {"start", "none"} /\ reviews'[c] \in {Broken, NoReview}
      /\ \A c \in Candidates :
           job'[c] = "start" \/ reviews'[c] # NoReview => ledger.status[c] = "supported"
      /\ job' \in [Candidates -> {"start", "none"}]
      /\ reviews' \in [Candidates -> {Broken, NoReview}]
  BY <1>1, EvidenceTyping
<1>6. ASSUME NEW c \in Candidates PROVE Stands(c)'
  <2>1. job'[c] \in {"start", "none"} /\ reviews'[c] \notin Decided
    BY <1>5, EvidenceTyping
  <2> QED
    BY <1>2, <1>5, <2>1 DEF Stands
<1>7. /\ job' \in [Candidates -> JobState]
      /\ reviews' \in [Candidates -> Decided \union {Broken, NoReview}]
  BY <1>5 DEF JobState
<1>8. records' \in 0 .. MaxRecords
  BY <1>2, ReviewAssumption
<1>9. ledger' \in Ledgers /\ Backed(ledger')
  BY <1>2, <1>3 DEF Types, Backed
<1> QED
  BY <1>2, <1>3, <1>4, <1>6, <1>7, <1>8, <1>9, Validating DEF Types

(* During the validation there is no report yet. *)
LEMMA InReview ==
  ASSUME ReviewInv, NEW c \in Candidates, job[c] \in {"start", "ask", "ended"}
  PROVE  /\ place = "validate" /\ status = "running" /\ report = NoReport
         /\ ledger.status[c] = "supported" /\ Stands(c)
         /\ Types /\ Backed(ledger) /\ ledger \in Ledgers
<1>1. Stands(c) /\ Reported /\ Types /\ Backed(ledger)
  BY DEF ReviewInv
<1>2. place = "validate" /\ ledger.status[c] = "supported"
  BY <1>1 DEF Stands
<1> QED
  BY <1>1, <1>2 DEF Reported, Types

(* A review that is taken over is one of the same input, on evidence that is there. *)
LEMMA TakenOver ==
  ASSUME NEW r \in Decided \union {Broken}, NEW input, SameInput(r, input)
  PROVE  /\ r \in Decided /\ r.input = input
         /\ [r EXCEPT !.reused = TRUE] \in Decided
         /\ [r EXCEPT !.reused = TRUE].input = input
         /\ [r EXCEPT !.reused = TRUE] # NoReview
<1>1. ~r.error /\ r.input = input
  BY DEF SameInput
<1>2. r \in Decided
  BY <1>1, EvidenceTyping
<1> DEFINE s == [r EXCEPT !.reused = TRUE]
<1>3. /\ s.input = r.input /\ s.outcome = r.outcome /\ s.cites = r.cites
      /\ s \in [input : Inputs, outcome : Outcome, cites : SUBSET Evidence, error : {FALSE},
                reused : BOOLEAN]
  BY <1>2 DEF Decided
<1> HIDE DEF s
<1>4. s \in Decided
  BY <1>2, <1>3 DEF Decided
<1>5. s # NoReview
  BY <1>4, EvidenceTyping
<1> QED
  BY <1>1, <1>2, <1>3, <1>4, <1>5 DEF s

(* A reviewer is given what is evidence, and a single agent's ledger keeps some of it. *)
LEMMA Gathering ==
  ASSUME ReviewInv, NEW c \in Candidates, Gather(c)
  PROVE  ReviewInv'
<1>1. PICK rows \in Prefetched(c) :
       LET given == ledger.refs[c] \union rows
           evidence == ledger.evidence \union KeptAtOnce(rows)
           same == {r \in previous : SameInput(r, Input(ledger, c, given))
                                       /\ EvidenceHolds(r, evidence)}
       IN /\ packet' = [packet EXCEPT ![c] = given]
          /\ ledger' = [ledger EXCEPT !.evidence = evidence]
          /\ IF same # {}
             THEN /\ job' = [job EXCEPT ![c] = "ended"]
                  /\ \E r \in same : result' = [result EXCEPT ![c] = [r EXCEPT !.reused = TRUE]]
             ELSE /\ job' = [job EXCEPT ![c] = "ask"]
                  /\ UNCHANGED result
  BY DEF Gather
<1>2. /\ job[c] = "start"
      /\ mode' = mode /\ task' = task /\ status' = status /\ place' = place
      /\ saved' = saved /\ records' = records /\ previous' = previous
      /\ tries' = tries /\ reviews' = reviews /\ report' = report
  BY DEF Gather
<1>3. /\ place = "validate" /\ status = "running" /\ report = NoReport
      /\ ledger.status[c] = "supported" /\ Stands(c)
      /\ Types /\ Backed(ledger) /\ ledger \in Ledgers
  BY <1>2, InReview
<1> DEFINE given == ledger.refs[c] \union rows
           evidence == ledger.evidence \union KeptAtOnce(rows)
<1>4. given \in SUBSET Evidence /\ evidence \in SUBSET Evidence /\ ledger.evidence \subseteq evidence
  <2>1. rows \subseteq Evidence
    BY EvidenceTyping DEF Prefetched
  <2>2. KeptAtOnce(rows) \subseteq Evidence
    BY <2>1 DEF KeptAtOnce
  <2> QED
    BY <1>3, <2>1, <2>2 DEF Ledgers
<1>5. /\ packet' = [packet EXCEPT ![c] = given]
      /\ ledger' = [ledger EXCEPT !.evidence = evidence]
      /\ \/ /\ job' = [job EXCEPT ![c] = "ended"]
            /\ \E r \in previous : /\ SameInput(r, Input(ledger, c, given))
                                   /\ r.input.given \subseteq evidence
                                   /\ result' = [result EXCEPT ![c] = [r EXCEPT !.reused = TRUE]]
         \/ job' = [job EXCEPT ![c] = "ask"] /\ result' = result
  BY <1>1 DEF EvidenceHolds
<1> HIDE DEF given, evidence
<1>6. /\ ledger' \in Ledgers /\ ledger'.evidence = evidence
      /\ ledger'.status = ledger.status /\ Backed(ledger')
      /\ \A d, g : Input(ledger', d, g) = Input(ledger, d, g)
  BY <1>3, <1>4, <1>5, EvidenceOnly
<1>7. packet' \in [Candidates -> SUBSET Evidence] /\ packet'[c] = given
  BY <1>3, <1>4, <1>5 DEF Types
<1>8. \A d \in Candidates : d # c => packet'[d] = packet[d] /\ job'[d] = job[d] /\ result'[d] = result[d]
  BY <1>3, <1>5 DEF Types
<1>9. /\ job' \in [Candidates -> JobState] /\ job'[c] \in {"ended", "ask"}
      /\ result' \in [Candidates -> Decided \union {Broken, NoReview}]
      /\ job'[c] = "ended" => /\ result'[c] \in Decided /\ result'[c] # NoReview
                              /\ result'[c].input = Input(ledger, c, given)
                              /\ result'[c].input.given \subseteq evidence
  <2>1. CASE job' = [job EXCEPT ![c] = "ask"] /\ result' = result
    <3>1. job' \in [Candidates -> JobState] /\ job'[c] = "ask"
      BY <1>3, <2>1 DEF Types, JobState
    <3> QED
      BY <1>3, <2>1, <3>1 DEF Types
  <2>2. CASE /\ job' = [job EXCEPT ![c] = "ended"]
             /\ \E r \in previous : /\ SameInput(r, Input(ledger, c, given))
                                    /\ r.input.given \subseteq evidence
                                    /\ result' = [result EXCEPT ![c] = [r EXCEPT !.reused = TRUE]]
    <3>1. PICK r \in previous : /\ SameInput(r, Input(ledger, c, given))
                                /\ r.input.given \subseteq evidence
                                /\ result' = [result EXCEPT ![c] = [r EXCEPT !.reused = TRUE]]
      BY <2>2
    <3>2. r \in Decided \union {Broken}
      BY <1>3 DEF Types
    <3> DEFINE s == [r EXCEPT !.reused = TRUE]
    <3>3. s \in Decided /\ s.input = Input(ledger, c, given) /\ s # NoReview /\ r.input = s.input
      BY <3>1, <3>2, TakenOver
    <3>4. result' = [result EXCEPT ![c] = s]
      BY <3>1
    <3> HIDE DEF s
    <3>5. result' \in [Candidates -> Decided \union {Broken, NoReview}] /\ result'[c] = s
      BY <1>3, <3>3, <3>4 DEF Types
    <3>6. job' \in [Candidates -> JobState] /\ job'[c] = "ended"
      BY <1>3, <2>2 DEF Types, JobState
    <3> QED
      BY <3>1, <3>3, <3>5, <3>6
  <2> QED
    BY <1>5, <2>1, <2>2
<1>10. Stands(c)'
  <2>1. Input(ledger, c, given).given = given /\ Input(ledger', c, given) = Input(ledger, c, given)
    BY <1>3, <1>4, <1>6, InputTyping
  <2>2. job'[c] = "ended" => About(result[c], c)' /\ result'[c].input.given = packet'[c]
    BY <1>6, <1>7, <1>9, <2>1 DEF About
  <2>3. reviews[c] \in Decided => About(reviews[c], c)'
    BY <1>2, <1>3, <1>4, <1>6 DEF Stands, About
  <2>4. mode' # "alone" /\ reviews'[c] \in Decided => reviews'[c].cites \subseteq ledger'.evidence
    BY <1>2, <1>3, <1>4, <1>6 DEF Stands
  <2> QED
    BY <1>2, <1>3, <1>6, <1>9, <2>2, <2>3, <2>4 DEF Stands
<1>11. ASSUME NEW d \in Candidates PROVE Stands(d)'
  <2>1. CASE d = c
    BY <1>10, <2>1
  <2>2. CASE d # c
    BY <1>2, <1>4, <1>6, <1>8, <2>2, StandsOn
  <2> QED
    BY <2>1, <2>2
<1>12. records' \in 0 .. MaxRecords /\ tries' \in [Candidates -> 0 .. 1]
       /\ reviews' \in [Candidates -> Decided \union {Broken, NoReview}]
  BY <1>2, <1>3 DEF Types
<1> QED
  BY <1>2, <1>3, <1>6, <1>7, <1>9, <1>11, <1>12, Validating

(* An attempt ends with a review of what was given, with a failed review, or with *)
(* another attempt.                                                               *)
LEMMA Answering ==
  ASSUME ReviewInv, NEW c \in Candidates, Answer(c)
  PROVE  ReviewInv'
<1>1. /\ job[c] = "ask"
      /\ mode' = mode /\ task' = task /\ status' = status /\ place' = place
      /\ ledger' = ledger /\ saved' = saved /\ records' = records /\ previous' = previous
      /\ packet' = packet /\ reviews' = reviews /\ report' = report
  BY DEF Answer
<1>2. /\ place = "validate" /\ status = "running" /\ report = NoReport
      /\ ledger.status[c] = "supported" /\ Stands(c)
      /\ Types /\ Backed(ledger) /\ ledger \in Ledgers
  BY <1>1, InReview
<1>3. \/ \E review \in Decided \union {Broken} :
           /\ End(c, review)
           /\ review \in Decided => /\ review.input = Input(ledger, c, packet[c])
                                    /\ ~review.reused
      \/ /\ tries' = [tries EXCEPT ![c] = 1]
         /\ job' = [job EXCEPT ![c] = "start"]
         /\ result' = result
  <2>1. \/ \E o \in Outcome, cites \in (SUBSET packet[c]) \ {{}} :
             End(c, Review(Input(ledger, c, packet[c]), o, cites))
        \/ /\ tries' = [tries EXCEPT ![c] = 1]
           /\ job' = [job EXCEPT ![c] = "start"]
           /\ result' = result
        \/ End(c, FailedReview(c))
    BY DEF Answer
  <2>2. ASSUME NEW o \in Outcome, NEW cites \in SUBSET packet[c],
               End(c, Review(Input(ledger, c, packet[c]), o, cites))
        PROVE  \E review \in Decided \union {Broken} :
                 /\ End(c, review)
                 /\ review \in Decided => /\ review.input = Input(ledger, c, packet[c])
                                          /\ ~review.reused
    <3> DEFINE input == Input(ledger, c, packet[c])
               review == Review(input, o, cites)
    <3>1. packet[c] \in SUBSET Evidence
      BY <1>2 DEF Types
    <3>2. input \in Inputs /\ input.given = packet[c]
      BY <1>2, <3>1, InputTyping
    <3> HIDE DEF input
    <3>3. /\ review \in Decided /\ review.input = input /\ ~review.reused
      BY <3>1, <3>2 DEF Review, Decided
    <3>4. End(c, review)
      BY <2>2 DEF input
    <3> HIDE DEF review
    <3> QED
      BY <3>3, <3>4 DEF input
  <2>3. FailedReview(c) = Broken /\ Broken \notin Decided
    BY EvidenceTyping
  <2> QED
    BY <2>1, <2>2, <2>3
<1> DEFINE Effect == /\ job' \in [Candidates -> JobState]
                     /\ tries' \in [Candidates -> 0 .. 1]
                     /\ result' \in [Candidates -> Decided \union {Broken, NoReview}]
                     /\ job'[c] \in {"start", "ended"}
                     /\ \A d \in Candidates : d # c => job'[d] = job[d] /\ result'[d] = result[d]
                     /\ job'[c] = "ended" =>
                          /\ result'[c] # NoReview
                          /\ result'[c] \in Decided => /\ result'[c].input = Input(ledger, c, packet[c])
                                                       /\ ~result'[c].reused
<1>4. Effect
  <2>1. CASE /\ tries' = [tries EXCEPT ![c] = 1]
             /\ job' = [job EXCEPT ![c] = "start"]
             /\ result' = result
    <3>1. job' \in [Candidates -> JobState] /\ job'[c] = "start"
      BY <1>2, <2>1 DEF Types, JobState
    <3> QED
      BY <1>2, <2>1, <3>1 DEF Types
  <2>2. ASSUME NEW review \in Decided \union {Broken}, End(c, review),
               review \in Decided => /\ review.input = Input(ledger, c, packet[c])
                                     /\ ~review.reused
        PROVE  Effect
    <3>1. /\ job' = [job EXCEPT ![c] = "ended"]
          /\ result' = [result EXCEPT ![c] = review]
          /\ tries' = tries
      BY <2>2 DEF End
    <3>2. job' \in [Candidates -> JobState] /\ job'[c] = "ended"
      BY <1>2, <3>1 DEF Types, JobState
    <3>3. result' \in [Candidates -> Decided \union {Broken, NoReview}] /\ result'[c] = review
      BY <1>2, <3>1 DEF Types
    <3>4. review # NoReview
      BY EvidenceTyping
    <3> QED
      BY <1>2, <2>2, <3>1, <3>2, <3>3, <3>4 DEF Types
  <2> QED
    BY <1>3, <2>1, <2>2
<1>5. Stands(c)'
  <2>1. Input(ledger, c, packet[c]).given = packet[c]
    <3>1. packet[c] \in SUBSET Evidence
      BY <1>2 DEF Types
    <3> QED
      BY <1>2, <3>1, InputTyping
  <2>2. job'[c] = "ended" /\ result'[c] \in Decided =>
          About(result[c], c)' /\ result'[c].input.given = packet'[c]
    BY <1>1, <1>4, <2>1 DEF About
  <2>3. reviews[c] \in Decided => About(reviews[c], c)'
    BY <1>1, <1>2 DEF Stands, About
  <2> QED
    BY <1>1, <1>2, <1>4, <2>2, <2>3 DEF Stands
<1>6. ASSUME NEW d \in Candidates PROVE Stands(d)'
  <2>1. CASE d = c
    BY <1>5, <2>1
  <2>2. CASE d # c
    BY <1>1, <1>4, <2>2, StandsOn
  <2> QED
    BY <2>1, <2>2
<1>7. /\ records' \in 0 .. MaxRecords /\ ledger' \in Ledgers /\ Backed(ledger')
      /\ packet' \in [Candidates -> SUBSET Evidence]
      /\ reviews' \in [Candidates -> Decided \union {Broken, NoReview}]
  BY <1>1, <1>2 DEF Types
<1> QED
  BY <1>1, <1>2, <1>4, <1>6, <1>7, Validating

(* Main takes over a review; in a team the evidence it cites is then in the ledger. *)
LEMMA Collecting ==
  ASSUME ReviewInv, NEW c \in Candidates, Collect(c)
  PROVE  ReviewInv'
<1>1. /\ job[c] = "ended"
      /\ mode' = mode /\ task' = task /\ status' = status /\ place' = place
      /\ saved' = saved /\ records' = records /\ previous' = previous /\ report' = report
      /\ job' = [job EXCEPT ![c] = "done"]
      /\ reviews' = [reviews EXCEPT ![c] = result[c]]
      /\ tries' = [tries EXCEPT ![c] = 0]
      /\ packet' = [packet EXCEPT ![c] = {}]
      /\ result' = [result EXCEPT ![c] = NoReview]
  BY DEF Collect, Forget
<1>2. ledger' = IF mode = "alone" \/ result[c].error THEN ledger
                ELSE [ledger EXCEPT !.evidence = @ \union packet[c]]
  BY DEF Collect
<1>3. /\ place = "validate" /\ status = "running" /\ report = NoReport
      /\ ledger.status[c] = "supported" /\ Stands(c)
      /\ Types /\ Backed(ledger) /\ ledger \in Ledgers
  BY <1>1, InReview
<1>4. /\ job' \in [Candidates -> JobState] /\ job'[c] = "done"
      /\ reviews' \in [Candidates -> Decided \union {Broken, NoReview}]
      /\ reviews'[c] = result[c]
  BY <1>1, <1>3 DEF Types, JobState
<1>5. /\ tries' \in [Candidates -> 0 .. 1]
      /\ packet' \in [Candidates -> SUBSET Evidence]
      /\ result' \in [Candidates -> Decided \union {Broken, NoReview}]
  BY <1>1, <1>3 DEF Types
<1>6. \A d \in Candidates : d # c => /\ job'[d] = job[d] /\ reviews'[d] = reviews[d]
                                     /\ packet'[d] = packet[d] /\ result'[d] = result[d]
  BY <1>1, <1>3 DEF Types
<1>7. packet[c] \in SUBSET Evidence /\ ledger.evidence \in SUBSET Evidence
  BY <1>3 DEF Types, Ledgers
<1>8. /\ ledger' \in Ledgers /\ Backed(ledger')
      /\ ledger'.status = ledger.status /\ ledger.evidence \subseteq ledger'.evidence
      /\ \A d, g : Input(ledger', d, g) = Input(ledger, d, g)
      /\ mode # "alone" /\ ~result[c].error => packet[c] \subseteq ledger'.evidence
  <2>1. CASE mode = "alone" \/ result[c].error
    BY <1>2, <1>3, <2>1
  <2>2. CASE ~(mode = "alone" \/ result[c].error)
    <3> DEFINE e == ledger.evidence \union packet[c]
    <3>1. ledger' = [ledger EXCEPT !.evidence = e]
      BY <1>2, <2>2
    <3>2. e \in SUBSET Evidence /\ ledger.evidence \subseteq e /\ packet[c] \subseteq e
      BY <1>7
    <3> HIDE DEF e
    <3> QED
      BY <1>3, <3>1, <3>2, EvidenceOnly
  <2> QED
    BY <2>1, <2>2
<1>9. Stands(c)'
  <2>1. result[c] # NoReview
    BY <1>1, <1>3 DEF Stands
  <2>2. result[c] \in Decided => /\ ~result[c].error /\ result[c].cites \subseteq packet[c]
                                 /\ About(result[c], c)
    <3>1. result[c] \in Decided => About(result[c], c) /\ result[c].input.given = packet[c]
      BY <1>1, <1>3 DEF Stands
    <3>2. \A r \in Decided : ~r.error /\ r.cites \subseteq r.input.given
      BY DEF Decided
    <3> QED
      BY <3>1, <3>2
  <2>3. reviews'[c] \in Decided => About(reviews[c], c)'
    <3>1. result[c] \in Decided =>
            /\ result[c].input = Input(ledger', c, result[c].input.given)
            /\ result[c].reused => result[c].input.given \subseteq ledger'.evidence
      BY <1>8, <2>2 DEF About
    <3> QED
      BY <1>4, <3>1 DEF About
  <2>4. mode' # "alone" /\ reviews'[c] \in Decided => reviews'[c].cites \subseteq ledger'.evidence
    BY <1>1, <1>4, <1>8, <2>2
  <2> QED
    BY <1>1, <1>3, <1>4, <1>8, <2>1, <2>3, <2>4 DEF Stands
<1>10. ASSUME NEW d \in Candidates PROVE Stands(d)'
  <2>1. CASE d = c
    BY <1>9, <2>1
  <2>2. CASE d # c
    BY <1>1, <1>6, <1>8, <2>2, StandsOn
  <2> QED
    BY <2>1, <2>2
<1>11. records' \in 0 .. MaxRecords
  BY <1>1, <1>3 DEF Types
<1> QED
  BY <1>1, <1>3, <1>4, <1>5, <1>8, <1>10, <1>11, Validating

(* What the validation leaves behind: the review of every candidate whose job is over *)
(* stands, and a promoted candidate has a review that decided.                        *)
LEMMA PromotedIsDecided ==
  ASSUME ReviewInv, NEW c \in Promoted
  PROVE  /\ c \in Candidates /\ reviews[c] \in Decided
         /\ ledger.status[c] = "supported" /\ reviews[c].outcome = "supported"
         /\ ~reviews[c].error /\ About(reviews[c], c)
         /\ mode # "alone" => reviews[c].cites \subseteq ledger.evidence
<1>1. /\ c \in Candidates /\ ledger.status[c] = "supported" /\ ReviewCoversDetail(c)
      /\ reviews[c].outcome = "supported"
  BY DEF Promoted
<1>2. reviews[c].outcome # "none" /\ ~reviews[c].error
  BY <1>1 DEF ReviewCoversDetail, Reviewed
<1>3. reviews[c] \in Decided \union {Broken, NoReview} /\ Stands(c)
  BY <1>1 DEF ReviewInv, Types
<1>4. reviews[c] \in Decided
  BY <1>2, <1>3, EvidenceTyping DEF NoReview
<1> QED
  BY <1>1, <1>2, <1>3, <1>4 DEF Stands

(* The lists of the coverage and the promoted candidates: each candidate of the ledger *)
(* is promoted or in a list, and never both.                                           *)
LEMMA Covering ==
  ASSUME ReviewInv, NEW findings
  PROVE  LET listed == Coverage(findings).rejected \union Coverage(findings).unresolved
                         \union Coverage(findings).deferred
         IN /\ Promoted \intersect listed = {}
            /\ Promoted \union listed = Candidates \ InState("absent")
            /\ Coverage(findings).deferred = {} =>
                 \A c \in InState("supported") : ReviewCoversDetail(c)
<1> DEFINE cov == Coverage(findings)
           listed == cov.rejected \union cov.unresolved \union cov.deferred
<1>1. /\ cov.deferred = InState("open") \union (InState("supported") \ Reviewed) \union Failed
                          \union {c \in InState("supported") : ~ReviewCoversDetail(c)}
      /\ cov.unresolved = InState("inconclusive") \union (Said("inconclusive") \ Failed)
      /\ cov.rejected = InState("refuted") \union Said("refuted")
  BY DEF Coverage
<1> HIDE DEF cov
<1>2. ASSUME NEW c \in Candidates
      PROVE  /\ c \in Promoted => c \notin listed
             /\ c \in Promoted \union listed <=> c \notin InState("absent")
  <2>1. /\ reviews[c] \in Decided \union {Broken, NoReview} /\ Stands(c)
        /\ ledger.status[c] \in Outcome \union {"absent", "open"}
    BY DEF ReviewInv, Types, Ledgers
  <2>2. c \in Reviewed <=> reviews[c] # NoReview
    BY <2>1, EvidenceTyping DEF Reviewed, NoReview
  <2>3. c \in Reviewed => ledger.status[c] = "supported"
    BY <2>1, <2>2 DEF Stands
  <2>4. c \in Failed <=> c \in Reviewed /\ reviews[c].error
    BY DEF Failed, Reviewed
  <2>5. c \in Reviewed => reviews[c].outcome \in Outcome
    BY <2>1, <2>2, EvidenceTyping DEF Broken, Outcome
  <2>6. \A s : c \in InState(s) <=> ledger.status[c] = s
    BY DEF InState
  <2>7. \A o : c \in Said(o) <=> c \in Reviewed /\ reviews[c].outcome = o
    BY DEF Said, Reviewed
  <2>8. ReviewCoversDetail(c) => c \in Reviewed /\ c \notin Failed
    BY <2>4 DEF ReviewCoversDetail
  <2>9. c \in Promoted <=> /\ ledger.status[c] = "supported" /\ ReviewCoversDetail(c)
                           /\ reviews[c].outcome = "supported"
    BY DEF Promoted
  <2>10. /\ c \in cov.deferred <=>
              \/ ledger.status[c] = "open" \/ c \in Failed
              \/ ledger.status[c] = "supported" /\ (c \notin Reviewed \/ ~ReviewCoversDetail(c))
         /\ c \in cov.unresolved <=>
              \/ ledger.status[c] = "inconclusive"
              \/ c \in Reviewed /\ reviews[c].outcome = "inconclusive" /\ c \notin Failed
         /\ c \in cov.rejected <=>
              \/ ledger.status[c] = "refuted"
              \/ c \in Reviewed /\ reviews[c].outcome = "refuted"
    BY <1>1, <2>6, <2>7
  <2>11. c \in listed <=> c \in cov.rejected \/ c \in cov.unresolved \/ c \in cov.deferred
    OBVIOUS
  <2> HIDE DEF listed
  <2>12. c \in Promoted => c \notin listed
    BY <2>3, <2>8, <2>9, <2>10, <2>11
  <2>13. c \in Promoted \union listed <=> c \notin InState("absent")
    <3>1. CASE ledger.status[c] = "absent"
      BY <2>3, <2>4, <2>6, <2>9, <2>10, <2>11, <3>1
    <3>2. CASE ledger.status[c] \in {"open", "refuted", "inconclusive"}
      BY <2>6, <2>10, <2>11, <3>2
    <3>3. CASE ledger.status[c] = "supported"
      <4>1. CASE ~ReviewCoversDetail(c)
        BY <2>6, <2>10, <2>11, <3>3, <4>1
      <4>2. CASE ReviewCoversDetail(c)
        BY <2>5, <2>6, <2>8, <2>9, <2>10, <2>11, <3>3, <4>2 DEF Outcome
      <4> QED
        BY <4>1, <4>2
    <3> QED
      BY <2>1, <3>1, <3>2, <3>3 DEF Outcome
  <2> QED
    BY <2>12, <2>13
<1>3. Promoted \subseteq Candidates /\ listed \subseteq Candidates
  BY <1>1 DEF Promoted, InState, Said, Reviewed, Failed
<1>4. InState("absent") \subseteq Candidates
  BY DEF InState
<1>5. cov.deferred = {} => \A c \in InState("supported") : ReviewCoversDetail(c)
  BY <1>1
<1>6. Promoted \intersect listed = {}
  <2> HIDE DEF listed
  <2> QED
    BY <1>2, <1>3
<1>7. Promoted \union listed = Candidates \ InState("absent")
  <2> HIDE DEF listed
  <2> QED
    BY <1>2, <1>3, <1>4
<1> QED
  BY <1>5, <1>6, <1>7 DEF cov

(* The report names reviewed candidates only and leaves none out; in a team nothing *)
(* that a finding cites is missing.                                                 *)
LEMMA Assembling ==
  ASSUME ReviewInv, AssembleReport
  PROVE  ReviewInv'
<1>1. /\ place = "validate" /\ place' = "over"
      /\ \A c \in Candidates : job[c] \in {"none", "done"}
      /\ mode' = mode /\ task' = task /\ ledger' = ledger /\ saved' = saved
      /\ records' = records /\ previous' = previous /\ job' = job /\ tries' = tries
      /\ packet' = packet /\ result' = result /\ reviews' = reviews
      /\ IF \A c \in Promoted : reviews[c].cites \subseteq ledger.evidence
         THEN status' = "needs_review" /\ report' = Coverage(Findings)
         ELSE status' = "failed" /\ report' = report
  BY DEF AssembleReport, ReviewsAreIn, validation
<1>2. Types /\ Backed(ledger) /\ Backed(saved) /\ \A c \in Candidates : Stands(c)
  BY DEF ReviewInv
<1>3. status = "running" /\ report = NoReport
  BY <1>1 DEF ReviewInv, Reported
<1>4. Types'
  BY <1>1, <1>2 DEF Types
<1>5. Backed(ledger)' /\ Backed(saved)'
  BY <1>1, <1>2 DEF Backed
<1>6. ASSUME NEW c \in Candidates PROVE Stands(c)'
  <2>1. reviews[c] \in Decided => About(reviews[c], c)'
    BY <1>1, <1>2 DEF Stands, About
  <2>2. mode' # "alone" /\ reviews'[c] \in Decided => reviews'[c].cites \subseteq ledger'.evidence
    BY <1>1, <1>2 DEF Stands
  <2> QED
    BY <1>1, <1>2, <2>1, <2>2 DEF Stands
<1>7. Reported'
  BY <1>1, <1>3 DEF Reported
<1>8. CASE status' = "failed" /\ report' = report
  BY <1>3, <1>4, <1>5, <1>6, <1>7, <1>8, NotReported DEF ReviewInv
<1>9. CASE status' = "needs_review" /\ report' = Coverage(Findings)
  <2>1. report'.findings = Findings
    BY <1>9 DEF Coverage
  <2>2. Within(Findings) = Promoted /\ Apart(Findings)
    BY PromotedOnce
  <2> HIDE DEF Promoted
  <2>3. FindingsAreReviewed'
    <3> SUFFICES ASSUME NEW i \in DOMAIN Findings, NEW c \in Findings[i].candidates
                 PROVE  /\ ledger.status[c] = "supported"
                        /\ reviews[c].outcome = "supported" /\ ~reviews[c].error
                        /\ reviews[c].input = Input(ledger, c, reviews[c].input.given)
                        /\ reviews[c].reused => reviews[c].input.given \subseteq ledger.evidence
      BY <1>1, <2>1 DEF FindingsAreReviewed, Input
    <3>1. c \in Promoted
      BY <2>2 DEF Within
    <3> QED
      BY <3>1, PromotedIsDecided DEF About
  <2>4. NoCandidateLost'
    <3> DEFINE found == UNION {Findings[i].candidates : i \in DOMAIN Findings}
               cov == Coverage(Findings)
               listed == cov.rejected \union cov.unresolved \union cov.deferred
    <3>1. found = Promoted
      BY <2>2 DEF Within
    <3>2. /\ Promoted \intersect listed = {}
          /\ Promoted \union listed = Candidates \ InState("absent")
          /\ cov.deferred = {} => \A c \in InState("supported") : ReviewCoversDetail(c)
      BY Covering
    <3>3. /\ InState("absent")' = InState("absent") /\ InState("supported")' = InState("supported")
          /\ \A c : ReviewCoversDetail(c)' <=> ReviewCoversDetail(c)
      BY <1>1 DEF InState, ReviewCoversDetail, Reviewed
    <3>4. /\ found \intersect listed = {}
          /\ found \union listed = Candidates \ InState("absent")'
          /\ \A i, k \in DOMAIN Findings :
               i # k => Findings[i].candidates \intersect Findings[k].candidates = {}
          /\ cov.deferred = {} => \A c \in InState("supported")' : ReviewCoversDetail(c)'
      <4> HIDE DEF found, cov, listed
      <4> QED
        BY <2>2, <3>1, <3>2, <3>3 DEF Apart
    <3> HIDE DEF InState, ReviewCoversDetail
    <3> QED
      BY <1>9, <2>1, <3>4 DEF NoCandidateLost
  <2> QED
    BY <1>4, <1>5, <1>6, <1>7, <2>3, <2>4 DEF ReviewInv
<1> QED
  BY <1>1, <1>8, <1>9

(* A task that ends early has no report; its reviews stay for the next one.  Its *)
(* ledger may have got evidence before.                                          *)
LEMMA GivingUp ==
  ASSUME ReviewInv, place # "over", NEW outcome \in {"stopped", "failed"}, GiveUp(outcome),
         ledger' \in Ledgers, Backed(ledger'), ledger.evidence \subseteq ledger'.evidence,
         ledger'.status = ledger.status,
         \A d, given : Input(ledger', d, given) = Input(ledger, d, given)
  PROVE  ReviewInv'
<1>1. /\ status' = outcome /\ place' = "over" /\ records' = 0
      /\ job' = [c \in Candidates |-> "none"]
      /\ tries' = [c \in Candidates |-> 0]
      /\ packet' = [c \in Candidates |-> {}]
      /\ result' = [c \in Candidates |-> NoReview]
      /\ mode' = mode /\ task' = task /\ saved' = saved
      /\ previous' = previous /\ reviews' = reviews /\ report' = report
  BY DEF GiveUp
<1>2. Types /\ Backed(saved) /\ \A c \in Candidates : Stands(c)
  BY DEF ReviewInv
<1>3. report = NoReport
  BY DEF ReviewInv, Reported
<1>4. Types'
  BY <1>1, <1>2, ReviewAssumption DEF Types, JobState
<1>5. Backed(ledger)' /\ Backed(saved)'
  BY <1>1, <1>2 DEF Backed
<1>6. ASSUME NEW c \in Candidates PROVE Stands(c)'
  <2>1. reviews[c] \in Decided => About(reviews[c], c)'
    BY <1>1, <1>2 DEF Stands, About
  <2>2. mode' # "alone" /\ reviews'[c] \in Decided => reviews'[c].cites \subseteq ledger'.evidence
    BY <1>1, <1>2 DEF Stands
  <2>3. job'[c] = "none"
    BY <1>1
  <2> QED
    BY <1>1, <1>2, <2>1, <2>2, <2>3 DEF Stands
<1>7. Reported'
  BY <1>1, <1>3 DEF Reported
<1>8. FindingsAreReviewed' /\ NoCandidateLost'
  BY <1>1, <1>3, NotReported
<1> QED
  BY <1>4, <1>5, <1>6, <1>7, <1>8 DEF ReviewInv

(* The end by a cancellation or by a service that fails outside of a review. *)
LEMMA Stopping ==
  ASSUME ReviewInv, Stop \/ InvestigationFails
  PROVE  ReviewInv'
<1>1. place # "over" /\ ledger' = ledger /\ \E o \in {"stopped", "failed"} : GiveUp(o)
  BY DEF Stop, InvestigationFails
<1>2. ledger \in Ledgers /\ Backed(ledger)
  BY DEF ReviewInv, Types
<1> QED
  BY <1>1, <1>2, GivingUp

(* The end by a service that fails in a review's prefetch. *)
LEMMA PrefetchFailing ==
  ASSUME ReviewInv, NEW c \in Candidates, PrefetchFails(c)
  PROVE  ReviewInv'
<1>1. PICK rows \in Prefetched(c) :
        ledger' = [ledger EXCEPT !.evidence = ledger.evidence \union KeptAtOnce(rows)]
  BY DEF PrefetchFails
<1>2. place = "validate" /\ ledger \in Ledgers /\ Backed(ledger)
  BY InReview DEF PrefetchFails
<1> DEFINE evidence == ledger.evidence \union KeptAtOnce(rows)
<1>3. evidence \in SUBSET Evidence /\ ledger.evidence \subseteq evidence
  <2>1. rows \subseteq Evidence
    BY EvidenceTyping DEF Prefetched
  <2>2. KeptAtOnce(rows) \subseteq Evidence
    BY <2>1 DEF KeptAtOnce
  <2> QED
    BY <1>2, <2>2 DEF Ledgers
<1>4. ledger' = [ledger EXCEPT !.evidence = evidence]
  BY <1>1
<1> HIDE DEF evidence
<1>5. /\ ledger' \in Ledgers /\ ledger'.evidence = evidence
      /\ ledger'.status = ledger.status /\ Backed(ledger')
      /\ \A d, given : Input(ledger', d, given) = Input(ledger, d, given)
  BY <1>2, <1>3, <1>4, EvidenceOnly
<1>6. GiveUp("failed")
  BY DEF PrefetchFails
<1> QED
  BY <1>2, <1>3, <1>5, <1>6, GivingUp

(* A continuation starts from a saved ledger, with the reviews of its parent. *)
LEMMA Resuming ==
  ASSUME ReviewInv, Resume
  PROVE  ReviewInv'
<1>1. /\ place = "over" /\ task < MaxTasks
      /\ task' = task + 1 /\ status' = "running" /\ place' = "investigate"
      /\ ledger' = (IF mode = "paths" THEN ledger ELSE saved)
      /\ saved' = ledger'
      /\ previous' = {reviews[c] : c \in Reviewed}
      /\ job' = [c \in Candidates |-> "none"]
      /\ reviews' = [c \in Candidates |-> NoReview]
      /\ report' = NoReport
      /\ mode' = mode /\ records' = records /\ tries' = tries
      /\ packet' = packet /\ result' = result
  BY DEF Resume
<1>2. Types /\ Backed(ledger) /\ Backed(saved)
  BY DEF ReviewInv
<1>3. ledger' \in Ledgers /\ Backed(ledger') /\ saved' \in Ledgers /\ Backed(saved')
  <2>1. CASE mode = "paths"
    BY <1>1, <1>2, <2>1 DEF Types
  <2>2. CASE mode # "paths"
    BY <1>1, <1>2, <2>2 DEF Types
  <2> QED
    BY <2>1, <2>2
<1>4. previous' \subseteq Decided \union {Broken}
  <2>1. ASSUME NEW c \in Reviewed PROVE reviews[c] \in Decided \union {Broken}
    <3>1. c \in Candidates /\ reviews[c].outcome # "none"
      BY DEF Reviewed
    <3>2. reviews[c] \in Decided \union {Broken, NoReview}
      BY <1>2, <3>1 DEF Types
    <3> QED
      BY <3>1, <3>2 DEF NoReview
  <2> QED
    BY <1>1, <2>1
<1>5. Types'
  <2>1. task' \in 1 .. MaxTasks
    BY <1>1, <1>2, ReviewAssumption DEF Types
  <2>2. /\ job' \in [Candidates -> JobState]
        /\ reviews' \in [Candidates -> Decided \union {Broken, NoReview}]
    BY <1>1 DEF JobState
  <2> QED
    BY <1>1, <1>2, <1>3, <1>4, <2>1, <2>2 DEF Types
<1>6. ASSUME NEW c \in Candidates PROVE Stands(c)'
  <2>1. job'[c] = "none" /\ reviews'[c] = NoReview
    BY <1>1
  <2> QED
    BY <2>1, EvidenceTyping DEF Stands
<1>7. Reported'
  BY <1>1 DEF Reported
<1>8. FindingsAreReviewed' /\ NoCandidateLost'
  BY <1>1, NotReported
<1>9. Backed(ledger)' /\ Backed(saved)'
  BY <1>3 DEF Backed
<1> QED
  BY <1>5, <1>6, <1>7, <1>8, <1>9 DEF ReviewInv

(* A step that changes nothing. *)
LEMMA Standing ==
  ASSUME ReviewInv, UNCHANGED vars
  PROVE  ReviewInv'
<1>1. /\ mode' = mode /\ task' = task /\ status' = status /\ place' = place
      /\ ledger' = ledger /\ saved' = saved /\ records' = records /\ previous' = previous
      /\ job' = job /\ tries' = tries /\ packet' = packet /\ result' = result
      /\ reviews' = reviews /\ report' = report
  BY DEF vars
<1>2. Types' /\ Backed(ledger)' /\ Backed(saved)' /\ Reported'
  BY <1>1 DEF ReviewInv, Types, Backed, Reported
<1>3. ASSUME NEW c \in Candidates PROVE Stands(c)'
  <2>1. Stands(c)
    BY DEF ReviewInv
  <2> QED
    BY <1>1, <2>1 DEF Stands, About
<1>4. FindingsAreReviewed'
  BY <1>1 DEF ReviewInv, FindingsAreReviewed, Input
<1>5. NoCandidateLost'
  BY <1>1 DEF ReviewInv, NoCandidateLost, InState, ReviewCoversDetail, Reviewed
<1> QED
  BY <1>2, <1>3, <1>4, <1>5 DEF ReviewInv

-----------------------------------------------------------------------------
(* ReviewInv holds initially and every step keeps it. *)
THEOREM Invariance == Spec => []ReviewInv
<1>1. ReviewInv /\ [Next]_vars => ReviewInv'
  <2> SUFFICES ASSUME ReviewInv, [Next]_vars PROVE ReviewInv'
    OBVIOUS
  <2>1. CASE Investigate
    BY <2>1, Investigating
  <2>2. CASE SubmitReport
    BY <2>2, Submitting
  <2>3. ASSUME NEW c \in Candidates, Gather(c) PROVE ReviewInv'
    BY <2>3, Gathering
  <2>4. ASSUME NEW c \in Candidates, Answer(c) PROVE ReviewInv'
    BY <2>4, Answering
  <2>5. ASSUME NEW c \in Candidates, Collect(c) PROVE ReviewInv'
    BY <2>5, Collecting
  <2>6. CASE AssembleReport
    BY <2>6, Assembling
  <2>7. CASE Stop \/ InvestigationFails
    BY <2>7, Stopping
  <2>8. CASE Resume
    BY <2>8, Resuming
  <2>9. CASE UNCHANGED vars
    BY <2>9, Standing
  <2>10. ASSUME NEW c \in Candidates, PrefetchFails(c) PROVE ReviewInv'
    BY <2>10, PrefetchFailing
  <2> QED
    BY <2>1, <2>2, <2>3, <2>4, <2>5, <2>6, <2>7, <2>8, <2>9, <2>10 DEF Next, Validate
<1> QED
  BY <1>1, Starting, PTL DEF Spec

(* The variables keep their types; above all, what a candidate's detail cites is always *)
(* evidence that its own ledger holds (services/audit_runner.py, the ledger's document). *)
THEOREM TypeCorrect == Spec => []TypeOK
<1>1. ReviewInv => TypeOK
  <2> SUFFICES ASSUME ReviewInv PROVE TypeOK
    OBVIOUS
  <2>1. Types /\ Backed(ledger)
    BY DEF ReviewInv
  <2>2. ledger.evidence \subseteq Evidence /\ saved.evidence \subseteq Evidence
    BY <2>1 DEF Types, Ledgers
  <2>3. ASSUME NEW c \in Candidates
        PROVE  /\ ledger.status[c] \in Outcome \union {"absent", "open"}
               /\ job[c] \in JobState /\ tries[c] \in 0 .. 1
               /\ packet[c] \subseteq Evidence /\ ledger.refs[c] \subseteq ledger.evidence
    BY <2>1 DEF Types, Ledgers, Backed
  <2> QED
    BY <2>1, <2>2, <2>3 DEF Types, TypeOK
<1> QED
  BY <1>1, Invariance, PTL

(* finding_report.py: whatever the reviewers answered, and however often the task was    *)
(* stopped and continued, a finding names only candidates that an independent review has *)
(* supported exactly as the ledger still holds them.                                     *)
THEOREM OnlyReviewedFindings == Spec => []FindingsAreReviewed
<1>1. ReviewInv => FindingsAreReviewed
  BY DEF ReviewInv
<1> QED
  BY <1>1, Invariance, PTL

(* finding_report.py and report_coverage.py: each candidate of the ledger is in one    *)
(* finding or in a list of the coverage, never in both and never in neither, whichever *)
(* findings were merged.                                                               *)
THEOREM EachCandidateReported == Spec => []NoCandidateLost
<1>1. ReviewInv => NoCandidateLost
  BY DEF ReviewInv
<1> QED
  BY <1>1, Invariance, PTL

(* audit_runner.py: in a team the evidence of a collected review is in the ledger, *)
(* whichever review ended first.                                                   *)
THEOREM EvidenceIsKept == Spec => []CitedEvidenceKept
<1>1. ReviewInv => CitedEvidenceKept
  <2> SUFFICES ASSUME ReviewInv, mode # "alone", NEW c \in Candidates, job[c] = "done"
               PROVE  reviews[c].cites \subseteq ledger.evidence
    BY DEF CitedEvidenceKept
  <2>1. Stands(c) /\ reviews[c] \in Decided \union {Broken, NoReview}
    BY DEF ReviewInv, Types
  <2> QED
    BY <2>1, EvidenceTyping DEF Stands
<1> QED
  BY <1>1, Invariance, PTL

(* audit_runner.py:384: once a team's reviews are in, the task does not fail, whatever  *)
(* they read and cite and whichever ended first; a service that fails during the reviews *)
(* may still end it.                                                                     *)
THEOREM TeamReportIsAssembled == Spec => TeamReportAssembles
<1>1. ReviewInv /\ [Next]_vars => [mode # "alone" /\ ReviewsAreIn => status' # "failed"]_vars
  <2> SUFFICES ASSUME ReviewInv, Next, mode # "alone", ReviewsAreIn
               PROVE  status' # "failed"
    OBVIOUS
  <2>1. place = "validate" /\ status = "running" /\ \A c \in Candidates : job[c] \in {"none", "done"}
    BY DEF ReviewsAreIn, ReviewInv, Reported
  <2>2. CASE AssembleReport
    <3>1. \A c \in Promoted : reviews[c].cites \subseteq ledger.evidence
      BY PromotedIsDecided
    <3> QED
      BY <2>2, <3>1 DEF AssembleReport
  <2>3. CASE Stop
    BY <2>3 DEF Stop, GiveUp
  <2>4. ~Investigate /\ ~InvestigationFails /\ ~SubmitReport /\ ~Resume
    BY <2>1 DEF Investigate, RecordInvestigation, ReviewInvestigation, RecordDetail, ReadEvidence,
       Record, SaveCheckpoint, InvestigationFails, SubmitReport, Resume
  <2>5. \A c \in Candidates : ~Gather(c) /\ ~PrefetchFails(c) /\ ~Answer(c) /\ ~Collect(c)
    BY <2>1 DEF Gather, PrefetchFails, Answer, Collect
  <2> QED
    BY <2>2, <2>3, <2>4, <2>5 DEF Next, Validate
<1> QED
  BY <1>1, Invariance, PTL DEF Spec, TeamReportAssembles
=============================================================================
