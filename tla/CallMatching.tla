---------------------------- MODULE CallMatching ----------------------------
(***************************************************************************)
(* How the call sites of a run come about (_resolve_joern_call_sites in    *)
(* infrastructure/neo4j/code_graph_store.py): one call of Joern after the  *)
(* other is matched with the calls that the parser saw, in whatever order  *)
(* and number Joern has them, then what only the parser saw is added.      *)
(***************************************************************************)
EXTENDS CallGraph

CONSTANTS
  Chunks,       \* the chunks there may be
  JoernCalls    \* the calls that Joern may report: [path, line, name, target]

ASSUME ChunksAssumption ==
  \A c \in Chunks : Len(c.calls) \in Nat /\ DOMAIN c.calls = 1 .. Len(c.calls)

VARIABLES
  repository,   \* the chunks of the run
  joern,        \* the calls of Joern so far
  matched,      \* the parser's calls that one of Joern was matched with
  sites,        \* the call sites so far
  joernOver,    \* Joern has no more
  missing       \* and the calls that only the parser saw are still to be added

matchVars == <<repository, joern, matched, sites, joernOver, missing>>

\* Nothing is matched yet.
MatchingOf(chunks) ==
  /\ repository = chunks
  /\ joern = <<>>
  /\ matched = {}
  /\ sites = <<>>
  /\ joernOver = FALSE
  /\ missing = {}

MatchInit ==
  \E chunks \in SUBSET Chunks :
    /\ IsFiniteSet(chunks)
    /\ \A c, d \in chunks : c.id = d.id => c = d
    /\ MatchingOf(chunks)

\* Caller, line and name: what calls of the parser and of Joern have in common.
KeyOf(call) == <<call.caller, call.line, call.name>>
JoernKey(call) == <<FindCaller(repository, call), call.line, call.name>>

FirstCall(calls) == CHOOSE t \in calls : \A u \in calls : t.at <= u.at

\* Changed: a call of the parser may be taken by several calls of Joern.
MatchJoernAgain(call) ==
  LET free == {t \in TreeCalls(repository) : KeyOf(t) = JoernKey(call)}
      callees == FindCallees(repository, call)
  IN /\ ~joernOver
     /\ joern' = Append(joern, call)
     /\ IF FindCaller(repository, call) = NoCount THEN UNCHANGED <<matched, sites>>
        ELSE /\ matched' = matched \cup (IF free = {} THEN {} ELSE {FirstCall(free)})
             /\ sites' = Append(sites,
                  CallSite(FindCaller(repository, call), call,
                           IF Cardinality(callees) = 1 THEN callees ELSE {},
                           IF Cardinality(callees) = 1 THEN "RESOLVED" ELSE "UNRESOLVED",
                           IF free = {} THEN "JOERN" ELSE "BOTH"))
     /\ UNCHANGED <<repository, joernOver, missing>>

\* A call of Joern in a known caller takes the first call of the parser that
\* has its key and is not taken yet.
MatchJoern(call) ==
  LET free == {t \in TreeCalls(repository) \ matched : KeyOf(t) = JoernKey(call)}
      callees == FindCallees(repository, call)
      status == IF Cardinality(callees) = 1 THEN "RESOLVED"
                ELSE IF callees = {} THEN "UNRESOLVED" ELSE "AMBIGUOUS"
  IN /\ ~joernOver
     /\ joern' = Append(joern, call)
     /\ IF FindCaller(repository, call) = NoCount THEN UNCHANGED <<matched, sites>>
        ELSE /\ matched' = matched \cup (IF free = {} THEN {} ELSE {FirstCall(free)})
             /\ sites' = Append(sites,
                  CallSite(FindCaller(repository, call), call,
                           IF status = "RESOLVED" THEN callees ELSE {}, status,
                           IF free = {} THEN "JOERN" ELSE "BOTH"))
     /\ UNCHANGED <<repository, joernOver, missing>>

EndJoern ==
  /\ ~joernOver
  /\ joernOver' = TRUE
  /\ missing' = TreeCalls(repository) \ matched
  /\ UNCHANGED <<repository, joern, matched, sites>>

\* What only the parser saw, chunk by chunk, here in the order of the ids.
AddMissing ==
  /\ \E t \in missing :
       /\ \A u \in missing : t.caller < u.caller \/ (t.caller = u.caller /\ t.at <= u.at)
       /\ missing' = missing \ {t}
       /\ sites' = Append(sites, CallSite(t.caller, t, {}, "UNRESOLVED", "TREE_SITTER"))
  /\ UNCHANGED <<repository, joern, matched, joernOver>>

MatchNext == (\E call \in JoernCalls : MatchJoern(call)) \/ EndJoern \/ AddMissing

MatchSpec == MatchInit /\ [][MatchNext]_matchVars

-----------------------------------------------------------------------------
Sites(key, from) ==
  {i \in DOMAIN sites : KeyOf(sites[i]) = key /\ sites[i].provenance \in from}
InTree(key) == {t \in TreeCalls(repository) : KeyOf(t) = key}
InJoern(key) ==
  {i \in DOMAIN joern : JoernKey(joern[i]) = key /\ FindCaller(repository, joern[i]) # NoCount}
Keys ==
  {KeyOf(t) : t \in TreeCalls(repository)}
  \cup {JoernKey(joern[i]) : i \in DOMAIN joern}
  \cup {KeyOf(sites[i]) : i \in DOMAIN sites}

\* Every call of Joern with a known caller is one call site, as many as possible
\* are the parser's calls as well, and in the end every call that the parser saw
\* is one site too; an edge leads only to the sole callable of the name that a
\* call of Joern at that place has as its target (_resolve_joern_call_sites).
CallSitesAccounted ==
  LET Size(S) == Cardinality(S)
      Least(m, n) == IF m < n THEN m ELSE n
  IN /\ \A key \in Keys :
          /\ Size(Sites(key, {"BOTH", "JOERN"})) = Size(InJoern(key))
          /\ Size(Sites(key, {"BOTH"})) = Least(Size(InTree(key)), Size(InJoern(key)))
          /\ joernOver /\ missing = {} =>
               Size(Sites(key, {"BOTH", "TREE_SITTER"})) = Size(InTree(key))
     /\ \A edge \in Calls(sites) :
          \E i \in DOMAIN joern : /\ JoernKey(joern[i]) = KeyOf(sites[edge[3]])
                                  /\ FindCallees(repository, joern[i]) = {edge[2]}
=============================================================================
