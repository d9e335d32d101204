---------------------------- MODULE IndexCommit ----------------------------
(***************************************************************************)
(* index_repository (services/index_service.py): one attempt writes its    *)
(* chunks to OpenSearch and Qdrant, its projects to Joern and its graph to *)
(* Neo4j, binds itself to the source snapshot it captured, and cleans up   *)
(* what older attempts left.  No transaction spans the stores: a failure   *)
(* before the bind is rolled back store by store as far as that goes.      *)
(*                                                                         *)
(* A chunk's document and its vector are kept under the chunk's own id, a  *)
(* hash of its place and content, so an attempt overwrites what an older   *)
(* one wrote for the same chunk.  The repository, the snapshot id and the  *)
(* optional stores are the same in all attempts.                           *)
(***************************************************************************)
EXTENDS RepositoryUpload, FiniteSets

CONSTANTS
  Chunks,        \* chunk ids that the versions of the repository give
  ChunksOf,      \* the chunks of each upload
  Langs,         \* languages
  LangOf,        \* the language of each chunk
  MaxAttempts,   \* bound on attempts to index
  MaxFaults      \* bound on failing calls after the first write, and crashes

ASSUME CommitAssumption ==
  /\ MaxAttempts \in Nat /\ MaxFaults \in Nat
  /\ LangOf \in [Chunks -> Langs]
  /\ ChunksOf \in [Uploads -> SUBSET Chunks]

Attempts == 1 .. MaxAttempts
NoSource == {"no snapshot"}

VARIABLES
  docs,      \* OpenSearch: the attempt that wrote each chunk, 0 when absent
  vecs,      \* Qdrant: the same
  graph,     \* Neo4j: "absent", "partial" or "whole" for each attempt
  joern,     \* projects, one per attempt and language
  source,    \* the captured chunks of each attempt's snapshot
  binding,   \* source_index_bindings: "none", "active", "retired"
  ipc,       \* where the attempt is
  attempt,   \* index_run_id: the number of the current attempt
  old,       \* the active attempts it listed at its start, less those whose
             \* Joern projects it went through
  work,      \* the chunks it cut, until they are bound
  clean,     \* no rollback call, or no optional clean-up call, failed
  faults,
  deleting,  \* the snapshot a DELETE request found unbound, or 0
  failed,    \* history: attempts that were rolled back without a failure
  raced      \* history: attempts whose bind and the deletion of whose
             \* snapshot were under way at the same time

cvars == <<docs, vecs, graph, joern, source, binding, ipc, attempt, old, work,
           clean, faults, deleting, failed, raced>>
stores == <<docs, vecs, graph, joern, source, binding>>
vars == <<lock, uvars, cvars>>

Steps == {"idle", "capture", "parse", "embed", "docs", "vecs", "joern",
          "graph", "graph rest", "bind", "bound?", "undo docs", "undo vecs",
          "undo graph", "undo joern", "old docs", "old vecs", "old graph",
          "old joern", "retire"}

TypeOK ==
  /\ UploadTypeOK
  /\ docs \in [Chunks -> 0 .. MaxAttempts]
  /\ vecs \in [Chunks -> 0 .. MaxAttempts]
  /\ graph \in [Attempts -> {"absent", "partial", "whole"}]
  /\ joern \subseteq Attempts \X Langs
  /\ source \in [Attempts -> (SUBSET Chunks) \cup {NoSource}]
  /\ binding \in [Attempts -> {"none", "active", "retired"}]
  /\ ipc \in Steps
  /\ attempt \in 0 .. MaxAttempts
  /\ old \subseteq Attempts
  /\ work \subseteq Chunks
  /\ clean \in BOOLEAN
  /\ faults \in 0 .. MaxFaults
  /\ deleting \in 0 .. MaxAttempts
  /\ failed \subseteq Attempts
  /\ raced \subseteq Attempts

Init ==
  /\ UploadInit
  /\ docs = [c \in Chunks |-> 0]
  /\ vecs = [c \in Chunks |-> 0]
  /\ graph = [a \in Attempts |-> "absent"]
  /\ joern = {}
  /\ source = [a \in Attempts |-> NoSource]
  /\ binding = [a \in Attempts |-> "none"]
  /\ ipc = "idle"
  /\ attempt = 0
  /\ old = {}
  /\ work = {}
  /\ clean = TRUE
  /\ faults = 0
  /\ deleting = 0
  /\ failed = {}
  /\ raced = {}

-----------------------------------------------------------------------------

Goto(step) == ipc' = step
Fault == faults < MaxFaults /\ faults' = faults + 1
Active == {a \in Attempts : binding[a] = "active"}

(* The end of an attempt, by return or by an exception: repository_        *)
(* operation gives the lock back.                                          *)
EndAttempt ==
  /\ Goto("idle")
  /\ lock' = "free"
  /\ work' = {}
  /\ old' = {}
  /\ clean' = TRUE

(* _execute_index: the path must be a directory, then the lock is taken    *)
(* without waiting; a busy one ends the job or the request at once.        *)
StartAttempt ==
  /\ ipc = "idle"
  /\ lock = "free"
  /\ Exists(target)
  /\ attempt < MaxAttempts
  /\ attempt' = attempt + 1
  /\ lock' = "index"
  /\ Goto("capture")
  /\ UNCHANGED <<uvars, stores, old, work, clean, faults, deleting, failed, raced>>

(* Everything before the first write may raise (a service that does not    *)
(* answer, a file that cannot be read or parsed, a cancellation): there is *)
(* nothing to undo, a captured snapshot stays.                             *)
Abort ==
  /\ ipc \in {"capture", "parse", "embed"}
  /\ EndAttempt
  /\ UNCHANGED <<uvars, stores, attempt, faults, deleting, failed, raced>>

(* list_bound_runs, then capture: one transaction; of a directory that a   *)
(* crash left half copied it takes what is there.                          *)
Capture ==
  /\ ipc = "capture"
  /\ old' = Active
  /\ \E seen \in IF target.whole THEN {ChunksOf[target.version]}
                 ELSE SUBSET ChunksOf[target.version] :
       source' = [source EXCEPT ![attempt] = seen]
  /\ Goto("parse")
  /\ UNCHANGED <<lock, uvars, docs, vecs, graph, joern, binding, attempt, work,
                 clean, faults, deleting, failed, raced>>

(* indexing_directory restores the snapshot, process_repository cuts it; a *)
(* snapshot that was deleted meanwhile restores to an empty directory.     *)
Parse ==
  /\ ipc = "parse"
  /\ work' = IF source[attempt] = NoSource THEN {} ELSE source[attempt]
  /\ Goto("embed")
  /\ UNCHANGED <<lock, uvars, stores, attempt, old, clean, faults, deleting,
                 failed, raced>>

Embed ==
  /\ ipc = "embed"
  /\ Goto("docs")
  /\ UNCHANGED <<lock, uvars, stores, attempt, old, work, clean, faults,
                 deleting, failed, raced>>

(* From here on "work" stays the set of chunks of the attempt until the    *)
(* bind; bulk and upload_points send batches, of which some may have been  *)
(* accepted when the call raises.                                          *)
Written(store, chunks) ==
  [c \in Chunks |-> IF c \in chunks THEN attempt ELSE store[c]]

SaveDocs ==
  /\ ipc = "docs"
  /\ \/ /\ docs' = Written(docs, work)
        /\ Goto("vecs")
        /\ UNCHANGED faults
     \/ /\ Fault
        /\ \E part \in SUBSET work : docs' = Written(docs, part)
        /\ Goto("undo docs")
  /\ UNCHANGED <<lock, uvars, vecs, graph, joern, source, binding, attempt, old,
                 work, clean, deleting, failed, raced>>

SaveVectors ==
  /\ ipc = "vecs"
  /\ \/ /\ vecs' = Written(vecs, work)
        /\ Goto("joern")
        /\ UNCHANGED faults
     \/ /\ Fault
        /\ \E part \in SUBSET work : vecs' = Written(vecs, part)
        /\ Goto("undo docs")
  /\ UNCHANGED <<lock, uvars, docs, graph, joern, source, binding, attempt, old,
                 work, clean, deleting, failed, raced>>

Projects(chunks) == {<<attempt, LangOf[c]>> : c \in chunks}

(* One project per language of the chunks, imported one after the other,   *)
(* then the call sites are exported.                                       *)
ImportJoern ==
  /\ ipc = "joern"
  /\ \/ /\ joern' = joern \cup Projects(work)
        /\ Goto("graph")
        /\ UNCHANGED faults
     \/ /\ Fault
        /\ \E part \in SUBSET Projects(work) : joern' = joern \cup part
        /\ Goto("undo docs")
  /\ UNCHANGED <<lock, uvars, docs, vecs, graph, source, binding, attempt, old,
                 work, clean, deleting, failed, raced>>

SaveGraphAtOnce ==
  /\ ipc = "graph"
  /\ graph' = [graph EXCEPT ![attempt] = "partial"]
  /\ Goto("bind")
  /\ UNCHANGED <<lock, uvars, docs, vecs, joern, source, binding, attempt, old,
                 work, clean, faults, deleting, failed, raced>>

(* save_snapshot: files and symbols in one query, relations, the Spring    *)
(* model and the batches of call sites in the following ones.              *)
SaveGraph ==
  /\ ipc = "graph"
  /\ \/ /\ graph' = [graph EXCEPT ![attempt] = "partial"]
        /\ Goto("graph rest")
        /\ UNCHANGED faults
     \/ /\ Fault
        /\ Goto("undo docs")
        /\ UNCHANGED graph
  /\ UNCHANGED <<lock, uvars, docs, vecs, joern, source, binding, attempt, old,
                 work, clean, deleting, failed, raced>>

SaveRelations ==
  /\ ipc = "graph rest"
  /\ \/ /\ graph' = [graph EXCEPT ![attempt] = "whole"]
        /\ Goto("bind")
        /\ UNCHANGED faults
     \/ /\ Fault
        /\ Goto("undo docs")
        /\ UNCHANGED graph
  /\ UNCHANGED <<lock, uvars, docs, vecs, joern, source, binding, attempt, old,
                 work, clean, deleting, failed, raced>>

(* bind() reads the snapshot's row and inserts the binding; the read opens *)
(* no transaction.  A missing row raises, as a cancellation before it does.*)
BindCheck ==
  /\ ipc = "bind"
  /\ \/ /\ source[attempt] # NoSource
        /\ Goto("bound?")
        /\ raced' = IF deleting = attempt THEN raced \cup {attempt} ELSE raced
        /\ UNCHANGED faults
     \/ /\ source[attempt] = NoSource
        /\ Goto("undo docs")
        /\ UNCHANGED <<faults, raced>>
     \/ /\ Fault
        /\ Goto("undo docs")
        /\ UNCHANGED raced
  /\ UNCHANGED <<lock, uvars, stores, attempt, old, work, clean, deleting,
                 failed>>

BindInsert ==
  /\ ipc = "bound?"
  /\ binding' = [binding EXCEPT ![attempt] = "active"]
  /\ Goto("old docs")
  /\ work' = {}
  /\ UNCHANGED <<lock, uvars, docs, vecs, graph, joern, source, attempt, old,
                 clean, faults, deleting, failed, raced>>

-----------------------------------------------------------------------------
(* The rollback: each call in a try of its own, a failure is logged.       *)

Erased(store, runs) == [c \in Chunks |-> IF store[c] \in runs THEN 0 ELSE store[c]]

UndoDocs ==
  /\ ipc = "undo docs"
  /\ Goto("undo vecs")
  /\ \/ /\ docs' = Erased(docs, {attempt})
        /\ UNCHANGED <<clean, faults>>
     \/ Fault /\ clean' = FALSE /\ UNCHANGED docs
  /\ UNCHANGED <<lock, uvars, vecs, graph, joern, source, binding, attempt, old,
                 work, deleting, failed, raced>>

UndoVectors ==
  /\ ipc = "undo vecs"
  /\ Goto("undo graph")
  /\ \/ /\ vecs' = Erased(vecs, {attempt})
        /\ UNCHANGED <<clean, faults>>
     \/ Fault /\ clean' = FALSE /\ UNCHANGED vecs
  /\ UNCHANGED <<lock, uvars, docs, graph, joern, source, binding, attempt, old,
                 work, deleting, failed, raced>>

UndoGraph ==
  /\ ipc = "undo graph"
  /\ Goto("undo joern")
  /\ \/ /\ graph' = [graph EXCEPT ![attempt] = "absent"]
        /\ UNCHANGED <<clean, faults>>
     \/ Fault /\ clean' = FALSE /\ UNCHANGED graph
  /\ UNCHANGED <<lock, uvars, docs, vecs, joern, source, binding, attempt, old,
                 work, deleting, failed, raced>>

FirstProjectOf(a) == {<<a, CHOOSE l \in Langs : TRUE>>}

ProjectsOf(a) == {<<a, l>> : l \in Langs}

UndoJoern ==
  /\ ipc = "undo joern"
  /\ EndAttempt
  /\ \/ /\ joern' = joern \ ProjectsOf(attempt)
        /\ failed' = IF clean THEN failed \cup {attempt} ELSE failed
        /\ UNCHANGED faults
     \/ Fault /\ UNCHANGED <<joern, failed>>
  /\ UNCHANGED <<uvars, docs, vecs, graph, source, binding, attempt, deleting, raced>>

-----------------------------------------------------------------------------
(* The clean-up after the bind.  A cancellation by the progress call or a  *)
(* failure of the first two deletions raises; the bind stays.              *)

Others == {a \in 1 .. MaxAttempts : a # attempt}

CleanUpFails ==
  /\ ipc \in {"old docs", "old vecs"}
  /\ Fault
  /\ EndAttempt
  /\ UNCHANGED <<uvars, stores, attempt, deleting, failed, raced>>

DeleteOldDocs ==
  /\ ipc = "old docs"
  /\ docs' = Erased(docs, Others)
  /\ Goto("old vecs")
  /\ UNCHANGED <<lock, uvars, vecs, graph, joern, source, binding, attempt, old,
                 work, clean, faults, deleting, failed, raced>>

DeleteOldVectors ==
  /\ ipc = "old vecs"
  /\ vecs' = Erased(vecs, Others)
  /\ Goto("old graph")
  /\ UNCHANGED <<lock, uvars, docs, graph, joern, source, binding, attempt, old,
                 work, clean, faults, deleting, failed, raced>>

DeleteOldGraph ==
  /\ ipc = "old graph"
  /\ Goto("old joern")
  /\ \/ /\ graph' = [a \in Attempts |-> IF a \in Others THEN "absent" ELSE graph[a]]
        /\ UNCHANGED <<clean, faults>>
     \/ Fault /\ clean' = FALSE /\ UNCHANGED graph
  /\ UNCHANGED <<lock, uvars, docs, vecs, joern, source, binding, attempt, old,
                 work, deleting, failed, raced>>

DeleteOldJoern(a) ==
  /\ ipc = "old joern"
  /\ a \in old
  /\ old' = old \ {a}
  /\ \/ /\ joern' = joern \ ProjectsOf(a)
        /\ UNCHANGED <<clean, faults>>
     \/ Fault /\ clean' = FALSE /\ UNCHANGED joern
  /\ UNCHANGED <<lock, uvars, docs, vecs, graph, source, binding, ipc, attempt,
                 work, deleting, failed, raced>>

OldJoernDone ==
  /\ ipc = "old joern"
  /\ old = {}
  /\ Goto("retire")
  /\ UNCHANGED <<lock, uvars, stores, attempt, old, work, clean, faults,
                 deleting, failed, raced>>

RetireBlind ==
  [a \in Attempts |-> IF a \in Others /\ binding[a] = "active"
                      THEN "retired" ELSE binding[a]]

(* retire_old_bindings, only when every optional store could be cleaned.   *)
RetireBindings ==
  IF clean
  THEN [a \in Attempts |-> IF a \in Others /\ binding[a] = "active"
                           THEN "retired" ELSE binding[a]]
  ELSE binding

Retire ==
  /\ ipc = "retire"
  /\ binding' = RetireBindings
  /\ EndAttempt
  /\ UNCHANGED <<uvars, docs, vecs, graph, joern, source, attempt, faults,
                 deleting, failed, raced>>

-----------------------------------------------------------------------------
(* delete_unbound_snapshot, a request of its own that takes no lock: the   *)
(* reads open no transaction, the two deletions are one.  The request      *)
(* chooses the age (older_than_hours, 0 too), so any snapshot is old       *)
(* enough, the one of the attempt under way included.                      *)

DeleteCheckBlind(a) ==
  /\ deleting = 0
  /\ source[a] # NoSource
  /\ deleting' = a
  /\ raced' = IF ipc = "bound?" /\ a = attempt THEN raced \cup {a} ELSE raced
  /\ UNCHANGED <<lock, uvars, stores, ipc, attempt, old, work, clean, faults,
                 failed>>

DeleteCheck(a) ==
  /\ deleting = 0
  /\ source[a] # NoSource
  /\ binding[a] = "none"
  /\ deleting' = a
  /\ raced' = IF ipc = "bound?" /\ a = attempt THEN raced \cup {a} ELSE raced
  /\ UNCHANGED <<lock, uvars, stores, ipc, attempt, old, work, clean, faults,
                 failed>>

DeleteSnapshot ==
  /\ deleting # 0
  /\ source' = [source EXCEPT ![deleting] = NoSource]
  /\ deleting' = 0
  /\ UNCHANGED <<lock, uvars, docs, vecs, graph, joern, binding, ipc, attempt,
                 old, work, clean, faults, failed, raced>>

(* The process dies; the stores stay as they are.                          *)
Crash ==
  /\ ipc # "idle" \/ upc # "idle"
  /\ Fault
  /\ EndAttempt
  /\ UploadLost
  /\ deleting' = 0
  /\ UNCHANGED <<stores, attempt, failed, raced>>

IndexStep ==
  \/ StartAttempt \/ Abort \/ Capture \/ Parse \/ Embed
  \/ SaveDocs \/ SaveVectors \/ ImportJoern \/ SaveGraph \/ SaveRelations
  \/ BindCheck \/ BindInsert
  \/ UndoDocs \/ UndoVectors \/ UndoGraph \/ UndoJoern
  \/ CleanUpFails \/ DeleteOldDocs \/ DeleteOldVectors \/ DeleteOldGraph
  \/ \E a \in Attempts : DeleteOldJoern(a)
  \/ OldJoernDone \/ Retire

Next ==
  \/ IndexStep
  \/ UploadStep /\ UNCHANGED cvars
  \/ \E a \in Attempts : DeleteCheck(a)
  \/ DeleteSnapshot
  \/ Crash

Spec == Init /\ [][Next]_vars

-----------------------------------------------------------------------------

Stored(a) ==
  \A c \in source[a] : docs[c] = a /\ vecs[c] = a

(* BoundRunIsWhole: a run that was just bound is complete in every store:  *)
(* all its chunks in OpenSearch and Qdrant under its own run id, its graph *)
(* with the relations, a Joern project for each language; it stays so      *)
(* until the next attempt writes (index_service.py:113-176, "only after    *)
(* all the new data and the binding").                                     *)
BoundRunIsWhole ==
  \A a \in Active :
    \/ a < attempt - 1
    \/ a = attempt - 1 /\ ipc \notin {"capture", "parse", "embed"}
    \/ source[a] = NoSource
    \/ /\ Stored(a)
       /\ graph[a] = "whole"
       /\ \A c \in source[a] : <<a, LangOf[c]>> \in joern

(* RolledBackClean: an attempt that failed, and none of whose rollback     *)
(* calls failed, has left nothing in any store, whatever ran after it      *)
(* (index_service.py:154-174).  It takes a failing call to have stopped    *)
(* when it raises.                                                         *)
RolledBackClean ==
  \A a \in failed :
    /\ \A c \in Chunks : docs[c] # a /\ vecs[c] # a
    /\ graph[a] = "absent" /\ binding[a] = "none"
    /\ \A l \in Langs : <<a, l>> \notin joern

(* RetiredIsGone: a run leaves the list of selectable runs only when none  *)
(* of its data is left in a store (index_service.py:190-214).              *)
RetiredIsGone ==
  \A a \in Attempts : binding[a] = "retired" =>
    /\ \A c \in Chunks : docs[c] # a /\ vecs[c] # a
    /\ graph[a] = "absent"
    /\ \A l \in Langs : <<a, l>> \notin joern

(* SourceLostOnlyInRace: a run that was bound, retired since or not, has   *)
(* lost its source snapshot only if its bind and the deletion of that      *)
(* snapshot were under way at the same time; a deletion that ended before  *)
(* the bind began makes the bind fail, and one that begins after it is     *)
(* refused (source_snapshot_store.py:198-243).                             *)
SourceLostOnlyInRace ==
  \A a \in Attempts : binding[a] # "none" /\ source[a] = NoSource => a \in raced

(* BoundSourceKept: no bound run loses its source snapshot, which is what  *)
(* the docstring of the deletion promises ("refused as soon as a binding   *)
(* appears", source_snapshot_store.py:217).  The race above breaks it.     *)
BoundSourceKept ==
  \A a \in Attempts : binding[a] # "none" => source[a] # NoSource

(* OldDataSurvives: as long as no attempt is under way, the data of the    *)
(* newest bound run are in the stores, an attempt that failed after it     *)
(* deleted none of them.                                                   *)
OldDataSurvives ==
  \A a \in Active :
    ipc = "idle" /\ source[a] # NoSource /\ (\A b \in Active : b <= a)
      => \A c \in source[a] : docs[c] # 0 /\ vecs[c] # 0
=============================================================================
