------------------------- MODULE IndexCommitProofs -------------------------
(***************************************************************************)
(* Proofs about index_repository and the replacement of an upload, for any *)
(* chunks, languages, uploads, attempts and failures.  CommitInv is the    *)
(* inductive invariant; what it says of an attempt under way is which of   *)
(* its writes, or of its deletions, have been done by the step it is at;   *)
(* Snapshots adds what a bind and a deletion of its snapshot know of each  *)
(* other.                                                                  *)
(***************************************************************************)
EXTENDS IndexCommit, TLAPS

Writing == {"capture", "parse", "embed", "docs", "vecs", "joern", "graph",
            "graph rest", "bind", "bound?"}
Undoing == {"undo docs", "undo vecs", "undo graph", "undo joern"}
Tidying == {"old docs", "old vecs", "old graph", "old joern", "retire"}

\* index_lock is held by whoever is under way; an attempt has a directory to read.
Exclusion ==
  /\ upc # "idle" => lock = "upload"
  /\ ipc # "idle" => lock = "index" /\ Exists(target)

\* The version held last is older than the one being uploaded until that is in
\* place, no upload to come has a backup, and while the target is not there the
\* version held last is in a backup.
Replacing ==
  /\ last <= upload
  /\ upc # "idle" => upload # 0
  /\ upc \in {"saving", "saved", "aside", "copying", "failed", "emptied"} => last < upload
  /\ upc = "placed" => last = upload /\ target = Whole(upload)
  /\ \A u \in Uploads : u > upload => backup[u] = NoDir
  /\ upc \in {"saving", "saved"} => backup[upload] = NoDir
  /\ upc \in {"aside", "copying", "failed", "emptied"} /\ last # 0 =>
       \E u \in Uploads : backup[u] = Whole(last)
  /\ LastUploadKept

\* What is under way is an attempt.
Started == ipc # "idle" => attempt # 0

\* Attempts to come have left no trace; the current one is not over before its end.
Bounds ==
  /\ \A c \in Chunks : docs[c] <= attempt /\ vecs[c] <= attempt
  /\ \A a \in Attempts : a > attempt =>
       /\ graph[a] = "absent" /\ binding[a] = "none" /\ source[a] = NoSource
       /\ \A l \in Langs : <<a, l>> \notin joern
  /\ \A a \in failed : a <= attempt /\ (ipc # "idle" => a # attempt)
  /\ \A a \in Attempts : binding[a] = "retired" => a < attempt
  /\ ipc \in Writing \union Undoing => binding[attempt] = "none"

\* What the attempt has written by the step it is at.
WrittenSoFar ==
  /\ ipc \in Writing \ {"capture", "parse"} => source[attempt] \in {work, NoSource}
  /\ ipc \in {"vecs", "joern", "graph", "graph rest", "bind", "bound?"} =>
       \A c \in work : docs[c] = attempt
  /\ ipc \in {"joern", "graph", "graph rest", "bind", "bound?"} =>
       \A c \in work : vecs[c] = attempt
  /\ ipc \in {"graph", "graph rest", "bind", "bound?"} =>
       \A c \in work : <<attempt, LangOf[c]>> \in joern
  /\ ipc \in {"bind", "bound?"} => graph[attempt] = "whole"

\* What the rollback has taken away by the step it is at.
Undone ==
  clean => /\ ipc \in {"undo vecs", "undo graph", "undo joern"} =>
                \A c \in Chunks : docs[c] # attempt
           /\ ipc \in {"undo graph", "undo joern"} => \A c \in Chunks : vecs[c] # attempt
           /\ ipc = "undo joern" => graph[attempt] = "absent"

\* What the clean-up has taken away, and which older runs it still has to visit.
TidiedUp ==
  /\ ipc \in (Writing \ {"capture"}) \union {"old docs", "old vecs", "old graph"} =>
       old = Active \ {attempt}
  /\ ipc \in {"old vecs", "old graph", "old joern", "retire"} =>
       \A c \in Chunks : docs[c] \in {0, attempt}
  /\ ipc \in {"old graph", "old joern", "retire"} =>
       \A c \in Chunks : vecs[c] \in {0, attempt}
  /\ ipc \in {"old joern", "retire"} /\ clean =>
       /\ \A a \in Attempts : a # attempt => graph[a] = "absent"
       /\ \A a \in Active : a = attempt \/ a \in old \/ \A l \in Langs : <<a, l>> \notin joern
  /\ ipc \in {"old joern", "retire"} => attempt \notin old
  /\ ipc = "retire" => old = {}

\* The part of RetiredIsGone that is about the stores.
RetiredHasNoData ==
  \A a \in Attempts : binding[a] = "retired" =>
    /\ \A c \in Chunks : docs[c] # a /\ vecs[c] # a
    /\ graph[a] = "absent"
    /\ \A l \in Langs : <<a, l>> \notin joern

CommitInv ==
  /\ TypeOK /\ Exclusion /\ Replacing /\ Started /\ Bounds
  /\ WrittenSoFar /\ Undone /\ TidiedUp
  /\ BoundRunIsWhole /\ RolledBackClean /\ RetiredHasNoData

\* A binding, or a source that is gone, that came between the two statements of the
\* other request, is that of a raced attempt.
Snapshots ==
  /\ deleting # 0 => binding[deleting] = "none" \/ deleting \in raced
  /\ deleting = attempt /\ ipc = "bound?" => attempt \in raced
  /\ ipc = "bound?" => source[attempt] # NoSource \/ attempt \in raced
  /\ SourceLostOnlyInRace

-----------------------------------------------------------------------------
(* A failing call, or one that did not fail, keeps the count in its bound. *)
LEMMA Faults ==
  ASSUME TypeOK, Fault \/ UNCHANGED faults
  PROVE  faults' \in 0 .. MaxFaults
  BY CommitAssumption DEF TypeOK, Fault

(* The current attempt is a number, and while it is under way one of Attempts. *)
LEMMA Current ==
  ASSUME TypeOK
  PROVE  /\ MaxAttempts \in Nat /\ MaxFaults \in Nat /\ attempt \in 0 .. MaxAttempts
         /\ Started /\ ipc # "idle" => attempt \in Attempts
  BY CommitAssumption DEF TypeOK, Started, Attempts

(* What the deletion of some runs makes of a store. *)
LEMMA ErasedStore ==
  ASSUME TypeOK, NEW store \in [Chunks -> 0 .. MaxAttempts], NEW runs
  PROVE  /\ Erased(store, runs) \in [Chunks -> 0 .. MaxAttempts]
         /\ \A c \in Chunks : /\ store[c] \in runs => Erased(store, runs)[c] = 0
                              /\ store[c] \notin runs => Erased(store, runs)[c] = store[c]
  BY Current DEF Erased

(* A bulk write of the chunks, whole or up to the failure. *)
LEMMA SavesDocs ==
  ASSUME TypeOK, Started, SaveDocs
  PROVE  /\ ipc = "docs" /\ attempt \in Attempts /\ faults' \in 0 .. MaxFaults
         /\ UNCHANGED <<lock, target, backup, upc, upload, last, vecs, graph, joern,
            source, binding, attempt, old, work, clean, deleting, failed, raced>>
         /\ docs' \in [Chunks -> 0 .. MaxAttempts]
         /\ \E part \in SUBSET work :
              /\ \A c \in part : docs'[c] = attempt
              /\ \A c \in Chunks \ part : docs'[c] = docs[c]
              /\ ipc' = "undo docs" \/ (part = work /\ ipc' = "vecs")
<1>1. ipc = "docs" /\ attempt \in Attempts /\ faults' \in 0 .. MaxFaults
  BY Current, Faults DEF SaveDocs
<1>2. PICK part \in SUBSET work : /\ docs' = Written(docs, part)
                                  /\ ipc' = "undo docs" \/ (part = work /\ ipc' = "vecs")
  BY DEF SaveDocs, Goto
<1>3. part \in SUBSET Chunks /\ docs \in [Chunks -> 0 .. MaxAttempts]
  BY DEF TypeOK
<1>4. UNCHANGED <<lock, target, backup, upc, upload, last, vecs, graph, joern,
       source, binding, attempt, old, work, clean, deleting, failed, raced>>
  BY DEF SaveDocs, uvars
<1>5. /\ docs' \in [Chunks -> 0 .. MaxAttempts]
      /\ \A c \in part : docs'[c] = attempt
      /\ \A c \in Chunks \ part : docs'[c] = docs[c]
  BY <1>2, <1>3, Current DEF Written
<1> QED
  BY <1>1, <1>2, <1>4, <1>5

(* A bulk write of the chunks, whole or up to the failure. *)
LEMMA SavesVectors ==
  ASSUME TypeOK, Started, SaveVectors
  PROVE  /\ ipc = "vecs" /\ attempt \in Attempts /\ faults' \in 0 .. MaxFaults
         /\ UNCHANGED <<lock, target, backup, upc, upload, last, docs, graph, joern,
            source, binding, attempt, old, work, clean, deleting, failed, raced>>
         /\ vecs' \in [Chunks -> 0 .. MaxAttempts]
         /\ \E part \in SUBSET work :
              /\ \A c \in part : vecs'[c] = attempt
              /\ \A c \in Chunks \ part : vecs'[c] = vecs[c]
              /\ ipc' = "undo docs" \/ (part = work /\ ipc' = "joern")
<1>1. ipc = "vecs" /\ attempt \in Attempts /\ faults' \in 0 .. MaxFaults
  BY Current, Faults DEF SaveVectors
<1>2. PICK part \in SUBSET work : /\ vecs' = Written(vecs, part)
                                  /\ ipc' = "undo docs" \/ (part = work /\ ipc' = "joern")
  BY DEF SaveVectors, Goto
<1>3. part \in SUBSET Chunks /\ vecs \in [Chunks -> 0 .. MaxAttempts]
  BY DEF TypeOK
<1>4. UNCHANGED <<lock, target, backup, upc, upload, last, docs, graph, joern,
       source, binding, attempt, old, work, clean, deleting, failed, raced>>
  BY DEF SaveVectors, uvars
<1>5. /\ vecs' \in [Chunks -> 0 .. MaxAttempts]
      /\ \A c \in part : vecs'[c] = attempt
      /\ \A c \in Chunks \ part : vecs'[c] = vecs[c]
  BY <1>2, <1>3, Current DEF Written
<1> QED
  BY <1>1, <1>2, <1>4, <1>5

(* The import of the projects, all of them or up to the failure. *)
LEMMA ImportsJoern ==
  ASSUME TypeOK, Started, ImportJoern
  PROVE  /\ ipc = "joern" /\ attempt \in Attempts /\ faults' \in 0 .. MaxFaults
         /\ UNCHANGED <<lock, target, backup, upc, upload, last, docs, vecs, graph,
            source, binding, attempt, old, work, clean, deleting, failed, raced>>
         /\ joern' \subseteq Attempts \X Langs /\ joern \subseteq joern'
         /\ \A a \in Attempts, l \in Langs : <<a, l>> \in joern' => a = attempt \/
            <<a, l>> \in joern
         /\ \/ ipc' = "undo docs"
            \/ ipc' = "graph" /\ \A c \in work : <<attempt, LangOf[c]>> \in joern'
<1>1. ipc = "joern" /\ attempt \in Attempts /\ faults' \in 0 .. MaxFaults
  BY Current, Faults DEF ImportJoern
<1>2. Projects(work) \subseteq {attempt} \X Langs
  BY CommitAssumption DEF Projects, TypeOK
<1>3. PICK part \in SUBSET Projects(work) :
        /\ joern' = joern \cup part
        /\ ipc' = "undo docs" \/ (part = Projects(work) /\ ipc' = "graph")
  BY DEF ImportJoern, Goto
<1>4. UNCHANGED <<lock, target, backup, upc, upload, last, docs, vecs, graph,
       source, binding, attempt, old, work, clean, deleting, failed, raced>>
  BY DEF ImportJoern, uvars
<1>5. \A c \in work : <<attempt, LangOf[c]>> \in Projects(work)
  BY DEF Projects
<1>6. joern' \subseteq Attempts \X Langs
  BY <1>1, <1>2, <1>3 DEF TypeOK
<1>7. \A a \in Attempts, l \in Langs : <<a, l>> \in joern' => a = attempt \/ <<a, l>> \in joern
  BY <1>2, <1>3
<1> QED
  BY <1>1, <1>3, <1>4, <1>5, <1>6, <1>7

(* The two parts of save_snapshot. *)
LEMMA SavesGraph ==
  ASSUME TypeOK, Started, SaveGraph \/ SaveRelations
  PROVE  /\ ipc \in {"graph", "graph rest"} /\ attempt \in Attempts /\ faults' \in 0
           .. MaxFaults
         /\ UNCHANGED <<lock, target, backup, upc, upload, last, docs, vecs, joern,
            source, binding, attempt, old, work, clean, deleting, failed, raced>>
         /\ graph' \in [Attempts -> {"absent", "partial", "whole"}]
         /\ \A a \in Attempts : a # attempt => graph'[a] = graph[a]
         /\ \/ ipc' \in {"graph rest", "undo docs"}
            \/ ipc' = "bind" /\ graph'[attempt] = "whole"
<1>1. ipc \in {"graph", "graph rest"} /\ attempt \in Attempts /\ faults' \in 0 .. MaxFaults
  BY Current, Faults DEF SaveGraph, SaveRelations
<1>2. UNCHANGED <<lock, target, backup, upc, upload, last, docs, vecs, joern,
       source, binding, attempt, old, work, clean, deleting, failed, raced>>
  BY DEF SaveGraph, SaveRelations, uvars
<1>3. graph \in [Attempts -> {"absent", "partial", "whole"}]
  BY DEF TypeOK
<1>4. CASE SaveGraph
  BY <1>1, <1>2, <1>3, <1>4 DEF SaveGraph, Goto
<1>5. CASE SaveRelations
  BY <1>1, <1>2, <1>3, <1>5 DEF SaveRelations, Goto
<1> QED
  BY <1>4, <1>5

(* The deletion of a failed run's chunks, unless it fails too. *)
LEMMA UndoesDocs ==
  ASSUME TypeOK, Started, UndoDocs
  PROVE  /\ ipc = "undo docs" /\ ipc' = "undo vecs" /\ attempt \in Attempts
         /\ faults' \in 0 .. MaxFaults /\ clean' \in BOOLEAN /\ (clean' => clean)
         /\ UNCHANGED <<lock, target, backup, upc, upload, last, vecs, graph, joern,
            source, binding, attempt, old, work, deleting, failed, raced>>
         /\ docs' \in [Chunks -> 0 .. MaxAttempts]
         /\ \A c \in Chunks : docs'[c] = docs[c] \/ docs'[c] = 0
         /\ clean' => \A c \in Chunks : docs'[c] # attempt
<1>1. ipc = "undo docs" /\ ipc' = "undo vecs" /\ attempt \in Attempts /\ faults' \in 0 .. MaxFaults
  BY Current, Faults DEF UndoDocs, Goto
<1>2. UNCHANGED <<lock, target, backup, upc, upload, last, vecs, graph, joern,
       source, binding, attempt, old, work, deleting, failed, raced>>
  BY DEF UndoDocs, uvars
<1>3. docs \in [Chunks -> 0 .. MaxAttempts] /\ 0 \notin Attempts
  BY Current DEF TypeOK, Attempts
<1>4. CASE docs' = Erased(docs, {attempt}) /\ UNCHANGED clean
  <2>1. /\ docs' \in [Chunks -> 0 .. MaxAttempts]
        /\ \A c \in Chunks : /\ docs[c] = attempt => docs'[c] = 0
                             /\ docs[c] # attempt => docs'[c] = docs[c]
    BY <1>3, <1>4, ErasedStore
  <2>2. clean \in BOOLEAN
    BY DEF TypeOK
  <2>3. clean' \in BOOLEAN /\ (clean' => clean)
    BY <1>4, <2>2
  <2>4. /\ \A c \in Chunks : docs'[c] = docs[c] \/ docs'[c] = 0
        /\ \A c \in Chunks : docs'[c] # attempt
    BY <1>1, <1>3, <2>1
  <2> QED
    BY <1>1, <1>2, <2>1, <2>3, <2>4
<1>5. CASE clean' = FALSE /\ UNCHANGED docs
  BY <1>1, <1>2, <1>3, <1>5
<1> QED
  BY <1>4, <1>5 DEF UndoDocs

(* The deletion of a failed run's chunks, unless it fails too. *)
LEMMA UndoesVectors ==
  ASSUME TypeOK, Started, UndoVectors
  PROVE  /\ ipc = "undo vecs" /\ ipc' = "undo graph" /\ attempt \in Attempts
         /\ faults' \in 0 .. MaxFaults /\ clean' \in BOOLEAN /\ (clean' => clean)
         /\ UNCHANGED <<lock, target, backup, upc, upload, last, docs, graph, joern,
            source, binding, attempt, old, work, deleting, failed, raced>>
         /\ vecs' \in [Chunks -> 0 .. MaxAttempts]
         /\ \A c \in Chunks : vecs'[c] = vecs[c] \/ vecs'[c] = 0
         /\ clean' => \A c \in Chunks : vecs'[c] # attempt
<1>1. ipc = "undo vecs" /\ ipc' = "undo graph" /\ attempt \in Attempts /\ faults' \in 0 .. MaxFaults
  BY Current, Faults DEF UndoVectors, Goto
<1>2. UNCHANGED <<lock, target, backup, upc, upload, last, docs, graph, joern,
       source, binding, attempt, old, work, deleting, failed, raced>>
  BY DEF UndoVectors, uvars
<1>3. vecs \in [Chunks -> 0 .. MaxAttempts] /\ 0 \notin Attempts
  BY Current DEF TypeOK, Attempts
<1>4. CASE vecs' = Erased(vecs, {attempt}) /\ UNCHANGED clean
  <2>1. /\ vecs' \in [Chunks -> 0 .. MaxAttempts]
        /\ \A c \in Chunks : /\ vecs[c] = attempt => vecs'[c] = 0
                             /\ vecs[c] # attempt => vecs'[c] = vecs[c]
    BY <1>3, <1>4, ErasedStore
  <2>2. clean \in BOOLEAN
    BY DEF TypeOK
  <2>3. clean' \in BOOLEAN /\ (clean' => clean)
    BY <1>4, <2>2
  <2>4. /\ \A c \in Chunks : vecs'[c] = vecs[c] \/ vecs'[c] = 0
        /\ \A c \in Chunks : vecs'[c] # attempt
    BY <1>1, <1>3, <2>1
  <2> QED
    BY <1>1, <1>2, <2>1, <2>3, <2>4
<1>5. CASE clean' = FALSE /\ UNCHANGED vecs
  BY <1>1, <1>2, <1>3, <1>5
<1> QED
  BY <1>4, <1>5 DEF UndoVectors

(* The deletion of a failed run's graph, unless it fails too. *)
LEMMA UndoesGraph ==
  ASSUME TypeOK, Started, UndoGraph
  PROVE  /\ ipc = "undo graph" /\ ipc' = "undo joern" /\ attempt \in Attempts
         /\ faults' \in 0 .. MaxFaults /\ clean' \in BOOLEAN /\ (clean' => clean)
         /\ UNCHANGED <<lock, target, backup, upc, upload, last, docs, vecs, joern,
            source, binding, attempt, old, work, deleting, failed, raced>>
         /\ graph' \in [Attempts -> {"absent", "partial", "whole"}]
         /\ \A a \in Attempts : graph'[a] = graph[a] \/ (a = attempt /\ graph'[a] =
            "absent")
         /\ clean' => graph'[attempt] = "absent"
<1>1. ipc = "undo graph" /\ ipc' = "undo joern" /\ attempt \in Attempts /\ faults' \in 0 .. MaxFaults
  BY Current, Faults DEF UndoGraph, Goto
<1>2. UNCHANGED <<lock, target, backup, upc, upload, last, docs, vecs, joern,
       source, binding, attempt, old, work, deleting, failed, raced>>
  BY DEF UndoGraph, uvars
<1>3. graph \in [Attempts -> {"absent", "partial", "whole"}] /\ clean \in BOOLEAN
  BY DEF TypeOK
<1>4. CASE graph' = [graph EXCEPT ![attempt] = "absent"] /\ UNCHANGED clean
  BY <1>1, <1>2, <1>3, <1>4
<1>5. CASE clean' = FALSE /\ UNCHANGED graph
  BY <1>1, <1>2, <1>3, <1>5
<1> QED
  BY <1>4, <1>5 DEF UndoGraph

(* The deletion of a failed run's projects, and the end of the attempt. *)
LEMMA UndoesJoern ==
  ASSUME TypeOK, Started, UndoJoern
  PROVE  /\ ipc = "undo joern" /\ ipc' = "idle" /\ attempt \in Attempts /\ lock' =
           "free"
         /\ work' = {} /\ old' = {} /\ clean' = TRUE /\ faults' \in 0 .. MaxFaults
         /\ UNCHANGED <<target, backup, upc, upload, last, docs, vecs, graph,
            source, binding, attempt, deleting, raced>>
         /\ joern' \subseteq joern /\ failed \subseteq failed' /\ failed' \subseteq
            failed \union {attempt}
         /\ attempt \in failed' \ failed =>
              clean /\ \A l \in Langs : <<attempt, l>> \notin joern'
<1>1. ipc = "undo joern" /\ attempt \in Attempts /\ faults' \in 0 .. MaxFaults
  BY Current, Faults DEF UndoJoern
<1>2. UNCHANGED <<target, backup, upc, upload, last, docs, vecs, graph, source,
       binding, attempt, deleting, raced>>
  BY DEF UndoJoern, uvars
<1>3. ipc' = "idle" /\ lock' = "free" /\ work' = {} /\ old' = {} /\ clean' = TRUE
  BY DEF UndoJoern, EndAttempt, Goto
<1>4. CASE /\ joern' = joern \ ProjectsOf(attempt)
           /\ failed' = IF clean THEN failed \cup {attempt} ELSE failed
  <2>1. \A l \in Langs : <<attempt, l>> \in ProjectsOf(attempt)
    BY DEF ProjectsOf
  <2> QED
    BY <1>1, <1>2, <1>3, <1>4, <2>1
<1>5. CASE UNCHANGED <<joern, failed>>
  BY <1>1, <1>2, <1>3, <1>5
<1> QED
  BY <1>4, <1>5 DEF UndoJoern

(* The deletion of every other run's chunks. *)
LEMMA DeletesDocs ==
  ASSUME TypeOK, Started, DeleteOldDocs
  PROVE  /\ ipc = "old docs" /\ ipc' = "old vecs" /\ attempt \in Attempts
         /\ UNCHANGED <<lock, target, backup, upc, upload, last, vecs, graph, joern,
            source, binding, attempt, old, work, clean, faults, deleting, failed, raced>>
         /\ docs' \in [Chunks -> 0 .. MaxAttempts]
         /\ \A c \in Chunks : /\ docs[c] = attempt => docs'[c] = attempt
                              /\ docs[c] # attempt => docs'[c] = 0
<1>1. ipc = "old docs" /\ ipc' = "old vecs" /\ attempt \in Attempts
  BY Current DEF DeleteOldDocs, Goto
<1>2. UNCHANGED <<lock, target, backup, upc, upload, last, vecs, graph, joern,
       source, binding, attempt, old, work, clean, faults, deleting, failed, raced>>
  BY DEF DeleteOldDocs, uvars
<1>3. docs \in [Chunks -> 0 .. MaxAttempts] /\ docs' = Erased(docs, Others)
  BY DEF TypeOK, DeleteOldDocs
<1>4. \A c \in Chunks : docs[c] \in Others \/ docs[c] = attempt \/ docs[c] = 0
  BY <1>3, Current DEF Others
<1>5. attempt \notin Others /\ 0 \notin Others
  BY Current DEF Others
<1>6. /\ docs' \in [Chunks -> 0 .. MaxAttempts]
      /\ \A c \in Chunks : /\ docs[c] \in Others => docs'[c] = 0
                           /\ docs[c] \notin Others => docs'[c] = docs[c]
  BY <1>3, ErasedStore
<1>7. \A c \in Chunks : /\ docs[c] = attempt => docs'[c] = attempt
                        /\ docs[c] # attempt => docs'[c] = 0
  BY <1>4, <1>5, <1>6
<1> QED
  BY <1>1, <1>2, <1>6, <1>7

(* The deletion of every other run's chunks. *)
LEMMA DeletesVectors ==
  ASSUME TypeOK, Started, DeleteOldVectors
  PROVE  /\ ipc = "old vecs" /\ ipc' = "old graph" /\ attempt \in Attempts
         /\ UNCHANGED <<lock, target, backup, upc, upload, last, docs, graph, joern,
            source, binding, attempt, old, work, clean, faults, deleting, failed, raced>>
         /\ vecs' \in [Chunks -> 0 .. MaxAttempts]
         /\ \A c \in Chunks : /\ vecs[c] = attempt => vecs'[c] = attempt
                              /\ vecs[c] # attempt => vecs'[c] = 0
<1>1. ipc = "old vecs" /\ ipc' = "old graph" /\ attempt \in Attempts
  BY Current DEF DeleteOldVectors, Goto
<1>2. UNCHANGED <<lock, target, backup, upc, upload, last, docs, graph, joern,
       source, binding, attempt, old, work, clean, faults, deleting, failed, raced>>
  BY DEF DeleteOldVectors, uvars
<1>3. vecs \in [Chunks -> 0 .. MaxAttempts] /\ vecs' = Erased(vecs, Others)
  BY DEF TypeOK, DeleteOldVectors
<1>4. \A c \in Chunks : vecs[c] \in Others \/ vecs[c] = attempt \/ vecs[c] = 0
  BY <1>3, Current DEF Others
<1>5. attempt \notin Others /\ 0 \notin Others
  BY Current DEF Others
<1>6. /\ vecs' \in [Chunks -> 0 .. MaxAttempts]
      /\ \A c \in Chunks : /\ vecs[c] \in Others => vecs'[c] = 0
                           /\ vecs[c] \notin Others => vecs'[c] = vecs[c]
  BY <1>3, ErasedStore
<1>7. \A c \in Chunks : /\ vecs[c] = attempt => vecs'[c] = attempt
                        /\ vecs[c] # attempt => vecs'[c] = 0
  BY <1>4, <1>5, <1>6
<1> QED
  BY <1>1, <1>2, <1>6, <1>7

(* The deletion of every other run's graph, unless it fails. *)
LEMMA DeletesGraph ==
  ASSUME TypeOK, Started, DeleteOldGraph
  PROVE  /\ ipc = "old graph" /\ ipc' = "old joern" /\ attempt \in Attempts
         /\ faults' \in 0 .. MaxFaults /\ clean' \in BOOLEAN /\ (clean' => clean)
         /\ UNCHANGED <<lock, target, backup, upc, upload, last, docs, vecs, joern,
            source, binding, attempt, old, work, deleting, failed, raced>>
         /\ graph' \in [Attempts -> {"absent", "partial", "whole"}]
         /\ graph'[attempt] = graph[attempt]
         /\ \A a \in Attempts : graph'[a] \in {graph[a], "absent"}
         /\ clean' => \A a \in Attempts : a # attempt => graph'[a] = "absent"
<1>1. ipc = "old graph" /\ ipc' = "old joern" /\ attempt \in Attempts /\ faults' \in 0 .. MaxFaults
  BY Current, Faults DEF DeleteOldGraph, Goto
<1>2. UNCHANGED <<lock, target, backup, upc, upload, last, docs, vecs, joern,
       source, binding, attempt, old, work, deleting, failed, raced>>
  BY DEF DeleteOldGraph, uvars
<1>3. graph \in [Attempts -> {"absent", "partial", "whole"}] /\ clean \in BOOLEAN
  BY DEF TypeOK
<1>4. CASE /\ graph' = [a \in Attempts |-> IF a \in Others THEN "absent" ELSE graph[a]]
           /\ UNCHANGED clean
  <2>1. \A a \in Attempts : a \in Others <=> a # attempt
    BY DEF Others, Attempts
  <2> QED
    BY <1>1, <1>2, <1>3, <1>4, <2>1
<1>5. CASE clean' = FALSE /\ UNCHANGED graph
  BY <1>1, <1>2, <1>3, <1>5
<1> QED
  BY <1>4, <1>5 DEF DeleteOldGraph

(* The deletion of one older run's projects, unless it fails. *)
LEMMA DeletesJoern ==
  ASSUME TypeOK, Started, NEW a \in Attempts, DeleteOldJoern(a)
  PROVE  /\ ipc = "old joern" /\ attempt \in Attempts /\ a \in old
         /\ old' = old \ {a} /\ joern' \subseteq joern
         /\ faults' \in 0 .. MaxFaults /\ clean' \in BOOLEAN /\ (clean' => clean)
         /\ UNCHANGED <<lock, target, backup, upc, upload, last, docs, vecs, graph,
            source, binding, ipc, attempt, work, deleting, failed, raced>>
         /\ \A b \in Attempts, l \in Langs : b # a /\ <<b, l>> \in joern => <<b, l>>
            \in joern'
         /\ clean' => \A l \in Langs : <<a, l>> \notin joern'
<1>1. ipc = "old joern" /\ attempt \in Attempts /\ a \in old /\ faults' \in 0 .. MaxFaults
  BY Current, Faults DEF DeleteOldJoern
<1>2. old' = old \ {a} /\ UNCHANGED <<lock, target, backup, upc, upload, last, docs, vecs, graph,
       source, binding, ipc, attempt, work, deleting, failed, raced>>
  BY DEF DeleteOldJoern, uvars
<1>3. clean \in BOOLEAN
  BY DEF TypeOK
<1>4. CASE joern' = joern \ ProjectsOf(a) /\ UNCHANGED clean
  <2>1. /\ \A l \in Langs : <<a, l>> \in ProjectsOf(a)
        /\ \A b \in Attempts, l \in Langs : <<b, l>> \in ProjectsOf(a) => b = a
    BY DEF ProjectsOf
  <2> QED
    BY <1>1, <1>2, <1>3, <1>4, <2>1
<1>5. CASE clean' = FALSE /\ UNCHANGED joern
  BY <1>1, <1>2, <1>3, <1>5
<1> QED
  BY <1>4, <1>5 DEF DeleteOldJoern

(* What is under way is an attempt. *)
LEMMA Starting ==
  TypeOK /\ Started /\ [Next]_vars => Started'
<1> SUFFICES ASSUME TypeOK, Started, [Next]_vars PROVE Started'
  OBVIOUS
<1> USE DEF Started
<1>1. CASE UNCHANGED vars
  BY <1>1 DEF vars, uvars, cvars
<1>2. CASE IndexStep
  <2>1. CASE StartAttempt
    BY <2>1, Current, CommitAssumption
    DEF StartAttempt, Goto, TypeOK, uvars, stores
  <2>2. CASE Abort \/ Capture \/ Parse \/ Embed \/ BindCheck \/ BindInsert \/
             CleanUpFails \/ OldJoernDone \/ Retire
    BY <2>2, Current
    DEF Abort, EndAttempt, Goto, Capture, Active, Parse, Embed, BindCheck,
        Fault, BindInsert, CleanUpFails, OldJoernDone, Retire, RetireBindings,
        Others, uvars, stores
  <2>3. CASE SaveDocs
    BY <2>3, Current, SavesDocs
  <2>4. CASE SaveVectors
    BY <2>4, Current, SavesVectors
  <2>5. CASE ImportJoern
    BY <2>5, Current, ImportsJoern
  <2>6. CASE SaveGraph
    BY <2>6, Current, SavesGraph
  <2>7. CASE SaveRelations
    BY <2>7, Current, SavesGraph
  <2>8. CASE UndoDocs
    BY <2>8, Current, UndoesDocs
  <2>9. CASE UndoVectors
    BY <2>9, Current, UndoesVectors
  <2>10. CASE UndoGraph
    BY <2>10, Current, UndoesGraph
  <2>11. CASE UndoJoern
    BY <2>11, Current, UndoesJoern
  <2>12. CASE DeleteOldDocs
    BY <2>12, Current, DeletesDocs
  <2>13. CASE DeleteOldVectors
    BY <2>13, Current, DeletesVectors
  <2>14. CASE DeleteOldGraph
    BY <2>14, Current, DeletesGraph
  <2>15. CASE \E a \in Attempts : DeleteOldJoern(a)
    BY <2>15, Current, DeletesJoern
  <2> QED
    BY <1>2, <2>1, <2>2, <2>3, <2>4, <2>5, <2>6, <2>7, <2>8, <2>9, <2>10, <2>11,
       <2>12, <2>13, <2>14, <2>15
    DEF IndexStep
<1>3. CASE UploadStep /\ UNCHANGED cvars
  BY <1>3 DEF cvars
<1>4. ASSUME NEW a \in Attempts, DeleteCheck(a) PROVE Started'
  BY <1>4, Current DEF DeleteCheck, uvars, stores
<1>5. CASE DeleteSnapshot
  BY <1>5, Current DEF DeleteSnapshot, uvars, stores
<1>6. CASE Crash
  BY <1>6, Current DEF Crash, EndAttempt, UploadLost, Fault, Goto, uvars, stores
<1> QED
  BY <1>1, <1>2, <1>3, <1>4, <1>5, <1>6 DEF Next

(* Index and upload exclude each other. *)
LEMMA Excluding ==
  Exclusion /\ [Next]_vars => Exclusion'
<1> SUFFICES ASSUME Exclusion, [Next]_vars PROVE Exclusion'
  OBVIOUS
<1> USE DEF Exclusion
<1>1. CASE UNCHANGED vars
  BY <1>1 DEF vars, uvars, cvars
<1>2. CASE IndexStep
  <2>1. CASE StartAttempt \/ Abort \/ Capture \/ Parse \/ Embed \/ SaveDocs \/
             SaveVectors \/ ImportJoern \/ SaveGraph \/ SaveRelations \/ BindCheck
             \/ BindInsert \/ UndoDocs \/ UndoVectors \/ UndoGraph \/ UndoJoern \/
             CleanUpFails \/ DeleteOldDocs \/ DeleteOldVectors \/ DeleteOldGraph \/
             (\E a \in Attempts : DeleteOldJoern(a)) \/ OldJoernDone \/ Retire
    BY <2>1
    DEF StartAttempt, Goto, Abort, EndAttempt, Capture, Active, Parse, Embed,
        SaveDocs, Fault, Written, SaveVectors, ImportJoern, Projects, SaveGraph,
        SaveRelations, BindCheck, BindInsert, UndoDocs, Erased, UndoVectors,
        UndoGraph, UndoJoern, ProjectsOf, CleanUpFails, DeleteOldDocs, Others,
        DeleteOldVectors, DeleteOldGraph, DeleteOldJoern, OldJoernDone, Retire,
        RetireBindings, uvars, stores
  <2> QED
    BY <1>2, <2>1 DEF IndexStep
<1>3. CASE UploadStep /\ UNCHANGED cvars
  <2>1. CASE (\E replace \in BOOLEAN : Accept(replace)) \/ SaveFiles \/ RefuseUpload
             \/ SetAside \/ MoveIn \/ CopyInstead \/ CopyDone \/ PlaceFails \/
             EmptyTarget \/ PutBack \/ RepairFails \/ DropBackup
    BY <1>3, <2>1
    DEF Accept, SaveFiles, RefuseUpload, Leave, SetAside, MoveIn, CopyInstead,
        CopyDone, PlaceFails, EmptyTarget, PutBack, RepairFails, DropBackup,
        cvars
  <2> QED
    BY <1>3, <2>1 DEF UploadStep
<1>4. ASSUME NEW a \in Attempts, DeleteCheck(a) PROVE Exclusion'
  BY <1>4 DEF DeleteCheck, uvars, stores
<1>5. CASE DeleteSnapshot
  BY <1>5 DEF DeleteSnapshot, uvars, stores
<1>6. CASE Crash
  BY <1>6 DEF Crash, EndAttempt, UploadLost, Fault, Goto, uvars, stores
<1> QED
  BY <1>1, <1>2, <1>3, <1>4, <1>5, <1>6 DEF Next

(* Every variable of the upload keeps its type. *)
LEMMA UploadTyping ==
  UploadTypeOK /\ Replacing /\ [Next]_vars => UploadTypeOK'
<1> SUFFICES ASSUME UploadTypeOK, Replacing, [Next]_vars PROVE UploadTypeOK'
  OBVIOUS
<1> USE DEF UploadTypeOK, Dirs
<1>1. CASE UNCHANGED vars
  BY <1>1 DEF vars, uvars, cvars
<1>2. CASE IndexStep
  <2>1. CASE StartAttempt \/ Abort \/ Capture \/ Parse \/ Embed \/ SaveDocs \/
             SaveVectors \/ ImportJoern \/ SaveGraph \/ SaveRelations \/ BindCheck
             \/ BindInsert \/ UndoDocs \/ UndoVectors \/ UndoGraph \/ UndoJoern \/
             CleanUpFails \/ DeleteOldDocs \/ DeleteOldVectors \/ DeleteOldGraph \/
             (\E a \in Attempts : DeleteOldJoern(a)) \/ OldJoernDone \/ Retire
    BY <2>1
    DEF StartAttempt, Goto, Abort, EndAttempt, Capture, Active, Parse, Embed,
        SaveDocs, Fault, Written, SaveVectors, ImportJoern, Projects, SaveGraph,
        SaveRelations, BindCheck, BindInsert, UndoDocs, Erased, UndoVectors,
        UndoGraph, UndoJoern, ProjectsOf, CleanUpFails, DeleteOldDocs, Others,
        DeleteOldVectors, DeleteOldGraph, DeleteOldJoern, OldJoernDone, Retire,
        RetireBindings, uvars, stores
  <2> QED
    BY <1>2, <2>1 DEF IndexStep
<1>3. CASE UploadStep /\ UNCHANGED cvars
  <2>1. CASE \E replace \in BOOLEAN : Accept(replace)
    BY <1>3, <2>1, UploadAssumption DEF Accept, NoDir, Whole, Part, Uploads, cvars
  <2>2. CASE SaveFiles \/ RefuseUpload \/ PlaceFails \/ RepairFails
    BY <1>3, <2>2, UploadAssumption
    DEF SaveFiles, NoDir, Whole, Part, Uploads, RefuseUpload, Leave, PlaceFails,
        RepairFails, cvars
  <2>3. CASE SetAside
    <3>1. upload \in Uploads
      BY <1>3, <2>3, UploadAssumption DEF SetAside, Replacing, Uploads
    <3> QED
      BY <1>3, <2>3, <3>1, UploadAssumption DEF SetAside, NoDir, cvars
  <2>4. CASE MoveIn
    BY <1>3, <2>4, UploadAssumption DEF MoveIn, NoDir, Whole, Part, Uploads, cvars
  <2>5. CASE CopyInstead
    BY <1>3, <2>5, UploadAssumption
    DEF CopyInstead, NoDir, Whole, Part, Uploads, cvars
  <2>6. CASE CopyDone
    BY <1>3, <2>6, UploadAssumption DEF CopyDone, NoDir, Whole, Part, Uploads, cvars
  <2>7. CASE EmptyTarget
    BY <1>3, <2>7, UploadAssumption
    DEF EmptyTarget, NoDir, Whole, Part, Uploads, cvars
  <2>8. CASE PutBack
    <3>1. upload \in Uploads
      BY <1>3, <2>8, UploadAssumption DEF PutBack, Replacing, Uploads
    <3> QED
      BY <1>3, <2>8, <3>1, UploadAssumption DEF PutBack, Leave, NoDir, cvars
  <2>9. CASE DropBackup
    <3>1. upload \in Uploads
      BY <1>3, <2>9, UploadAssumption DEF DropBackup, Replacing, Uploads
    <3>2. backup[upload] \in Dirs
      BY <3>1
    <3>3. NoDir \in Dirs /\ Part(backup[upload].version) \in Dirs
      BY <3>2, UploadAssumption DEF NoDir, Part
    <3>4. PICK d \in Dirs : backup' = [backup EXCEPT ![upload] = d]
      BY <1>3, <2>9, <3>2, <3>3 DEF DropBackup
    <3> QED
      BY <1>3, <2>9, <3>1, <3>4 DEF DropBackup, Leave, cvars
  <2> QED
    BY <1>3, <2>1, <2>2, <2>3, <2>4, <2>5, <2>6, <2>7, <2>8, <2>9 DEF UploadStep
<1>4. ASSUME NEW a \in Attempts, DeleteCheck(a) PROVE UploadTypeOK'
  BY <1>4 DEF DeleteCheck, uvars, stores
<1>5. CASE DeleteSnapshot
  BY <1>5 DEF DeleteSnapshot, uvars, stores
<1>6. CASE Crash
  BY <1>6 DEF Crash, EndAttempt, UploadLost, Fault, Goto, uvars, stores
<1> QED
  BY <1>1, <1>2, <1>3, <1>4, <1>5, <1>6 DEF Next

(* The version held last is not lost. *)
LEMMA Replaced ==
  UploadTypeOK /\ Exclusion /\ Replacing /\ [Next]_vars => Replacing'
<1> SUFFICES ASSUME UploadTypeOK, Exclusion, Replacing, [Next]_vars PROVE Replacing'
  OBVIOUS
<1> USE DEF UploadTypeOK, Replacing, LastUploadKept, Whole, Uploads
<1>1. CASE UNCHANGED vars
  BY <1>1 DEF vars, uvars, cvars
<1>2. CASE IndexStep
  <2>1. CASE StartAttempt \/ Abort \/ Capture \/ Parse \/ Embed \/ SaveDocs \/
             SaveVectors \/ ImportJoern \/ SaveGraph \/ SaveRelations \/ BindCheck
             \/ BindInsert \/ UndoDocs \/ UndoVectors \/ UndoGraph \/ UndoJoern \/
             CleanUpFails \/ DeleteOldDocs \/ DeleteOldVectors \/ DeleteOldGraph \/
             (\E a \in Attempts : DeleteOldJoern(a)) \/ OldJoernDone \/ Retire
    BY <2>1
    DEF StartAttempt, Goto, Abort, EndAttempt, Capture, Active, Parse, Embed,
        SaveDocs, Fault, Written, SaveVectors, ImportJoern, Projects, SaveGraph,
        SaveRelations, BindCheck, BindInsert, UndoDocs, Erased, UndoVectors,
        UndoGraph, UndoJoern, ProjectsOf, CleanUpFails, DeleteOldDocs, Others,
        DeleteOldVectors, DeleteOldGraph, DeleteOldJoern, OldJoernDone, Retire,
        RetireBindings, uvars, stores
  <2> QED
    BY <1>2, <2>1 DEF IndexStep
<1>3. CASE UploadStep /\ UNCHANGED cvars
  <2>1. CASE \E replace \in BOOLEAN : Accept(replace)
    <3>1. /\ upc = "idle" /\ upc' = "saving" /\ upload' = upload + 1 /\ upload < MaxUploads
          /\ UNCHANGED <<target, backup, last>>
      BY <1>3, <2>1 DEF Accept
    <3>2. upload' \in Uploads /\ last < upload' /\ last <= upload' /\ upload' # 0 /\ upload < upload'
      BY <3>1, UploadAssumption
    <3>3. backup'[upload'] = NoDir
      BY <3>1, <3>2
    <3>4. \A u \in Uploads : u > upload' => backup'[u] = NoDir
      BY <3>1, <3>2
    <3>5. LastUploadKept'
      BY <3>1
    <3>6. last' <= upload' /\ last' < upload'
      BY <3>1, <3>2
    <3>7. upc' = "saving"
      BY <3>1
    <3> QED
      BY <3>2, <3>3, <3>4, <3>5, <3>6, <3>7
  <2>2. CASE SaveFiles
    BY <1>3, <2>2, UploadAssumption DEF SaveFiles, cvars
  <2>3. CASE RefuseUpload
    BY <1>3, <2>3, UploadAssumption DEF RefuseUpload, Leave, cvars
  <2>4. CASE SetAside
    <3>1. /\ upc = "saved" /\ upc' = "aside" /\ target' = NoDir
          /\ backup' = [backup EXCEPT ![upload] = target] /\ UNCHANGED <<upload, last>>
      BY <1>3, <2>4 DEF SetAside
    <3>2. upload \in Uploads /\ backup[upload] = NoDir
      BY <3>1, UploadAssumption
    <3>3. last # 0 => \E u \in Uploads : backup'[u] = Whole(last)
      <4>1. CASE target = Whole(last)
        BY <3>1, <3>2, <4>1
      <4>2. ASSUME NEW u \in Uploads, backup[u] = Whole(last), last # 0
            PROVE  backup'[u] = Whole(last)
        <5>1. Whole(last).version = last /\ NoDir.version = 0
          BY DEF NoDir
        <5>2. u # upload
          BY <3>2, <4>2, <5>1
        <5> QED
          BY <3>1, <4>2, <5>2
      <4> QED
        BY <3>1, <4>1, <4>2
    <3>4. \A u \in Uploads : u > upload => backup'[u] = NoDir
      BY <3>1, <3>2
    <3> QED
      BY <3>1, <3>3, <3>4
  <2>5. CASE MoveIn
    BY <1>3, <2>5, UploadAssumption DEF MoveIn, cvars
  <2>6. CASE CopyInstead
    BY <1>3, <2>6, UploadAssumption DEF CopyInstead, Part, cvars
  <2>7. CASE CopyDone
    BY <1>3, <2>7, UploadAssumption DEF CopyDone, cvars
  <2>8. CASE PlaceFails
    BY <1>3, <2>8, UploadAssumption DEF PlaceFails, cvars
  <2>9. CASE EmptyTarget
    BY <1>3, <2>9, UploadAssumption DEF EmptyTarget, cvars
  <2>10. CASE PutBack
    <3>1. /\ upc = "emptied" /\ upc' = "idle" /\ target' = backup[upload]
          /\ backup' = [backup EXCEPT ![upload] = NoDir] /\ UNCHANGED <<upload, last>>
      BY <1>3, <2>10 DEF PutBack, Leave
    <3>2. upload \in Uploads
      BY <3>1, UploadAssumption
    <3>3. last # 0 => target' = Whole(last) \/ \E u \in Uploads : backup'[u] = Whole(last)
      BY <3>1, <3>2
    <3>4. \A u \in Uploads : u > upload => backup'[u] = NoDir
      BY <3>1, <3>2
    <3> QED
      BY <3>1, <3>3, <3>4
  <2>11. CASE RepairFails
    BY <1>3, <2>11, UploadAssumption DEF RepairFails, Leave, cvars
  <2>12. CASE DropBackup
    <3>1. /\ upc = "placed" /\ upc' = "idle" /\ UNCHANGED <<target, upload, last>>
          /\ \E d : backup' = [backup EXCEPT ![upload] = d]
      BY <1>3, <2>12 DEF DropBackup, Leave
    <3>2. upload \in Uploads /\ target' = Whole(last')
      BY <3>1, UploadAssumption
    <3>3. \A u \in Uploads : u > upload => backup'[u] = NoDir
      BY <3>1, <3>2
    <3> QED
      BY <3>1, <3>2, <3>3
  <2> QED
    BY <1>3, <2>1, <2>2, <2>3, <2>4, <2>5, <2>6, <2>7, <2>8, <2>9, <2>10, <2>11,
       <2>12
    DEF UploadStep
<1>4. ASSUME NEW a \in Attempts, DeleteCheck(a) PROVE Replacing'
  BY <1>4 DEF DeleteCheck, uvars, stores
<1>5. CASE DeleteSnapshot
  BY <1>5 DEF DeleteSnapshot, uvars, stores
<1>6. CASE Crash
  BY <1>6 DEF Crash, EndAttempt, UploadLost, Fault, Goto, uvars, stores
<1> QED
  BY <1>1, <1>2, <1>3, <1>4, <1>5, <1>6 DEF Next

(* Every variable keeps its type. *)
LEMMA Typing ==
  TypeOK /\ Exclusion /\ Started /\ Replacing /\ [Next]_vars => TypeOK'
<1> SUFFICES ASSUME TypeOK, Exclusion, Started, Replacing, [Next]_vars PROVE TypeOK'
  OBVIOUS
<1>0. UploadTypeOK'
  BY UploadTyping DEF TypeOK
<1> USE DEF TypeOK, Attempts
<1>1. CASE UNCHANGED vars
  BY <1>0, <1>1 DEF vars, cvars
<1>2. CASE IndexStep
  <2>1. CASE StartAttempt
    <3>1. attempt' \in 0 .. MaxAttempts
      BY <2>1, Current DEF StartAttempt
    <3> QED
      BY <1>0, <2>1, <3>1 DEF StartAttempt, Goto, Steps, stores
  <2>2. CASE Abort
    BY <1>0, <2>2, Current
    DEF Abort, EndAttempt, Goto, Steps, uvars, stores
  <2>3. CASE Capture
    <3>1. PICK seen : /\ seen \subseteq ChunksOf[target.version]
                      /\ source' = [source EXCEPT ![attempt] = seen]
      BY <2>3 DEF Capture
    <3>2. target.version \in Uploads /\ attempt \in Attempts
      BY <2>3, Current, UploadAssumption DEF Capture, Exclusion, Exists, UploadTypeOK, Dirs, Uploads
    <3>3. seen \subseteq Chunks
      BY <3>1, <3>2, CommitAssumption
    <3>4. source' \in [Attempts -> (SUBSET Chunks) \cup {NoSource}]
      BY <3>1, <3>2, <3>3
    <3> QED
      BY <1>0, <2>3, <3>4 DEF Capture, Goto, Active, Steps
  <2>4. CASE Parse
    BY <1>0, <2>4, Current DEF Parse, Goto, Steps, uvars, stores
  <2>5. CASE Embed
    BY <1>0, <2>5, Current DEF Embed, Goto, Steps, uvars, stores
  <2>6. CASE SaveDocs
    BY <1>0, <2>6, Current, SavesDocs DEF Steps
  <2>7. CASE SaveVectors
    BY <1>0, <2>7, Current, SavesVectors DEF Steps
  <2>8. CASE ImportJoern
    BY <1>0, <2>8, Current, ImportsJoern DEF Steps
  <2>9. CASE SaveGraph \/ SaveRelations
    BY <1>0, <2>9, Current, SavesGraph DEF Steps
  <2>10. CASE BindCheck
    <3>1. raced' \in {raced, raced \cup {attempt}} /\ attempt \in Attempts
      BY <2>10, Current DEF BindCheck
    <3>2. raced' \subseteq Attempts /\ faults' \in 0 .. MaxFaults
      BY <2>10, <3>1, Faults DEF BindCheck
    <3> QED
      BY <1>0, <2>10, <3>2 DEF BindCheck, Goto, Steps, stores
  <2>11. CASE BindInsert
    BY <1>0, <2>11, Current DEF BindInsert, Goto, Steps, uvars, stores
  <2>12. CASE UndoDocs
    BY <1>0, <2>12, Current, UndoesDocs DEF Steps
  <2>13. CASE UndoVectors
    BY <1>0, <2>13, Current, UndoesVectors DEF Steps
  <2>14. CASE UndoGraph
    BY <1>0, <2>14, Current, UndoesGraph DEF Steps
  <2>15. CASE UndoJoern
    BY <1>0, <2>15, Current, UndoesJoern DEF Steps
  <2>16. CASE CleanUpFails
    BY <1>0, <2>16, Current, Faults
    DEF CleanUpFails, EndAttempt, Goto, Fault, Steps, uvars, stores
  <2>17. CASE DeleteOldDocs
    BY <1>0, <2>17, Current, DeletesDocs DEF Steps
  <2>18. CASE DeleteOldVectors
    BY <1>0, <2>18, Current, DeletesVectors DEF Steps
  <2>19. CASE DeleteOldGraph
    BY <1>0, <2>19, Current, DeletesGraph DEF Steps
  <2>20. CASE \E a \in Attempts : DeleteOldJoern(a)
    BY <1>0, <2>20, Current, DeletesJoern DEF Steps
  <2>21. CASE OldJoernDone
    BY <1>0, <2>21, Current DEF OldJoernDone, Goto, Steps, uvars, stores
  <2>22. CASE Retire
    BY <1>0, <2>22, Current
    DEF Retire, EndAttempt, Goto, RetireBindings, Others, Steps, uvars, stores
  <2> QED
    BY <1>2, <2>1, <2>2, <2>3, <2>4, <2>5, <2>6, <2>7, <2>8, <2>9, <2>10, <2>11,
       <2>12, <2>13, <2>14, <2>15, <2>16, <2>17, <2>18, <2>19, <2>20, <2>21,
       <2>22
    DEF IndexStep
<1>3. CASE UploadStep /\ UNCHANGED cvars
  BY <1>0, <1>3 DEF cvars
<1>4. ASSUME NEW a \in Attempts, DeleteCheck(a) PROVE TypeOK'
  BY <1>0, <1>4, Current DEF DeleteCheck, uvars, stores
<1>5. CASE DeleteSnapshot
  BY <1>0, <1>5, Current DEF DeleteSnapshot, uvars, stores
<1>6. CASE Crash
  <2>1. faults' \in 0 .. MaxFaults
    BY <1>6, Faults DEF Crash
  <2>2. /\ ipc' = "idle" /\ work' = {} /\ old' = {} /\ deleting' = 0
        /\ UNCHANGED <<docs, vecs, graph, joern, source, binding, attempt, failed, raced>>
    BY <1>6 DEF Crash, EndAttempt, Goto, stores
  <2>3. clean' \in BOOLEAN
    BY <1>6 DEF Crash, EndAttempt
  <2>4. deleting' = 0 /\ 0 \in 0 .. MaxAttempts
    BY <2>2, CommitAssumption
  <2>5. ipc' \in Steps
    BY <2>2 DEF Steps
  <2> QED
    BY <1>0, <2>1, <2>2, <2>3, <2>4, <2>5
<1> QED
  BY <1>1, <1>2, <1>3, <1>4, <1>5, <1>6 DEF Next

(* What a step of the attempt under way may do to the stores: write under its own
   number, take away, and, once it is bound, retire others. *)
OwnWrites ==
  /\ ipc # "idle" /\ attempt' = attempt /\ attempt \in Attempts
  /\ \A c \in Chunks : docs'[c] \in {docs[c], attempt, 0} /\ vecs'[c] \in {vecs[c], attempt, 0}
  /\ \A a \in Attempts, l \in Langs : <<a, l>> \in joern' => a = attempt \/ <<a, l>> \in joern
  /\ \A a \in Attempts : a # attempt =>
       /\ graph'[a] \in {graph[a], "absent"} /\ source'[a] = source[a]
       /\ binding'[a] # binding[a] => binding[a] = "active" /\ binding'[a] = "retired"
  /\ binding'[attempt] # binding[attempt] => binding'[attempt] = "active" /\ ipc' = "old docs"
  /\ ipc' \in Writing \union Undoing => ipc \in Writing \union Undoing
  /\ failed' \subseteq failed \union {attempt} /\ (failed' # failed => ipc' = "idle")

(* Every step of an attempt but its start is such a step. *)
LEMMA WritesItsOwn ==
  ASSUME TypeOK, Started, IndexStep, ~StartAttempt
  PROVE  OwnWrites
<1> USE DEF Writing, Undoing
<1>0. CASE attempt \notin Attempts
  BY <1>0, Current DEF IndexStep, Abort, Capture, Parse, Embed, SaveDocs, SaveVectors,
     ImportJoern, SaveGraph, SaveRelations, BindCheck, BindInsert, UndoDocs, UndoVectors,
     UndoGraph, UndoJoern, CleanUpFails, DeleteOldDocs, DeleteOldVectors, DeleteOldGraph,
     DeleteOldJoern, OldJoernDone, Retire
<1> SUFFICES ASSUME attempt \in Attempts PROVE OwnWrites
  BY <1>0
<1>1. CASE Abort \/ Parse \/ Embed \/ BindCheck \/ CleanUpFails \/ OldJoernDone
  BY <1>1 DEF Abort, EndAttempt, Parse, Embed, BindCheck, CleanUpFails, OldJoernDone,
     Goto, OwnWrites, uvars, stores
<1>2. CASE Capture
  <2>1. /\ ipc = "capture" /\ ipc' = "parse"
        /\ UNCHANGED <<docs, vecs, graph, joern, binding, attempt, failed>>
        /\ \E seen : source' = [source EXCEPT ![attempt] = seen]
    BY <1>2 DEF Capture, Goto
  <2>2. \A a \in Attempts : a # attempt => source'[a] = source[a]
    BY <2>1 DEF TypeOK
  <2> QED
    BY <2>1, <2>2 DEF OwnWrites
<1>3. CASE BindInsert
  <2>1. /\ ipc = "bound?" /\ ipc' = "old docs"
        /\ UNCHANGED <<docs, vecs, graph, joern, source, attempt, failed>>
        /\ binding' = [binding EXCEPT ![attempt] = "active"]
    BY <1>3 DEF BindInsert, Goto
  <2>2. binding'[attempt] = "active" /\ \A a \in Attempts : a # attempt => binding'[a] = binding[a]
    BY <2>1 DEF TypeOK
  <2> QED
    BY <2>1, <2>2 DEF OwnWrites
<1>4. CASE Retire
  <2>1. /\ ipc = "retire" /\ ipc' = "idle"
        /\ UNCHANGED <<docs, vecs, graph, joern, source, attempt, failed>>
        /\ binding' = RetireBindings
    BY <1>4 DEF Retire, EndAttempt, Goto
  <2>2. \A a \in Attempts :
          \/ binding'[a] = binding[a]
          \/ a # attempt /\ binding[a] = "active" /\ binding'[a] = "retired"
    BY <2>1 DEF RetireBindings, Others, TypeOK
  <2> QED
    BY <2>1, <2>2 DEF OwnWrites
<1>5. CASE SaveDocs
  <2>1. /\ ipc = "docs"
        /\ UNCHANGED <<vecs, graph, joern, source, binding, attempt, failed>>
    BY <1>5, SavesDocs
  <2>2. \A c \in Chunks : docs'[c] \in {docs[c], attempt, 0}
    BY <1>5, SavesDocs
  <2> QED
    BY <2>1, <2>2 DEF OwnWrites
<1>6. CASE SaveVectors
  <2>1. /\ ipc = "vecs"
        /\ UNCHANGED <<docs, graph, joern, source, binding, attempt, failed>>
    BY <1>6, SavesVectors
  <2>2. \A c \in Chunks : vecs'[c] \in {vecs[c], attempt, 0}
    BY <1>6, SavesVectors
  <2> QED
    BY <2>1, <2>2 DEF OwnWrites
<1>7. CASE ImportJoern
  <2>1. /\ ipc = "joern"
        /\ UNCHANGED <<docs, vecs, graph, source, binding, attempt, failed>>
    BY <1>7, ImportsJoern
  <2>2. \A a \in Attempts, l \in Langs : <<a, l>> \in joern' => a = attempt \/ <<a, l>> \in joern
    BY <1>7, ImportsJoern
  <2> QED
    BY <2>1, <2>2 DEF OwnWrites
<1>8. CASE SaveGraph \/ SaveRelations
  <2>1. /\ ipc \in {"graph", "graph rest"}
        /\ UNCHANGED <<docs, vecs, joern, source, binding, attempt, failed>>
    BY <1>8, SavesGraph
  <2>2. \A a \in Attempts : a # attempt => graph'[a] \in {graph[a], "absent"}
    BY <1>8, SavesGraph
  <2> QED
    BY <2>1, <2>2 DEF OwnWrites
<1>9. CASE UndoDocs
  <2>1. /\ ipc = "undo docs"
        /\ UNCHANGED <<vecs, graph, joern, source, binding, attempt, failed>>
    BY <1>9, UndoesDocs
  <2>2. \A c \in Chunks : docs'[c] \in {docs[c], attempt, 0}
    BY <1>9, UndoesDocs
  <2> QED
    BY <2>1, <2>2 DEF OwnWrites
<1>10. CASE UndoVectors
  <2>1. /\ ipc = "undo vecs"
        /\ UNCHANGED <<docs, graph, joern, source, binding, attempt, failed>>
    BY <1>10, UndoesVectors
  <2>2. \A c \in Chunks : vecs'[c] \in {vecs[c], attempt, 0}
    BY <1>10, UndoesVectors
  <2> QED
    BY <2>1, <2>2 DEF OwnWrites
<1>11. CASE UndoGraph
  <2>1. /\ ipc = "undo graph"
        /\ UNCHANGED <<docs, vecs, joern, source, binding, attempt, failed>>
    BY <1>11, UndoesGraph
  <2>2. \A a \in Attempts : a # attempt => graph'[a] \in {graph[a], "absent"}
    BY <1>11, UndoesGraph
  <2> QED
    BY <2>1, <2>2 DEF OwnWrites
<1>12. CASE UndoJoern
  <2>1. /\ ipc = "undo joern" /\ ipc' = "idle" /\ failed' \subseteq failed \union {attempt}
        /\ UNCHANGED <<docs, vecs, graph, source, binding, attempt>>
    BY <1>12, UndoesJoern
  <2>2. \A a \in Attempts, l \in Langs : <<a, l>> \in joern' => a = attempt \/ <<a, l>> \in joern
    BY <1>12, UndoesJoern
  <2> QED
    BY <2>1, <2>2 DEF OwnWrites
<1>13. CASE DeleteOldDocs
  <2>1. /\ ipc = "old docs" /\ ipc' = "old vecs"
        /\ UNCHANGED <<vecs, graph, joern, source, binding, attempt, failed>>
    BY <1>13, DeletesDocs
  <2>2. \A c \in Chunks : docs'[c] \in {docs[c], attempt, 0}
    BY <1>13, DeletesDocs
  <2> QED
    BY <2>1, <2>2 DEF OwnWrites
<1>14. CASE DeleteOldVectors
  <2>1. /\ ipc = "old vecs" /\ ipc' = "old graph"
        /\ UNCHANGED <<docs, graph, joern, source, binding, attempt, failed>>
    BY <1>14, DeletesVectors
  <2>2. \A c \in Chunks : vecs'[c] \in {vecs[c], attempt, 0}
    BY <1>14, DeletesVectors
  <2> QED
    BY <2>1, <2>2 DEF OwnWrites
<1>15. CASE DeleteOldGraph
  <2>1. /\ ipc = "old graph" /\ ipc' = "old joern"
        /\ UNCHANGED <<docs, vecs, joern, source, binding, attempt, failed>>
    BY <1>15, DeletesGraph
  <2>2. \A a \in Attempts : a # attempt => graph'[a] \in {graph[a], "absent"}
    BY <1>15, DeletesGraph
  <2> QED
    BY <2>1, <2>2 DEF OwnWrites
<1>16. ASSUME NEW a \in Attempts, DeleteOldJoern(a) PROVE OwnWrites
  <2>1. /\ ipc = "old joern" /\ ipc' = ipc /\ joern' \subseteq joern
        /\ UNCHANGED <<docs, vecs, graph, source, binding, attempt, failed>>
    BY <1>16, DeletesJoern
  <2> QED
    BY <2>1 DEF OwnWrites
<1> QED
  BY <1>1, <1>2, <1>3, <1>4, <1>5, <1>6, <1>7, <1>8, <1>9, <1>10, <1>11, <1>12,
     <1>13, <1>14, <1>15, <1>16
  DEF IndexStep

(* The other steps leave the stores and the attempts alone; they may take a snapshot
   away, and the death of the process ends the attempt. *)
LEMMA Elsewhere ==
  ASSUME TypeOK, [Next]_vars, ~IndexStep
  PROVE  /\ UNCHANGED <<docs, vecs, graph, joern, binding, attempt, failed>>
         /\ ipc' = "idle" \/ UNCHANGED <<ipc, old, work, clean>>
         /\ \A a \in Attempts : source'[a] \in {source[a], NoSource}
<1>1. CASE UNCHANGED vars
  BY <1>1 DEF vars, cvars
<1>2. CASE UploadStep /\ UNCHANGED cvars
  BY <1>2 DEF cvars
<1>3. ASSUME NEW a \in Attempts, DeleteCheck(a)
      PROVE  UNCHANGED <<docs, vecs, graph, joern, binding, attempt, failed, ipc, old, work,
                         clean, source>>
  BY <1>3 DEF DeleteCheck, stores
<1>4. CASE DeleteSnapshot
  BY <1>4 DEF DeleteSnapshot, TypeOK
<1>5. CASE Crash
  BY <1>5 DEF Crash, EndAttempt, Goto, stores
<1> QED
  BY <1>1, <1>2, <1>3, <1>4, <1>5 DEF Next

(* Attempts to come have left no trace, and the current one is not over yet. *)
LEMMA Bounding ==
  TypeOK /\ Started /\ Bounds /\ [Next]_vars => Bounds'
<1> SUFFICES ASSUME TypeOK, Started, Bounds, [Next]_vars PROVE Bounds'
  OBVIOUS
<1>1. CASE StartAttempt
  <2>1. /\ ipc = "idle" /\ ipc' = "capture" /\ attempt' = attempt + 1 /\ attempt' \in Attempts
        /\ UNCHANGED <<docs, vecs, graph, joern, source, binding, failed>>
    BY <1>1, Current DEF StartAttempt, Goto, stores, Attempts
  <2>2. /\ docs \in [Chunks -> Nat] /\ vecs \in [Chunks -> Nat] /\ attempt \in Nat
        /\ failed \subseteq Nat /\ Attempts \subseteq Nat
    BY Current DEF TypeOK, Attempts
  <2> QED
    BY <2>1, <2>2 DEF Bounds, Writing, Undoing
<1>2. CASE IndexStep /\ ~StartAttempt
  <2>1. OwnWrites
    BY <1>2, WritesItsOwn
  <2>2. /\ docs \in [Chunks -> Nat] /\ vecs \in [Chunks -> Nat] /\ attempt \in Nat
        /\ failed \subseteq Nat /\ Attempts \subseteq Nat
    BY Current DEF TypeOK, Attempts
  <2>3. attempt' = attempt /\ attempt \in Attempts /\ ipc # "idle"
    BY <2>1 DEF OwnWrites
  <2>4. \A c \in Chunks : docs'[c] <= attempt' /\ vecs'[c] <= attempt'
    <3>1. \A c \in Chunks : docs'[c] \in {docs[c], attempt, 0} /\ vecs'[c] \in {vecs[c], attempt, 0}
      BY <2>1 DEF OwnWrites
    <3>2. \A c \in Chunks : docs[c] <= attempt /\ vecs[c] <= attempt
      BY DEF Bounds
    <3> QED
      BY <2>2, <2>3, <3>1, <3>2
  <2>5. ASSUME NEW a \in Attempts, a > attempt'
        PROVE  /\ graph'[a] = "absent" /\ binding'[a] = "none" /\ source'[a] = NoSource
               /\ \A l \in Langs : <<a, l>> \notin joern'
    <3>1. a # attempt /\ a > attempt
      BY <2>2, <2>5, <2>3
    <3>2. /\ graph'[a] \in {graph[a], "absent"} /\ source'[a] = source[a]
          /\ binding'[a] # binding[a] => binding[a] = "active"
          /\ \A l \in Langs : <<a, l>> \in joern' => <<a, l>> \in joern
      BY <2>1, <3>1 DEF OwnWrites
    <3>3. /\ graph[a] = "absent" /\ binding[a] = "none" /\ source[a] = NoSource
          /\ \A l \in Langs : <<a, l>> \notin joern
      BY <3>1 DEF Bounds
    <3> QED
      BY <3>2, <3>3
  <2>6. \A a \in failed' : a <= attempt' /\ (ipc' # "idle" => a # attempt')
    <3>1. failed' \subseteq failed \union {attempt} /\ (failed' # failed => ipc' = "idle")
      BY <2>1 DEF OwnWrites
    <3>2. \A a \in failed : a <= attempt /\ a # attempt
      BY <2>3 DEF Bounds
    <3> QED
      BY <2>2, <2>3, <3>1, <3>2
  <2>7. \A a \in Attempts : binding'[a] = "retired" => a < attempt'
    <3>1. \A a \in Attempts : a # attempt /\ binding'[a] # binding[a] => binding[a] = "active"
      BY <2>1 DEF OwnWrites
    <3>2. binding'[attempt] # binding[attempt] => binding'[attempt] = "active"
      BY <2>1 DEF OwnWrites
    <3>3. /\ \A a \in Attempts : binding[a] = "retired" => a < attempt
          /\ \A a \in Attempts : binding[a] = "active" => a <= attempt
      BY <2>2 DEF Bounds
    <3> QED
      BY <2>2, <2>3, <3>1, <3>2, <3>3
  <2>8. ipc' \in Writing \union Undoing => binding'[attempt'] = "none"
    BY <2>1 DEF OwnWrites, Bounds, Writing, Undoing
  <2> QED
    BY <2>4, <2>5, <2>6, <2>7, <2>8 DEF Bounds
<1>3. CASE ~IndexStep
  BY <1>3, Elsewhere DEF Bounds, Writing, Undoing
<1> QED
  BY <1>1, <1>2, <1>3

(* A run that was rolled back without a failure leaves nothing: later attempts write
   under numbers of their own. *)
LEMMA RolledBackStaysClean ==
  TypeOK /\ Started /\ Bounds /\ Undone /\ RolledBackClean /\ [Next]_vars => RolledBackClean'
<1> SUFFICES ASSUME TypeOK, Started, Bounds, Undone, RolledBackClean, [Next]_vars
             PROVE  RolledBackClean'
  OBVIOUS
<1>1. failed \subseteq Attempts /\ 0 \notin Attempts
  BY DEF TypeOK, Attempts
<1>2. CASE StartAttempt
  BY <1>2 DEF StartAttempt, stores, RolledBackClean
<1>3. CASE IndexStep /\ ~StartAttempt
  <2>1. OwnWrites
    BY <1>3, WritesItsOwn
  <2>2. ASSUME NEW a \in failed
        PROVE  /\ \A c \in Chunks : docs'[c] # a /\ vecs'[c] # a
               /\ graph'[a] = "absent" /\ binding'[a] = "none"
               /\ \A l \in Langs : <<a, l>> \notin joern'
    <3>1. a \in Attempts /\ a # attempt /\ a # 0
      BY <1>1, <2>1 DEF OwnWrites, Bounds
    <3>2. /\ \A c \in Chunks : docs'[c] \in {docs[c], attempt, 0} /\ vecs'[c] \in {vecs[c], attempt, 0}
          /\ graph'[a] \in {graph[a], "absent"}
          /\ binding'[a] # binding[a] => binding[a] = "active"
          /\ \A l \in Langs : <<a, l>> \in joern' => <<a, l>> \in joern
      BY <2>1, <3>1 DEF OwnWrites
    <3> QED
      BY <3>1, <3>2 DEF RolledBackClean
  <2>3. CASE UndoJoern
    <3>1. /\ ipc = "undo joern" /\ attempt \in Attempts /\ UNCHANGED <<docs, vecs, graph, binding>>
          /\ failed' \subseteq failed \union {attempt}
          /\ attempt \in failed' \ failed =>
               clean /\ \A l \in Langs : <<attempt, l>> \notin joern'
      BY <2>3, UndoesJoern
    <3>2. attempt \in failed' \ failed =>
            /\ \A c \in Chunks : docs'[c] # attempt /\ vecs'[c] # attempt
            /\ graph'[attempt] = "absent" /\ binding'[attempt] = "none"
            /\ \A l \in Langs : <<attempt, l>> \notin joern'
      BY <3>1 DEF Undone, Bounds, Undoing
    <3> QED
      BY <2>2, <3>1, <3>2 DEF RolledBackClean
  <2>4. CASE ~UndoJoern
    <3>1. failed' = failed
      BY <1>3, <2>4 DEF IndexStep, Abort, Capture, Parse, Embed, SaveDocs, SaveVectors,
         ImportJoern, SaveGraph, SaveRelations, BindCheck, BindInsert, UndoDocs,
         UndoVectors, UndoGraph, CleanUpFails, DeleteOldDocs, DeleteOldVectors,
         DeleteOldGraph, DeleteOldJoern, OldJoernDone, Retire
    <3> QED
      BY <2>2, <3>1 DEF RolledBackClean
  <2> QED
    BY <2>3, <2>4
<1>4. CASE ~IndexStep
  BY <1>4, Elsewhere DEF RolledBackClean
<1> QED
  BY <1>2, <1>3, <1>4

(* A run is retired once its data are gone, and none is ever written for it again. *)
LEMMA RetiredStaysGone ==
  TypeOK /\ Started /\ Bounds /\ TidiedUp /\ RetiredHasNoData /\ [Next]_vars => RetiredHasNoData'
<1> SUFFICES ASSUME TypeOK, Started, Bounds, TidiedUp, RetiredHasNoData, [Next]_vars
             PROVE  RetiredHasNoData'
  OBVIOUS
<1>1. 0 \notin Attempts
  BY DEF Attempts
<1>2. CASE StartAttempt
  BY <1>2 DEF StartAttempt, stores, RetiredHasNoData
<1>3. CASE IndexStep /\ ~StartAttempt
  <2>1. OwnWrites
    BY <1>3, WritesItsOwn
  <2>2. ASSUME NEW a \in Attempts, binding[a] = "retired"
        PROVE  /\ \A c \in Chunks : docs'[c] # a /\ vecs'[c] # a
               /\ graph'[a] = "absent"
               /\ \A l \in Langs : <<a, l>> \notin joern'
    <3>1. a # attempt /\ a # 0
      BY <1>1, <2>2, Current DEF Bounds, Attempts
    <3>2. /\ \A c \in Chunks : docs'[c] \in {docs[c], attempt, 0} /\ vecs'[c] \in {vecs[c], attempt, 0}
          /\ graph'[a] \in {graph[a], "absent"}
          /\ \A l \in Langs : <<a, l>> \in joern' => <<a, l>> \in joern
      BY <2>1, <3>1 DEF OwnWrites
    <3> QED
      BY <2>2, <3>1, <3>2 DEF RetiredHasNoData
  <2>3. CASE Retire
    <3>1. /\ ipc = "retire" /\ UNCHANGED <<docs, vecs, graph, joern>>
          /\ binding' = RetireBindings
      BY <2>3 DEF Retire
    <3>2. ASSUME NEW a \in Attempts, binding[a] # "retired", binding'[a] = "retired"
          PROVE  clean /\ a # attempt /\ a \in Active
      BY <3>1, <3>2 DEF RetireBindings, Others, TypeOK, Active
    <3>3. clean => \A a \in Active : a # attempt =>
            /\ \A c \in Chunks : docs[c] # a /\ vecs[c] # a
            /\ graph[a] = "absent"
            /\ \A l \in Langs : <<a, l>> \notin joern
      BY <1>1, <3>1 DEF TidiedUp, Active
    <3> QED
      BY <2>2, <3>1, <3>2, <3>3 DEF RetiredHasNoData
  <2>4. CASE ~Retire
    <3>1. binding' = binding \/ binding' = [binding EXCEPT ![attempt] = "active"]
      BY <1>3, <2>4 DEF IndexStep, Abort, Capture, Parse, Embed, SaveDocs, SaveVectors,
         ImportJoern, SaveGraph, SaveRelations, BindCheck, BindInsert, UndoDocs,
         UndoVectors, UndoGraph, UndoJoern, CleanUpFails, DeleteOldDocs, DeleteOldVectors,
         DeleteOldGraph, DeleteOldJoern, OldJoernDone, stores
    <3>2. \A a \in Attempts : binding'[a] = "retired" => binding[a] = "retired"
      BY <3>1 DEF TypeOK
    <3> QED
      BY <2>2, <3>2 DEF RetiredHasNoData
  <2> QED
    BY <2>3, <2>4
<1>4. CASE ~IndexStep
  BY <1>4, Elsewhere DEF RetiredHasNoData
<1> QED
  BY <1>2, <1>3, <1>4

(* What an attempt has written stays until it is bound. *)
LEMMA WritingOn ==
  TypeOK /\ Started /\ Bounds /\ WrittenSoFar /\ [Next]_vars => WrittenSoFar'
<1> SUFFICES ASSUME TypeOK, Started, Bounds, WrittenSoFar, [Next]_vars PROVE
      WrittenSoFar'
  OBVIOUS
<1> USE DEF TypeOK, WrittenSoFar, Attempts, Writing
<1>1. CASE UNCHANGED vars
  BY <1>1 DEF vars, uvars, cvars
<1>2. CASE IndexStep
  <2>1. CASE StartAttempt
    BY <2>1, Current DEF StartAttempt, Goto, Bounds, uvars, stores
  <2>2. CASE Abort
    BY <2>2, Current DEF Abort, EndAttempt, Goto, uvars, stores
  <2>3. CASE Capture
    BY <2>3, Current DEF Capture, Goto, Active, uvars, stores
  <2>4. CASE Parse
    BY <2>4, Current DEF Parse, Goto, uvars, stores
  <2>5. CASE Embed
    BY <2>5, Current DEF Embed, Goto, uvars, stores
  <2>6. CASE SaveDocs
    BY <2>6, Current, SavesDocs
  <2>7. CASE SaveVectors
    BY <2>7, Current, SavesVectors
  <2>8. CASE ImportJoern
    BY <2>8, Current, ImportsJoern
  <2>9. CASE SaveGraph \/ SaveRelations
    BY <2>9, Current, SavesGraph
  <2>10. CASE BindCheck
    BY <2>10, Current DEF BindCheck, Goto, Fault, uvars, stores
  <2>11. CASE BindInsert
    BY <2>11, Current DEF BindInsert, Goto, uvars, stores
  <2>12. CASE UndoDocs
    BY <2>12, Current, UndoesDocs
  <2>13. CASE UndoVectors
    BY <2>13, Current, UndoesVectors
  <2>14. CASE UndoGraph
    BY <2>14, Current, UndoesGraph
  <2>15. CASE UndoJoern
    BY <2>15, Current, UndoesJoern DEF Bounds
  <2>16. CASE CleanUpFails
    BY <2>16, Current DEF CleanUpFails, EndAttempt, Goto, Fault, uvars, stores
  <2>17. CASE DeleteOldDocs
    BY <2>17, Current, DeletesDocs
  <2>18. CASE DeleteOldVectors
    BY <2>18, Current, DeletesVectors
  <2>19. CASE DeleteOldGraph
    BY <2>19, Current, DeletesGraph
  <2>20. CASE \E a \in Attempts : DeleteOldJoern(a)
    BY <2>20, Current, DeletesJoern
  <2>21. CASE OldJoernDone
    BY <2>21, Current DEF OldJoernDone, Goto, uvars, stores
  <2>22. CASE Retire
    BY <2>22, Current
    DEF Retire, EndAttempt, Goto, RetireBindings, Others, uvars, stores
  <2> QED
    BY <1>2, <2>1, <2>2, <2>3, <2>4, <2>5, <2>6, <2>7, <2>8, <2>9, <2>10, <2>11,
       <2>12, <2>13, <2>14, <2>15, <2>16, <2>17, <2>18, <2>19, <2>20, <2>21,
       <2>22
    DEF IndexStep
<1>3. CASE UploadStep /\ UNCHANGED cvars
  BY <1>3 DEF cvars
<1>4. ASSUME NEW a \in Attempts, DeleteCheck(a) PROVE WrittenSoFar'
  BY <1>4, Current DEF DeleteCheck, uvars, stores
<1>5. CASE DeleteSnapshot
  BY <1>5, Current DEF DeleteSnapshot, uvars, stores
<1>6. CASE Crash
  BY <1>6, Current DEF Crash, EndAttempt, UploadLost, Fault, Goto, uvars, stores
<1> QED
  BY <1>1, <1>2, <1>3, <1>4, <1>5, <1>6 DEF Next

(* What the rollback has taken away stays away. *)
LEMMA UndoingOn ==
  TypeOK /\ Started /\ Bounds /\ Undone /\ [Next]_vars => Undone'
<1> SUFFICES ASSUME TypeOK, Started, Bounds, Undone, [Next]_vars PROVE Undone'
  OBVIOUS
<1> USE DEF TypeOK, Undone, Attempts
<1>1. CASE UNCHANGED vars
  BY <1>1 DEF vars, uvars, cvars
<1>2. CASE IndexStep
  <2>1. CASE StartAttempt
    BY <2>1, Current DEF StartAttempt, Goto, uvars, stores
  <2>2. CASE Abort
    BY <2>2, Current DEF Abort, EndAttempt, Goto, uvars, stores
  <2>3. CASE Capture
    BY <2>3, Current DEF Capture, Goto, Active, uvars, stores
  <2>4. CASE Parse
    BY <2>4, Current DEF Parse, Goto, uvars, stores
  <2>5. CASE Embed
    BY <2>5, Current DEF Embed, Goto, uvars, stores
  <2>6. CASE SaveDocs
    BY <2>6, Current, SavesDocs
  <2>7. CASE SaveVectors
    BY <2>7, Current, SavesVectors
  <2>8. CASE ImportJoern
    BY <2>8, Current, ImportsJoern
  <2>9. CASE SaveGraph \/ SaveRelations
    BY <2>9, Current, SavesGraph
  <2>10. CASE BindCheck
    BY <2>10, Current DEF BindCheck, Goto, Fault, uvars, stores
  <2>11. CASE BindInsert
    BY <2>11, Current DEF BindInsert, Goto, uvars, stores
  <2>12. CASE UndoDocs
    BY <2>12, Current, UndoesDocs DEF Bounds, Undoing
  <2>13. CASE UndoVectors
    BY <2>13, Current, UndoesVectors DEF Bounds, Undoing
  <2>14. CASE UndoGraph
    BY <2>14, Current, UndoesGraph DEF Bounds, Undoing
  <2>15. CASE UndoJoern
    BY <2>15, Current, UndoesJoern
  <2>16. CASE CleanUpFails
    BY <2>16, Current DEF CleanUpFails, EndAttempt, Goto, Fault, uvars, stores
  <2>17. CASE DeleteOldDocs
    BY <2>17, Current, DeletesDocs
  <2>18. CASE DeleteOldVectors
    BY <2>18, Current, DeletesVectors
  <2>19. CASE DeleteOldGraph
    BY <2>19, Current, DeletesGraph
  <2>20. CASE \E a \in Attempts : DeleteOldJoern(a)
    BY <2>20, Current, DeletesJoern
  <2>21. CASE OldJoernDone
    BY <2>21, Current DEF OldJoernDone, Goto, uvars, stores
  <2>22. CASE Retire
    BY <2>22, Current
    DEF Retire, EndAttempt, Goto, RetireBindings, Others, uvars, stores
  <2> QED
    BY <1>2, <2>1, <2>2, <2>3, <2>4, <2>5, <2>6, <2>7, <2>8, <2>9, <2>10, <2>11,
       <2>12, <2>13, <2>14, <2>15, <2>16, <2>17, <2>18, <2>19, <2>20, <2>21,
       <2>22
    DEF IndexStep
<1>3. CASE UploadStep /\ UNCHANGED cvars
  BY <1>3 DEF cvars
<1>4. ASSUME NEW a \in Attempts, DeleteCheck(a) PROVE Undone'
  BY <1>4, Current DEF DeleteCheck, uvars, stores
<1>5. CASE DeleteSnapshot
  BY <1>5, Current DEF DeleteSnapshot, uvars, stores
<1>6. CASE Crash
  BY <1>6, Current DEF Crash, EndAttempt, UploadLost, Fault, Goto, uvars, stores
<1> QED
  BY <1>1, <1>2, <1>3, <1>4, <1>5, <1>6 DEF Next

(* What the clean-up has taken away stays away until the attempt is over. *)
LEMMA TidyingUp ==
  TypeOK /\ Started /\ Bounds /\ TidiedUp /\ [Next]_vars => TidiedUp'
<1> SUFFICES ASSUME TypeOK, Started, Bounds, TidiedUp, [Next]_vars PROVE TidiedUp'
  OBVIOUS
<1>1. CASE ipc' \in {"idle", "capture"} \union Undoing
  BY <1>1 DEF TidiedUp, Writing, Undoing
<1>2. CASE Capture
  <2>1. /\ ipc = "capture" /\ ipc' = "parse" /\ old' = Active /\ UNCHANGED <<binding, attempt>>
    BY <1>2 DEF Capture, Goto
  <2>2. attempt \notin Active
    BY <2>1 DEF Bounds, Writing, Active
  <2> QED
    BY <2>1, <2>2 DEF TidiedUp, Active, Writing
<1>3. CASE Parse \/ Embed \/ SaveDocs \/ SaveVectors \/ ImportJoern \/ SaveGraph
           \/ SaveRelations \/ BindCheck
  <2>1. /\ ipc \in Writing \ {"capture"} /\ ipc' \in (Writing \ {"capture"}) \union Undoing
        /\ UNCHANGED <<old, binding, attempt>>
    BY <1>3 DEF Parse, Embed, SaveDocs, SaveVectors, ImportJoern, SaveGraph, SaveRelations,
       BindCheck, Goto, stores, Writing, Undoing
  <2> QED
    BY <2>1 DEF TidiedUp, Active, Writing, Undoing
<1>4. CASE BindInsert
  <2>1. /\ ipc = "bound?" /\ ipc' = "old docs" /\ UNCHANGED <<old, attempt>>
        /\ binding' = [binding EXCEPT ![attempt] = "active"] /\ attempt \in Attempts
    BY <1>4, Current DEF BindInsert, Goto
  <2>2. Active' \ {attempt} = Active \ {attempt}
    BY <2>1 DEF Active, TypeOK
  <2> QED
    BY <2>1, <2>2 DEF TidiedUp, Writing
<1>5. CASE DeleteOldDocs
  <2>1. /\ ipc = "old docs" /\ ipc' = "old vecs" /\ UNCHANGED <<old, binding, attempt>>
    BY <1>5, DeletesDocs
  <2>2. \A c \in Chunks : docs'[c] \in {0, attempt}
    BY <1>5, DeletesDocs
  <2> QED
    BY <2>1, <2>2 DEF TidiedUp, Active, Writing
<1>6. CASE DeleteOldVectors
  <2>1. /\ ipc = "old vecs" /\ ipc' = "old graph" /\ UNCHANGED <<old, binding, attempt, docs>>
    BY <1>6, DeletesVectors
  <2>2. \A c \in Chunks : vecs'[c] \in {0, attempt}
    BY <1>6, DeletesVectors
  <2> QED
    BY <2>1, <2>2 DEF TidiedUp, Active, Writing
<1>7. CASE DeleteOldGraph
  <2>1. /\ ipc = "old graph" /\ ipc' = "old joern"
        /\ UNCHANGED <<old, binding, attempt, docs, vecs, joern>>
    BY <1>7, DeletesGraph
  <2>2. clean' => \A a \in Attempts : a # attempt => graph'[a] = "absent"
    BY <1>7, DeletesGraph
  <2>3. old = Active \ {attempt}
    BY <2>1 DEF TidiedUp
  <2> QED
    BY <2>1, <2>2, <2>3 DEF TidiedUp, Active, Writing
<1>8. ASSUME NEW a \in Attempts, DeleteOldJoern(a) PROVE TidiedUp'
  <2>1. /\ ipc = "old joern" /\ ipc' = "old joern" /\ old' = old \ {a} /\ joern' \subseteq joern
        /\ UNCHANGED <<binding, attempt, docs, vecs, graph>>
    BY <1>8, DeletesJoern
  <2>2. clean' => clean /\ \A l \in Langs : <<a, l>> \notin joern'
    BY <1>8, DeletesJoern
  <2>3. clean' => \A b \in Active : b = attempt \/ b \in old' \/ \A l \in Langs : <<b, l>> \notin joern'
    BY <2>1, <2>2 DEF TidiedUp
  <2> QED
    BY <2>1, <2>2, <2>3 DEF TidiedUp, Active, Writing
<1>9. CASE OldJoernDone
  <2>1. /\ ipc = "old joern" /\ ipc' = "retire" /\ old = {}
        /\ UNCHANGED <<old, clean, binding, attempt, docs, vecs, graph, joern>>
    BY <1>9 DEF OldJoernDone, Goto, stores
  <2> QED
    BY <2>1 DEF TidiedUp, Active, Writing
<1>10. CASE StartAttempt \/ Abort \/ UndoDocs \/ UndoVectors \/ UndoGraph \/ UndoJoern
            \/ CleanUpFails \/ Retire
  <2>1. ipc' \in {"idle", "capture"} \union Undoing
    BY <1>10 DEF StartAttempt, Abort, UndoDocs, UndoVectors, UndoGraph, UndoJoern,
       CleanUpFails, Retire, EndAttempt, Goto, Undoing
  <2> QED
    BY <1>1, <2>1
<1>11. CASE ~IndexStep
  <2>1. UNCHANGED <<docs, vecs, graph, joern, binding, attempt>>
    BY <1>11, Elsewhere
  <2>2. ipc' = "idle" \/ UNCHANGED <<ipc, old, clean>>
    BY <1>11, Elsewhere
  <2>3. CASE UNCHANGED <<ipc, old, clean>>
    BY <2>1, <2>3 DEF TidiedUp, Active
  <2> QED
    BY <1>1, <2>2, <2>3
<1> QED
  BY <1>2, <1>3, <1>4, <1>5, <1>6, <1>7, <1>8, <1>9, <1>10, <1>11 DEF IndexStep

(* A bound run is whole when it is bound, and stays so until the next attempt writes. *)
LEMMA BoundStaysWhole ==
  TypeOK /\ Started /\ Bounds /\ WrittenSoFar /\ TidiedUp /\ BoundRunIsWhole /\ [Next]_vars
    => BoundRunIsWhole'
<1> SUFFICES ASSUME TypeOK, Started, Bounds, WrittenSoFar, TidiedUp, BoundRunIsWhole, [Next]_vars
             PROVE  BoundRunIsWhole'
  OBVIOUS
<1> DEFINE WholeRun(a) == \/ source[a] = NoSource
                          \/ /\ Stored(a) /\ graph[a] = "whole"
                             /\ \A c \in source[a] : <<a, LangOf[c]>> \in joern
<1>1. /\ attempt \in Nat /\ Attempts \subseteq Nat
      /\ \A a \in Active : a \in Nat /\ a <= attempt /\ a \in Attempts /\ (a = attempt \/ a < attempt)
  BY Current DEF TypeOK, Attempts, Bounds, Active
<1>2. \A a \in Attempts : source[a] # NoSource => source[a] \subseteq Chunks
  BY DEF TypeOK
<1>3. CASE StartAttempt
  <2>1. /\ ipc = "idle" /\ ipc' = "capture" /\ attempt' = attempt + 1
        /\ UNCHANGED <<docs, vecs, graph, joern, source, binding>>
    BY <1>3 DEF StartAttempt, Goto, stores
  <2>2. ASSUME NEW a \in Active
        PROVE  a < attempt \/ WholeRun(a)
    <3>1. a \in Nat /\ a <= attempt
      BY <1>1
    <3>2. a < attempt - 1 \/ a = attempt - 1 \/ WholeRun(a)
      BY DEF BoundRunIsWhole
    <3> HIDE DEF WholeRun
    <3> QED
      BY <1>1, <3>1, <3>2
  <2>3. \A a \in Active : WholeRun(a)' <=> WholeRun(a)
    BY <2>1 DEF Stored
  <2>4. Active' = Active
    BY <2>1 DEF Active
  <2>5. \A a \in Active : a < attempt' - 1 \/ a = attempt' - 1 \/ WholeRun(a)'
    BY <1>1, <2>1, <2>2, <2>3
  <2> QED
    BY <1>1, <2>1, <2>4, <2>2, <2>3 DEF BoundRunIsWhole
<1>4. ASSUME ipc \in {"capture", "parse", "embed"}, attempt' = attempt, attempt # 0,
             UNCHANGED <<docs, vecs, graph, joern, binding>>,
             \A a \in Attempts : a # attempt => source'[a] \in {source[a], NoSource}
      PROVE  BoundRunIsWhole'
  <2>1. \A a \in Active : a < attempt - 1 \/ WholeRun(a)
    BY <1>1, <1>4 DEF BoundRunIsWhole, Bounds, Active, Writing
  <2>2. Active' = Active /\ attempt \notin Active
    BY <1>4 DEF Active, Bounds, Writing
  <2> QED
    BY <1>1, <1>4, <2>1, <2>2 DEF BoundRunIsWhole, Stored
<1>5. ASSUME ipc \in (Writing \union Undoing) \ {"capture", "parse", "embed"},
             ipc' \notin {"capture", "parse", "embed"},
             attempt' = attempt, UNCHANGED binding
      PROVE  BoundRunIsWhole'
  <2>1. \A a \in Active' : a \in Nat /\ a < attempt
    <3>1. Active' = Active /\ attempt \notin Active
      BY <1>5 DEF Active, Bounds
    <3> QED
      BY <1>1, <3>1
  <2>2. \A a \in Active' : a < attempt - 1 \/ a = attempt - 1
    BY <1>1, <2>1
  <2> QED
    BY <1>5, <2>2 DEF BoundRunIsWhole
<1>6. CASE BindInsert
  <2>1. /\ ipc = "bound?" /\ ipc' = "old docs" /\ attempt' = attempt /\ attempt \in Attempts
        /\ UNCHANGED <<docs, vecs, graph, joern, source>>
    BY <1>6, Current DEF BindInsert, Goto
  <2>2. WholeRun(attempt)
    BY <2>1 DEF WrittenSoFar, Stored, Writing
  <2>3. Active' \subseteq Active \union {attempt}
    BY <1>6 DEF BindInsert, Active, TypeOK
  <2>4. \A a \in Active' : a \in Nat /\ (a = attempt \/ a < attempt)
    BY <1>1, <2>1, <2>3
  <2>5. WholeRun(attempt)'
    BY <2>1, <2>2 DEF Stored
  <2>6. attempt' = attempt /\ ipc' \notin {"capture", "parse", "embed"}
    BY <2>1
  <2>7. \A a \in Active' : a < attempt - 1 \/ a = attempt - 1 \/ a = attempt
    BY <1>1, <2>4
  <2> QED
    BY <2>5, <2>6, <2>7 DEF BoundRunIsWhole
<1>7. ASSUME ipc \in Tidying, ipc' \in Tidying \union {"idle"}, attempt' = attempt,
             Active' \subseteq Active, UNCHANGED source,
             \A c \in Chunks : /\ docs[c] = attempt => docs'[c] = attempt
                               /\ vecs[c] = attempt => vecs'[c] = attempt,
             graph'[attempt] = graph[attempt],
             \A l \in Langs : <<attempt, l>> \in joern => <<attempt, l>> \in joern'
      PROVE  BoundRunIsWhole'
  <2>1. attempt \in Active => WholeRun(attempt)
    <3>1. ~(attempt < attempt - 1) /\ attempt # attempt - 1
      BY <1>1
    <3> QED
      BY <3>1 DEF BoundRunIsWhole
  <2>2. attempt \in Active => WholeRun(attempt)'
    BY <1>1, <1>2, <1>7, <2>1, CommitAssumption DEF Stored
  <2>3. \A a \in Active' : a \in Nat /\ (a = attempt \/ a < attempt) /\ a \in Active
    <3>1. Active' \subseteq Active
      BY <1>7
    <3> QED
      BY <1>1, <3>1
  <2>4. ipc' \notin {"capture", "parse", "embed"}
    BY <1>7 DEF Tidying
  <2> QED
    BY <1>1, <1>7, <2>2, <2>3, <2>4 DEF BoundRunIsWhole
<1>8. ASSUME NEW a \in Attempts, DeleteOldJoern(a) PROVE BoundRunIsWhole'
  <2>1. /\ ipc = "old joern" /\ ipc' = ipc /\ a \in old /\ attempt \in Attempts
        /\ UNCHANGED <<attempt, docs, vecs, graph, source, binding>>
        /\ \A b \in Attempts, l \in Langs : b # a /\ <<b, l>> \in joern => <<b, l>> \in joern'
    BY <1>8, DeletesJoern
  <2>2. a # attempt
    BY <2>1 DEF TidiedUp
  <2> QED
    BY <1>7, <2>1, <2>2 DEF Active, Tidying
<1>9. CASE DeleteOldDocs
  <2>1. /\ ipc = "old docs" /\ ipc' = "old vecs" /\ UNCHANGED <<attempt, vecs, graph, joern, source, binding>>
        /\ \A c \in Chunks : docs[c] = attempt => docs'[c] = attempt
    BY <1>9, DeletesDocs
  <2> QED
    BY <1>7, <2>1 DEF Active, Tidying
<1>10. CASE DeleteOldVectors
  <2>1. /\ ipc = "old vecs" /\ ipc' = "old graph" /\ UNCHANGED <<attempt, docs, graph, joern, source, binding>>
        /\ \A c \in Chunks : vecs[c] = attempt => vecs'[c] = attempt
    BY <1>10, DeletesVectors
  <2> QED
    BY <1>7, <2>1 DEF Active, Tidying
<1>11. CASE DeleteOldGraph
  <2>1. /\ ipc = "old graph" /\ ipc' = "old joern" /\ UNCHANGED <<attempt, docs, vecs, joern, source, binding>>
        /\ graph'[attempt] = graph[attempt]
    BY <1>11, DeletesGraph
  <2> QED
    BY <1>7, <2>1 DEF Active, Tidying
<1>12. CASE OldJoernDone \/ CleanUpFails \/ Retire
  <2>1. /\ ipc \in Tidying /\ ipc' \in {"retire", "idle"}
        /\ UNCHANGED <<attempt, docs, vecs, graph, joern, source>>
    BY <1>12 DEF OldJoernDone, CleanUpFails, Retire, EndAttempt, Goto, stores, Tidying
  <2>2. binding' = binding \/ binding' = RetireBindings
    BY <1>12 DEF OldJoernDone, CleanUpFails, Retire, stores
  <2>3. Active' \subseteq Active
    BY <2>2 DEF Active, RetireBindings, TypeOK
  <2> QED
    BY <1>7, <2>1, <2>3 DEF Tidying
<1>13. CASE Abort \/ Capture \/ Parse \/ Embed
  <2>1. /\ ipc \in {"capture", "parse", "embed"} /\ attempt' = attempt /\ attempt # 0
        /\ UNCHANGED <<docs, vecs, graph, joern, binding>>
    BY <1>13, Current DEF Abort, Capture, Parse, Embed, stores, Started
  <2>2. \A a \in Attempts : a # attempt => source'[a] = source[a]
    BY <1>13 DEF Abort, Capture, Parse, Embed, stores, TypeOK
  <2> QED
    BY <1>4, <2>1, <2>2
<1>14. CASE SaveDocs \/ SaveVectors \/ ImportJoern \/ SaveGraph \/ SaveRelations \/ BindCheck
            \/ UndoDocs \/ UndoVectors \/ UndoGraph \/ UndoJoern
  <2>1. /\ ipc \in (Writing \union Undoing) \ {"capture", "parse", "embed"}
        /\ ipc' \notin {"capture", "parse", "embed"}
        /\ attempt' = attempt /\ UNCHANGED binding
    BY <1>14 DEF SaveDocs, SaveVectors, ImportJoern, SaveGraph, SaveRelations, BindCheck,
       UndoDocs, UndoVectors, UndoGraph, UndoJoern, EndAttempt, Goto, stores, Writing, Undoing
  <2> QED
    BY <1>5, <2>1
<1>15. CASE ~IndexStep
  <2>1. UNCHANGED <<docs, vecs, graph, joern, binding, attempt>>
    BY <1>15, Elsewhere
  <2>2. ipc' = "idle" \/ UNCHANGED ipc
    BY <1>15, Elsewhere
  <2>3. \A a \in Attempts : source'[a] \in {source[a], NoSource}
    BY <1>15, Elsewhere
  <2>4. \A a \in Active : \/ a < attempt - 1
                          \/ a = attempt - 1 /\ ipc' \notin {"capture", "parse", "embed"}
                          \/ WholeRun(a)
    BY <2>2 DEF BoundRunIsWhole
  <2> QED
    BY <1>1, <2>1, <2>3, <2>4 DEF BoundRunIsWhole, Stored, Active
<1> QED
  BY <1>3, <1>6, <1>8, <1>9, <1>10, <1>11, <1>12, <1>13, <1>14, <1>15 DEF IndexStep

(* A bound run keeps its source, unless the two requests have met. *)
LEMMA SnapshotsKept ==
  TypeOK /\ Started /\ Bounds /\ Snapshots /\ [Next]_vars => Snapshots'
<1> SUFFICES ASSUME TypeOK, Started, Bounds, Snapshots, [Next]_vars PROVE Snapshots'
  OBVIOUS
<1> USE DEF TypeOK, Snapshots, SourceLostOnlyInRace, Attempts
<1>1. CASE UNCHANGED vars
  BY <1>1 DEF vars, uvars, cvars
<1>2. CASE IndexStep
  <2>1. CASE StartAttempt
    BY <2>1, Current, CommitAssumption
    DEF StartAttempt, Goto, Bounds, Writing, Undoing, uvars, stores
  <2>2. CASE Abort
    BY <2>2, Current, CommitAssumption
    DEF Abort, EndAttempt, Goto, Bounds, Writing, Undoing, uvars, stores
  <2>3. CASE Capture
    BY <2>3, Current, CommitAssumption
    DEF Capture, Goto, Active, Bounds, Writing, Undoing, uvars, stores
  <2>4. CASE Parse
    BY <2>4, Current, CommitAssumption
    DEF Parse, Goto, Bounds, Writing, Undoing, uvars, stores
  <2>5. CASE Embed
    BY <2>5, Current, CommitAssumption
    DEF Embed, Goto, Bounds, Writing, Undoing, uvars, stores
  <2>6. CASE SaveDocs
    BY <2>6, Current, SavesDocs, CommitAssumption DEF Bounds, Writing, Undoing
  <2>7. CASE SaveVectors
    BY <2>7, Current, SavesVectors, CommitAssumption
    DEF Bounds, Writing, Undoing
  <2>8. CASE ImportJoern
    BY <2>8, Current, ImportsJoern, CommitAssumption
    DEF Bounds, Writing, Undoing
  <2>9. CASE SaveGraph \/ SaveRelations
    BY <2>9, Current, SavesGraph, CommitAssumption DEF Bounds, Writing, Undoing
  <2>10. CASE BindCheck
    BY <2>10, Current, CommitAssumption
    DEF BindCheck, Goto, Fault, Bounds, Writing, Undoing, uvars, stores
  <2>11. CASE BindInsert
    <3>1. /\ ipc = "bound?" /\ ipc' = "old docs" /\ attempt \in Attempts
          /\ binding' = [binding EXCEPT ![attempt] = "active"]
          /\ UNCHANGED <<source, attempt, deleting, raced>>
      BY <2>11, Current DEF BindInsert, Goto
    <3>2. /\ binding'[attempt] = "active"
          /\ \A a \in Attempts : a # attempt => binding'[a] = binding[a]
      BY <3>1
    <3>3. SourceLostOnlyInRace'
      BY <3>1, <3>2
    <3>4. deleting # 0 => binding'[deleting] = "none" \/ deleting \in raced
      <4>1. CASE deleting = attempt
        BY <3>1, <4>1
      <4>2. CASE deleting # attempt /\ deleting # 0
        BY <3>2, <4>2
      <4> QED
        BY <4>1, <4>2
    <3> QED
      BY <3>1, <3>3, <3>4
  <2>12. CASE UndoDocs
    BY <2>12, Current, UndoesDocs, CommitAssumption DEF Bounds, Writing, Undoing
  <2>13. CASE UndoVectors
    BY <2>13, Current, UndoesVectors, CommitAssumption
    DEF Bounds, Writing, Undoing
  <2>14. CASE UndoGraph
    BY <2>14, Current, UndoesGraph, CommitAssumption
    DEF Bounds, Writing, Undoing
  <2>15. CASE UndoJoern
    BY <2>15, Current, UndoesJoern, CommitAssumption
    DEF Bounds, Writing, Undoing
  <2>16. CASE CleanUpFails
    BY <2>16, Current, CommitAssumption
    DEF CleanUpFails, EndAttempt, Goto, Fault, Bounds, Writing, Undoing, uvars,
        stores
  <2>17. CASE DeleteOldDocs
    BY <2>17, Current, DeletesDocs, CommitAssumption
    DEF Bounds, Writing, Undoing
  <2>18. CASE DeleteOldVectors
    BY <2>18, Current, DeletesVectors, CommitAssumption
    DEF Bounds, Writing, Undoing
  <2>19. CASE DeleteOldGraph
    BY <2>19, Current, DeletesGraph, CommitAssumption
    DEF Bounds, Writing, Undoing
  <2>20. CASE \E a \in Attempts : DeleteOldJoern(a)
    <3>1. ipc = "old joern" /\ UNCHANGED <<source, binding, ipc, attempt, deleting, raced>>
      BY <2>20 DEF DeleteOldJoern
    <3> QED
      BY <3>1
  <2>21. CASE OldJoernDone
    BY <2>21, Current, CommitAssumption
    DEF OldJoernDone, Goto, Bounds, Writing, Undoing, uvars, stores
  <2>22. CASE Retire
    BY <2>22, Current, CommitAssumption
    DEF Retire, EndAttempt, Goto, RetireBindings, Others, Bounds, Writing,
        Undoing, uvars, stores
  <2> QED
    BY <1>2, <2>1, <2>2, <2>3, <2>4, <2>5, <2>6, <2>7, <2>8, <2>9, <2>10, <2>11,
       <2>12, <2>13, <2>14, <2>15, <2>16, <2>17, <2>18, <2>19, <2>20, <2>21,
       <2>22
    DEF IndexStep
<1>3. CASE UploadStep /\ UNCHANGED cvars
  BY <1>3 DEF cvars
<1>4. ASSUME NEW a \in Attempts, DeleteCheck(a) PROVE Snapshots'
  BY <1>4, Current DEF DeleteCheck, Bounds, uvars, stores
<1>5. CASE DeleteSnapshot
  BY <1>5, Current DEF DeleteSnapshot, uvars, stores
<1>6. CASE Crash
  BY <1>6, Current
  DEF Crash, EndAttempt, UploadLost, Fault, Goto, Bounds, Writing, Undoing,
      uvars, stores
<1> QED
  BY <1>1, <1>2, <1>3, <1>4, <1>5, <1>6 DEF Next

(* CommitInv holds of every reachable state. *)
LEMMA CommitInvariant ==
  Spec => []CommitInv
<1>1. Init => CommitInv
  <2> SUFFICES ASSUME Init PROVE CommitInv
    OBVIOUS
  <2>1. UploadTypeOK
    BY UploadAssumption DEF Init, UploadInit, UploadTypeOK, NoDir, Dirs
  <2>2. docs \in [Chunks -> 0 .. MaxAttempts] /\ vecs \in [Chunks -> 0 .. MaxAttempts]
    BY CommitAssumption DEF Init
  <2>3. clean \in BOOLEAN /\ faults \in 0 .. MaxFaults
    BY CommitAssumption DEF Init
  <2>4. TypeOK
    BY <2>1, <2>2, <2>3, CommitAssumption DEF Init, TypeOK, Steps
  <2>5. Exclusion /\ Started /\ Replacing
    BY DEF Init, UploadInit, Exclusion, Started, Replacing, LastUploadKept
  <2>6. Bounds /\ RolledBackClean /\ RetiredHasNoData
    BY CommitAssumption DEF Init, Bounds, RolledBackClean, RetiredHasNoData, Writing, Undoing
  <2>7. WrittenSoFar /\ Undone /\ TidiedUp
    BY DEF Init, WrittenSoFar, Undone, TidiedUp, Writing
  <2>8. BoundRunIsWhole
    BY DEF Init, BoundRunIsWhole, Active
  <2> QED
    BY <2>4, <2>5, <2>6, <2>7, <2>8 DEF CommitInv
<1>2. CommitInv /\ [Next]_vars => CommitInv'
  <2> SUFFICES ASSUME CommitInv, [Next]_vars PROVE CommitInv'
    OBVIOUS
  <2>1. UploadTypeOK
    BY DEF CommitInv, TypeOK
  <2>2. TypeOK' /\ Exclusion' /\ Started'
    BY Typing, Excluding, Starting DEF CommitInv
  <2>3. Replacing'
    BY <2>1, Replaced DEF CommitInv
  <2>4. Bounds' /\ RolledBackClean' /\ RetiredHasNoData'
    BY Bounding, RolledBackStaysClean, RetiredStaysGone DEF CommitInv
  <2>5. WrittenSoFar' /\ Undone' /\ TidiedUp'
    BY WritingOn, UndoingOn, TidyingUp DEF CommitInv
  <2>6. BoundRunIsWhole'
    BY BoundStaysWhole DEF CommitInv
  <2> QED
    BY <2>2, <2>3, <2>4, <2>5, <2>6 DEF CommitInv
<1> QED
  BY <1>1, <1>2, PTL DEF Spec

(* Every variable of the index pipeline and of the upload keeps its type. *)
THEOREM TypeCorrect ==
  Spec => []TypeOK
<1>1. CommitInv => TypeOK
  BY DEF CommitInv
<1> QED
  BY <1>1, CommitInvariant, PTL

(* The version an upload last put in place whole is on disk whole, under its own name
   or as a backup, whatever fails and whenever the process dies. *)
THEOREM UploadIsNeverLost ==
  Spec => []LastUploadKept
<1>1. CommitInv => LastUploadKept
  BY DEF CommitInv, Replacing
<1> QED
  BY <1>1, CommitInvariant, PTL

(* A run that was just bound is complete in every store, and stays so until the next
   attempt writes: the bind comes after every write, and no clean-up touches it. *)
THEOREM BindIsLast ==
  Spec => []BoundRunIsWhole
<1>1. CommitInv => BoundRunIsWhole
  BY DEF CommitInv
<1> QED
  BY <1>1, CommitInvariant, PTL

(* An attempt that was rolled back without a failing call has left nothing in any
   store, whatever ran after it. *)
THEOREM RollbackIsComplete ==
  Spec => []RolledBackClean
<1>1. CommitInv => RolledBackClean
  BY DEF CommitInv
<1> QED
  BY <1>1, CommitInvariant, PTL

(* Snapshots holds of every reachable state. *)
LEMMA SnapshotInvariant ==
  Spec => [](CommitInv /\ Snapshots)
<1>1. Init => Snapshots
  BY DEF Init, Snapshots, SourceLostOnlyInRace
<1>2. CommitInv /\ Snapshots /\ [Next]_vars => Snapshots'
  BY SnapshotsKept DEF CommitInv
<1> QED
  BY <1>1, <1>2, CommitInvariant, PTL DEF Spec

(* A bound run has lost its source only if its bind and the deletion of its snapshot
   were under way at the same time: the bind refuses what was deleted before it, and the
   deletion what was bound before it. *)
THEOREM SourceIsKept ==
  Spec => []SourceLostOnlyInRace
<1>1. Snapshots => SourceLostOnlyInRace
  BY DEF Snapshots
<1> QED
  BY <1>1, SnapshotInvariant, PTL

(* A run is retired only when none of its data is left in a store, whatever fails. *)
THEOREM RetiredLeavesNothing ==
  Spec => []RetiredIsGone
<1>1. CommitInv => RetiredIsGone
  BY DEF CommitInv, RetiredHasNoData, RetiredIsGone
<1> QED
  BY <1>1, CommitInvariant, PTL
=============================================================================
