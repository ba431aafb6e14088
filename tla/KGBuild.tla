-------------------------------- MODULE KGBuild --------------------------------
(***************************************************************************)
(* Knowledge-graph builds of one dataset: kg_build (_lake_kg.py), the      *)
(* pipeline of KGBuilder._execute_build (knowledge_graph/builder.py), the  *)
(* knowledge abstract of HyperExtractExtractor.build_dataset_ka            *)
(* (he_extractor.py) and its archived versions (ka_versioning.py).         *)
(*                                                                         *)
(* A build leaves its result in five places, one after the other: chunk    *)
(* vertices in the graph; the dump of the KA, data.json; or, for large     *)
(* tables, the checkpoint map_reduce.json; the sidecar fed_chunks.json,    *)
(* which marks the chunks the next incremental build may skip; entities    *)
(* and their references in the graph. Anything may happen in between.      *)
(*                                                                         *)
(* A chunk's text stands for its hash; Yield says which entities, by name, *)
(* the text of a chunk mentions, and chunks may mention the same ones. A   *)
(* pair <<chunk, name>> is a mention, or a references edge. Relations,     *)
(* document vertices, chains of chunks, entity resolution, orphan linking, *)
(* the search index and the progress of tasks are left out. Templates are  *)
(* left out too: whether the stored template is the one the build resolves *)
(* is a free choice.                                                       *)
(***************************************************************************)
EXTENDS Integers, FiniteSets, Sequences, FiniteSetsExt, SequencesExt

CONSTANTS
    Workers,      \* API processes: a build runs in the one it was asked of
    MaxRows,      \* chunks are rows 1 .. MaxRows, in the order of the table
    Texts,
    NoText,       \* a chunk that is absent, or not marked
    Names,        \* of entities
    Yield,        \* the names that extraction finds in the text of a chunk
    NoDump,       \* there is no data.json
    Torn,         \* a data.json that cannot be loaded
    Thresholds,   \* he_kg_chunk_min_chunks, one of: larger tables are map-reduced
    KeepVersions, \* he_ka_max_versions; 0 keeps all
    PruneKeeps,   \* how many versions a prune endpoint may be asked to keep
    MaxBuilds,    \* bound: builds asked for
    MaxEdits,     \* bound: changes of the dataset
    MaxFaults,    \* bound: crashes, failures, hangs and timeouts
    MaxOps        \* bound: rollbacks, prunes and clearings of the graph

ASSUME BuildConstants ==
    /\ Workers # {} /\ Texts # {}
    /\ NoText \notin Texts
    /\ MaxRows \in Nat \ {0}
    /\ Yield \in [1 .. MaxRows -> [Texts -> SUBSET Names]]
    /\ \A names \in SUBSET Names : names \notin {NoDump, Torn}
    /\ NoDump # Torn
    /\ Thresholds \subseteq Nat
    /\ KeepVersions \in Nat /\ PruneKeeps \subseteq Nat
    /\ {MaxBuilds, MaxEdits, MaxFaults, MaxOps} \subseteq Nat

VARIABLES
    minChunks, \* the threshold this deployment is configured with
    table,     \* the dataset: chunk -> text
    data,      \* data.json: the names in the KA, NoDump or Torn
    fed,       \* fed_chunks.json: chunk -> text it was fed with
    ckpt,      \* map_reduce.json: what was mapped, and the mentions it gave
    dirs,      \* versions/: one dump for every version made so far
    manifest,  \* manifest.json: the versions listed, oldest first
    schema,    \* graph: it has the schema the builds write by
    vtx,       \* graph: chunk vertex -> its content
    ent, ref,  \* graph: names with an entity, references edges
    build,     \* every build's state
    op,        \* the thread of a rollback or prune endpoint
    zombies,   \* dumps whose thread goes on after its build was cancelled
    skipped,   \* ghost: names missed by an extraction that failed, in the last
               \* attempt or in the checkpoint it reused, and to which no
               \* build has written a reference since
    damage,    \* ghost: what has happened to the files and the graph
    healing,   \* ghost: the damage the running full build makes good
    before,    \* ghost: the dump the last archiving found; NoDump after a
               \* race, a crash of a prune, and where archiving failed
    edits, faults, ops

diskVars == <<data, fed, ckpt>>
versionVars == <<dirs, manifest>>
graphVars == <<schema, vtx, ent, ref>>
ghostVars == <<skipped, damage, healing, before>>
boundVars == <<edits, faults, ops>>
vars == <<minChunks, table, diskVars, versionVars, graphVars, build, op, zombies,
          ghostVars, boundVars>>

Builds == 1 .. MaxBuilds
Chunks == 1 .. MaxRows
Rows(f) == {c \in Chunks : f[c] # NoText}
Mentions(f) == {m \in Chunks \X Names :
                   f[m[1]] # NoText /\ m[2] \in Yield[m[1]][f[m[1]]]}
NamesIn(mentions) == {m[2] : m \in mentions}
Nothing == [c \in Chunks |-> NoText]
Loadable == data \notin {NoDump, Torn}

Ended == {"completed", "failed", "gone"}
Idle == [pc |-> "none", w |-> CHOOSE w \in Workers : TRUE, incremental |-> FALSE,
         rows |-> Nothing, new |-> {}, todo |-> {}, ka |-> {}, owned |-> {},
         prev |-> Nothing, v |-> 0, seen |-> <<>>]
NoOp == [pc |-> "idle", w |-> Idle.w, target |-> 0, v |-> 0, seen |-> <<>>]
Running(b) == build[b].pc \notin {"none", "queued", "snapshot", "stuck"} \cup Ended
HoldsLock(b) == Running(b) \/ build[b].pc \in {"snapshot", "stuck"}
Quiet == \A b \in Builds : ~Running(b)

Init ==
    /\ minChunks \in Thresholds
    /\ LET t == CHOOSE t \in Texts : TRUE IN
       \E n \in Chunks : table = [c \in Chunks |-> IF c <= n THEN t ELSE NoText]
    /\ data = NoDump
    /\ fed = Nothing
    /\ ckpt = [rows |-> Nothing, mentions |-> {}]
    /\ dirs = <<>>
    /\ manifest = <<>>
    /\ schema = FALSE
    /\ vtx = Nothing
    /\ ent = {} /\ ref = {}
    /\ build = [b \in Builds |-> Idle]
    /\ op = NoOp
    /\ zombies = {}
    /\ skipped = {} /\ damage = {} /\ healing = {} /\ before = NoDump
    /\ edits = 0 /\ faults = 0 /\ ops = 0
--------------------------------------------------------------------------------
(* Ghosts. Damage happens, and is made good by a full build that starts    *)
(* afterwards, has the files to itself, and completes.                     *)
Damaged(kinds) ==
    /\ damage' = damage \cup kinds
    /\ healing' = IF kinds = {} THEN healing ELSE {}

(* he_kg_granularity "auto". *)
MapReduced(rows) == Cardinality(Rows(rows)) > minChunks

(* A full map-reduce build leaves data.json, and what is wrong with it. *)
MadeGood(rows) == IF MapReduced(rows) /\ data # NoDump THEN {} ELSE damage

Alone(b) == /\ \A x \in Builds \ {b} : ~Running(x)
            /\ op.pc = "idle" /\ zombies = {}

(* Two writers of the dataset's files at once. *)
RacedUnless(alone) ==
    /\ Damaged(IF alone THEN {} ELSE {"raced"})
    /\ before' = IF alone THEN before ELSE NoDump

Fault == faults < MaxFaults /\ faults' = faults + 1

Becomes(b, r) == build' = [build EXCEPT ![b] = r]
Goto(b, pc) == Becomes(b, [build[b] EXCEPT !.pc = pc])

(* A build that ends keeps nothing but its status. *)
End(b, status) == Becomes(b, [Idle EXCEPT !.pc = status])
--------------------------------------------------------------------------------
(* The dataset changes: a chunk is appended, edited or removed. *)
EditTable(c, t) ==
    /\ edits < MaxEdits
    /\ table[c] # t
    /\ table' = [table EXCEPT ![c] = t]
    /\ edits' = edits + 1
    /\ UNCHANGED <<minChunks, diskVars, versionVars, graphVars, build, op, zombies,
                   ghostVars, faults, ops>>

(* kg_build reads the table, prepares the task and queues for the lock. *)
KgBuild(w, incremental) ==
    \E b \in Builds :
        /\ build[b].pc = "none"
        /\ \A x \in Builds : x < b => build[x].pc # "none"
        /\ Becomes(b, [Idle EXCEPT !.pc = "queued", !.w = w, !.incremental = incremental,
                                  !.rows = table])
        /\ UNCHANGED <<minChunks, table, diskVars, versionVars, graphVars, op, zombies,
                       ghostVars, boundVars>>

(* The lock of the dataset, one per process; then ensure_schema. *)
AcquireLock(b) ==
    /\ build[b].pc = "queued"
    /\ \A x \in Builds : HoldsLock(x) => build[x].w # build[b].w
    /\ Goto(b, "vertices")
    /\ schema' = TRUE
    /\ RacedUnless(Alone(b))
    /\ UNCHANGED <<minChunks, table, diskVars, versionVars, vtx, ent, ref, op, zombies,
                   skipped, boundVars>>

(* Mutant of NewChunks: a marked chunk is taken for built, whatever its text. *)
NewChunksById(b) ==
    {c \in Rows(build[b].rows) : build[b].incremental => fed[c] = NoText}

(* Steps 2 to 5: an incremental build writes the vertices of the chunks    *)
(* that are not marked with their present text, a full one all of them.    *)
NewChunks(b) ==
    LET r == build[b] IN
    {c \in Rows(r.rows) : r.incremental => fed[c] # r.rows[c]}

WithVertices(S, rows) == [c \in Chunks |-> IF c \in S THEN rows[c] ELSE vtx[c]]

AddVertices(b) ==
    LET r == build[b] IN
    /\ r.pc = "vertices"
    /\ schema \/ NewChunks(b) = {}
    /\ IF Rows(r.rows) = {}
          THEN /\ End(b, "completed")
               /\ UNCHANGED <<vtx, damage, healing>>
          ELSE /\ vtx' = WithVertices(NewChunks(b), r.rows)
               /\ Becomes(b, [r EXCEPT !.new = NewChunks(b), !.pc =
                     IF MapReduced(r.rows) THEN "map" ELSE "archive"])
               /\ damage' = damage
               /\ healing' = IF r.incremental \/ ~Alone(b) THEN healing
                             ELSE MadeGood(r.rows)
    /\ UNCHANGED <<minChunks, table, diskVars, versionVars, schema, ent, ref, op, zombies,
                   skipped, before, boundVars>>
--------------------------------------------------------------------------------
(* Versions. archive_current copies the dump and reads the manifest, then  *)
(* writes it back with the new entry; prune reads it, removes directories, *)
(* and writes back what is left. Nothing locks the file. A removed         *)
(* directory holds NoDump.                                                 *)
Newest(s, n) == SubSeq(s, IF n < Len(s) THEN Len(s) - n + 1 ELSE 1, Len(s))
Without(kept) == [v \in DOMAIN dirs |->
                     IF v \in ToSet(manifest) \ ToSet(kept) THEN NoDump ELSE dirs[v]]
Recoverable == {dirs[v] : v \in ToSet(manifest)}

ArchiveCopy(b) ==
    /\ build[b].pc = "archive"
    /\ IF data = NoDump
          THEN Goto(b, "prune") /\ UNCHANGED <<dirs, before>>
          ELSE /\ dirs' = Append(dirs, data)
               /\ before' = IF Alone(b) THEN data ELSE NoDump
               /\ Becomes(b, [build[b] EXCEPT !.pc = "list", !.v = Len(dirs) + 1,
                                             !.seen = manifest])
    /\ UNCHANGED <<minChunks, table, diskVars, manifest, graphVars, op, zombies,
                   skipped, damage, healing, boundVars>>

ArchiveList(b) ==
    /\ build[b].pc = "list"
    /\ manifest' = Append(build[b].seen, build[b].v)
    /\ Becomes(b, [build[b] EXCEPT !.pc = "prune", !.v = 0, !.seen = <<>>])
    /\ UNCHANGED <<minChunks, table, diskVars, dirs, graphVars, op, zombies, ghostVars, boundVars>>

(* Versioning is best effort: the build goes on when the copy or a write   *)
(* of the manifest fails, which may tear it.                               *)
VersioningFails(b) ==
    /\ build[b].pc \in {"archive", "list", "trim"}
    /\ build[b].pc = "archive" => data # NoDump
    /\ Fault
    /\ manifest' \in {manifest} \cup (IF build[b].pc = "archive" THEN {} ELSE {<<>>})
    /\ before' = IF build[b].pc = "trim" /\ manifest' = manifest THEN before ELSE NoDump
    /\ Becomes(b, [build[b] EXCEPT !.pc = "load", !.v = 0, !.seen = <<>>])
    /\ UNCHANGED <<minChunks, table, diskVars, dirs, graphVars, op, zombies,
                   skipped, damage, healing, edits, ops>>

(* Mutant of PruneDirs: one version too many is removed. *)
PruneDirsOneFewer(b) ==
    LET kept == Newest(manifest, KeepVersions - 1) IN
    /\ build[b].pc = "prune"
    /\ dirs' = Without(kept)
    /\ Becomes(b, [build[b] EXCEPT !.pc = "trim", !.seen = kept])
    /\ UNCHANGED <<minChunks, table, diskVars, manifest, graphVars, op, zombies, ghostVars,
                   boundVars>>

PruneDirs(b) ==
    LET kept == IF KeepVersions = 0 THEN manifest ELSE Newest(manifest, KeepVersions) IN
    /\ build[b].pc = "prune"
    /\ dirs' = Without(kept)
    /\ Becomes(b, [build[b] EXCEPT !.pc = IF KeepVersions = 0 THEN "load" ELSE "trim",
                                  !.seen = kept])
    /\ UNCHANGED <<minChunks, table, diskVars, manifest, graphVars, op, zombies, ghostVars,
                   boundVars>>

PruneList(b) ==
    /\ build[b].pc = "trim"
    /\ manifest' = build[b].seen
    /\ Becomes(b, [build[b] EXCEPT !.pc = "load", !.seen = <<>>])
    /\ UNCHANGED <<minChunks, table, diskVars, dirs, graphVars, op, zombies, ghostVars, boundVars>>
--------------------------------------------------------------------------------
(* The dataset path: one KA. An incremental build whose template matches   *)
(* loads the dump and feeds the chunks that are not marked; any other, or  *)
(* one whose dump cannot be loaded, starts empty and feeds all of them.    *)
Unmarked(b) == {c \in Rows(build[b].rows) : fed[c] # build[b].rows[c]}

(* Mutant of LoadKA: the marks are kept although the dump was not loaded. *)
LoadKAKeepsMarks(b) ==
    LET r == build[b] IN
    /\ r.pc = "load"
    /\ \E ka \in {{}} \cup (IF r.incremental /\ Loadable THEN {data} ELSE {}) :
           Becomes(b, [r EXCEPT !.pc = "feed", !.ka = ka,
               !.todo = IF r.incremental THEN Unmarked(b) ELSE Rows(r.rows),
               !.prev = IF r.incremental THEN fed ELSE Nothing])
    /\ UNCHANGED <<minChunks, table, diskVars, versionVars, graphVars, op, zombies,
                   ghostVars, boundVars>>

LoadKA(b) ==
    LET r == build[b] IN
    /\ r.pc = "load"
    /\ \/ /\ r.incremental /\ Loadable
          /\ Becomes(b, [r EXCEPT !.pc = "feed", !.ka = data, !.todo = Unmarked(b),
                                  !.prev = fed])
       \/ Becomes(b, [r EXCEPT !.pc = "feed", !.todo = Rows(r.rows)])
    /\ UNCHANGED <<minChunks, table, diskVars, versionVars, graphVars, op, zombies,
                   ghostVars, boundVars>>

(* Mutant of FeedChunk: each chunk starts a new map of owners. *)
FeedChunkForgetsOwners(b) ==
    LET r == build[b]
        c == Min(r.todo)
        names == Yield[c][r.rows[c]] IN
    /\ r.pc = "feed" /\ r.todo # {}
    /\ Becomes(b, [r EXCEPT !.todo = @ \ {c}, !.ka = @ \cup names,
                           !.owned = {c} \X (names \ r.ka)])
    /\ data' \in {data, r.ka \cup names}
    /\ UNCHANGED <<minChunks, table, fed, ckpt, versionVars, graphVars, op, zombies,
                   ghostVars, boundVars>>

(* Chunks are fed in the order of the table. A chunk owns only the names   *)
(* it adds to the KA, not those it shares with what was fed before. After  *)
(* some chunks the KA is dumped, best effort.                              *)
FeedChunk(b) ==
    LET r == build[b]
        c == Min(r.todo)
        names == Yield[c][r.rows[c]] IN
    /\ r.pc = "feed" /\ r.todo # {}
    /\ Becomes(b, [r EXCEPT !.todo = @ \ {c}, !.ka = @ \cup names,
                           !.owned = @ \cup ({c} \X (names \ r.ka))])
    /\ data' \in {data, r.ka \cup names}
    /\ UNCHANGED <<minChunks, table, fed, ckpt, versionVars, graphVars, op, zombies,
                   ghostVars, boundVars>>

(* A failing chunk is skipped. *)
FeedFails(b) ==
    LET r == build[b]
        c == Min(r.todo) IN
    /\ r.pc = "feed" /\ r.todo # {}
    /\ Fault
    /\ Becomes(b, [r EXCEPT !.todo = @ \ {c}])
    /\ skipped' = skipped \cup (Yield[c][r.rows[c]] \ r.ka)
    /\ UNCHANGED <<minChunks, table, diskVars, versionVars, graphVars, op, zombies,
                   damage, healing, before, edits, ops>>

(* A call of the language model never returns. *)
FeedHangs(b) ==
    /\ build[b].pc = "feed" /\ build[b].todo # {}
    /\ Fault
    /\ Goto(b, "hung")
    /\ UNCHANGED <<minChunks, table, diskVars, versionVars, graphVars, op, zombies,
                   ghostVars, edits, ops>>

DumpKA(b) ==
    /\ build[b].pc = "feed" /\ build[b].todo = {}
    /\ data' = build[b].ka
    /\ Goto(b, "sidecar")
    /\ UNCHANGED <<minChunks, table, fed, ckpt, versionVars, graphVars, op, zombies,
                   ghostVars, boundVars>>

(* What was fed is marked, failed chunks included; best effort. *)
Overlay(old, rows, S) == [c \in Chunks |-> IF c \in S THEN rows[c] ELSE old[c]]

(* Mutant of WriteSidecar: the table is read again to mark its chunks. *)
WriteSidecarReread(b) ==
    /\ build[b].pc = "sidecar"
    /\ fed' = Overlay(build[b].prev, table, Rows(table))
    /\ Becomes(b, [build[b] EXCEPT !.pc = IF build[b].ka = {} THEN "finish" ELSE "entities",
                                  !.prev = Nothing])
    /\ UNCHANGED <<minChunks, table, data, ckpt, versionVars, graphVars, op, zombies,
                   ghostVars, boundVars>>

WriteSidecar(b) ==
    LET r == build[b]
        all == Overlay(r.prev, r.rows,
                   {c \in Rows(r.rows) : r.prev[c] # r.rows[c]})
    IN
    /\ r.pc = "sidecar"
    /\ fed' = all
    /\ Becomes(b, [r EXCEPT !.pc = IF r.ka = {} THEN "finish" ELSE "entities",
                           !.prev = Nothing])
    /\ UNCHANGED <<minChunks, table, data, ckpt, versionVars, graphVars, op, zombies,
                   ghostVars, boundVars>>
--------------------------------------------------------------------------------
(* The map-reduce path. Chunks whose mapping is in the checkpoint are      *)
(* reused when the template matches; the others are mapped concurrently,   *)
(* and one that times out counts as mapped to nothing, now and when the    *)
(* checkpoint is reused. Here a name is owned by every chunk that yields it. *)
MapChunks(b) ==
    LET r == build[b] IN
    /\ r.pc = "map"
    /\ \E reuse \in {{}, IF r.incremental
                         THEN {c \in Rows(r.rows) : ckpt.rows[c] = r.rows[c]}
                         ELSE {}} :
       \E lost \in SUBSET (Rows(r.rows) \ reuse) :
           LET mapped == Rows(r.rows) \ (reuse \cup lost)
               got == {m \in Mentions(r.rows) :
                          m[1] \in mapped \/ (m[1] \in reuse /\ m \in ckpt.mentions)}
           IN /\ faults + Cardinality(lost) <= MaxFaults
              /\ faults' = faults + Cardinality(lost)
              /\ Becomes(b, [r EXCEPT !.pc = "checkpoint", !.ka = NamesIn(got),
                                      !.owned = got])
              /\ skipped' = skipped \cup (NamesIn(Mentions(r.rows)) \ NamesIn(got))
    /\ UNCHANGED <<minChunks, table, diskVars, versionVars, graphVars, op, zombies,
                   damage, healing, before, edits, ops>>

WriteCheckpoint(b) ==
    /\ build[b].pc = "checkpoint"
    /\ ckpt' = [rows |-> build[b].rows, mentions |-> build[b].owned]
    /\ Goto(b, "mark")
    /\ UNCHANGED <<minChunks, table, data, fed, versionVars, graphVars, op, zombies,
                   ghostVars, boundVars>>

(* Only the chunks of this table stay marked. *)
MarkMapped(b) ==
    /\ build[b].pc = "mark"
    /\ fed' = build[b].rows
    /\ Goto(b, IF build[b].ka = {} THEN "finish" ELSE "entities")
    /\ UNCHANGED <<minChunks, table, data, ckpt, versionVars, graphVars, op, zombies,
                   ghostVars, boundVars>>

(* Neither file's write may fail the build. *)
SidecarWriteFails(b) ==
    /\ build[b].pc \in {"sidecar", "checkpoint", "mark"}
    /\ Fault
    /\ Goto(b, IF build[b].ka = {} THEN "finish" ELSE "entities")
    /\ Damaged({"stale"})
    /\ UNCHANGED <<minChunks, table, diskVars, versionVars, graphVars, op, zombies,
                   skipped, before, edits, ops>>
--------------------------------------------------------------------------------
(* _insert_kg: the entities of the whole result, then references from the  *)
(* chunks whose vertices this build wrote.                                 *)
InsertEntities(b) ==
    /\ build[b].pc = "entities" /\ schema
    /\ ent' = ent \cup build[b].ka
    /\ Goto(b, "references")
    /\ UNCHANGED <<minChunks, table, diskVars, versionVars, schema, vtx, ref, op, zombies,
                   ghostVars, boundVars>>

References(b) == {m \in build[b].owned : m[1] \in build[b].new}

(* HugeGraph takes an edge only between vertices that are there. *)
Attached(refs) == \A m \in refs : m[2] \in ent /\ vtx[m[1]] # NoText

InsertReferences(b) ==
    /\ build[b].pc = "references"
    /\ Attached(References(b))
    /\ ref' = ref \cup References(b)
    /\ skipped' = skipped \ NamesIn(References(b))
    /\ Goto(b, "finish")
    /\ UNCHANGED <<minChunks, table, diskVars, versionVars, schema, vtx, ent, op, zombies,
                   damage, healing, before, boundVars>>

(* The build is over, and the limit of run_background with it. The lock is *)
(* kept for the ontology gate, which has a limit of its own and may only   *)
(* relabel the build, and for a snapshot of the template's shapes.         *)
FinishBuild(b) ==
    /\ build[b].pc = "finish"
    /\ Becomes(b, [Idle EXCEPT !.pc = "snapshot", !.w = build[b].w])
    /\ damage' = IF build[b].incremental THEN damage ELSE damage \ healing
    /\ healing' = IF build[b].incremental THEN healing ELSE {}
    /\ UNCHANGED <<minChunks, table, diskVars, versionVars, graphVars, op, zombies,
                   skipped, before, boundVars>>

ReleaseLock(b) ==
    /\ build[b].pc = "snapshot"
    /\ End(b, "completed")
    /\ UNCHANGED <<minChunks, table, diskVars, versionVars, graphVars, op, zombies,
                   ghostVars, boundVars>>

(* No limit covers the snapshot: where its write hangs, the lock is kept   *)
(* for as long as the process lives.                                       *)
SnapshotHangs(b) ==
    /\ build[b].pc = "snapshot"
    /\ Fault
    /\ Goto(b, "stuck")
    /\ UNCHANGED <<minChunks, table, diskVars, versionVars, graphVars, op, zombies,
                   ghostVars, edits, ops>>
--------------------------------------------------------------------------------
(* Failures. *)
(* A build that ends early leaves a part of what it was writing. *)
PartWritten(b) ==
    LET r == build[b]
        At(pc, S) == IF schema /\ r.pc = pc THEN SUBSET S ELSE {{}}
        refs == {m \in References(b) : Attached({m})}
    IN
    /\ \E S \in At("vertices", NewChunks(b)) : vtx' = WithVertices(S, r.rows)
    /\ \E S \in At("entities", r.ka) : ent' = ent \cup S
    /\ \E S \in At("references", refs) : ref' = ref \cup S
    /\ schema' = schema

(* What ending early damages: the vertices are ahead of the marks; the     *)
(* dump holds less than the marks say; the checkpoint holds what neither   *)
(* the dump nor the graph has.                                             *)
Cut(b) ==
    LET r == build[b] IN
    {"cut"}
    \cup (IF r.pc \in {"feed", "hung", "sidecar"} THEN {"partial"} ELSE {})
    \cup (IF r.pc \in {"entities", "references"} /\ MapReduced(r.rows)
             THEN {"mapcut"} ELSE {})

(* A call of HugeGraph or of the extractor raises, or the final dump. *)
BuildFails(b) ==
    /\ \/ build[b].pc \in {"vertices", "map", "entities", "references"}
       \/ build[b].pc = "feed" /\ build[b].todo = {}
    /\ Fault
    /\ PartWritten(b)
    /\ End(b, "failed")
    /\ Damaged(Cut(b))
    /\ UNCHANGED <<minChunks, table, diskVars, versionVars, op, zombies, skipped, before,
                   edits, ops>>

(* The graph was cleared since the build ensured the schema: HugeGraph     *)
(* refuses what it writes.                                                 *)
GraphGone(b) ==
    /\ \/ build[b].pc = "vertices" /\ NewChunks(b) # {} /\ ~schema
       \/ build[b].pc = "entities" /\ ~schema
       \/ build[b].pc = "references" /\ ~Attached(References(b))
    /\ End(b, "failed")
    /\ Damaged(Cut(b))
    /\ UNCHANGED <<minChunks, table, diskVars, versionVars, graphVars, op, zombies, skipped,
                   before, boundVars>>

(* Where the coroutine awaits, and may be cancelled. *)
Awaiting == {"vertices", "archive", "map", "feed", "hung", "entities", "references"}

(* Mutant of TimeoutBuild: a cancelled build waits for its thread. *)
TimeoutBuildWaits(b) ==
    IF build[b].pc = "hung" THEN UNCHANGED vars
    ELSE /\ build[b].pc \in Awaiting
         /\ Fault
         /\ PartWritten(b)
         /\ End(b, "failed")
         /\ Damaged(Cut(b))
         /\ UNCHANGED <<minChunks, table, diskVars, versionVars, op, zombies, skipped,
                        before, edits, ops>>

(* run_background's limit: the coroutine is cancelled and the lock freed.  *)
(* A dump that is being written is written to its end by its thread.       *)
TimeoutBuild(b) ==
    LET r == build[b] IN
    /\ r.pc \in Awaiting
    /\ r.pc = "hung" \/ faults < MaxFaults
    /\ faults' = IF r.pc = "hung" THEN faults ELSE faults + 1
    /\ PartWritten(b)
    /\ End(b, "failed")
    /\ zombies' \in {zombies} \cup
           (IF r.pc = "feed" THEN {zombies \cup {[w |-> r.w, ka |-> r.ka]}} ELSE {})
    /\ Damaged(Cut(b))
    /\ UNCHANGED <<minChunks, table, diskVars, versionVars, op, skipped, before, edits, ops>>

ZombieDump(z) ==
    /\ z \in zombies
    /\ data' = z.ka
    /\ zombies' = zombies \ {z}
    /\ RacedUnless(FALSE)
    /\ UNCHANGED <<minChunks, table, fed, ckpt, versionVars, graphVars, build, op, skipped,
                   boundVars>>

(* The process dies, with its builds, endpoints and threads. Only the      *)
(* sidecar and the checkpoint are written atomically: a dump may be torn,  *)
(* and a manifest that cannot be parsed reads as an empty one.             *)
Crash(w) ==
    LET mine == {b \in Builds : build[b].w = w
                                /\ build[b].pc \notin {"none"} \cup Ended}
        writing == \/ \E b \in mine : build[b].pc = "feed"
                   \/ op.pc = "restore" /\ op.w = w
                   \/ \E z \in zombies : z.w = w
        listing == \/ \E b \in mine : build[b].pc \in {"list", "trim"}
                   \/ op.pc \in {"list", "trim"} /\ op.w = w
    IN
    /\ mine # {} \/ (op.pc # "idle" /\ op.w = w) \/ \E z \in zombies : z.w = w
    /\ Fault
    /\ data' \in {data} \cup (IF writing THEN {Torn} ELSE {})
    /\ manifest' \in {manifest} \cup (IF listing THEN {<<>>} ELSE {})
    /\ before' = IF op.pc = "trim" /\ op.w = w THEN NoDump ELSE before
    /\ build' = [b \in Builds |-> IF b \in mine THEN [Idle EXCEPT !.pc = "gone"]
                                               ELSE build[b]]
    /\ op' = IF op.w = w THEN NoOp ELSE op
    /\ zombies' = {z \in zombies : z.w # w}
    /\ IF \E b \in mine : Running(b)
          THEN \E b \in mine : Running(b) /\ PartWritten(b) /\ Damaged(Cut(b))
          ELSE UNCHANGED <<graphVars, damage, healing>>
    /\ UNCHANGED <<minChunks, table, fed, ckpt, dirs, skipped, edits, ops>>
--------------------------------------------------------------------------------
(* The operator: endpoints that take no lock. *)
NoWriter == Quiet /\ zombies = {}

ClearGraph ==
    /\ ops < MaxOps /\ ops' = ops + 1
    /\ schema' = FALSE /\ vtx' = Nothing /\ ent' = {} /\ ref' = {}
    /\ Damaged({"cleared"})
    /\ UNCHANGED <<minChunks, table, diskVars, versionVars, build, op, zombies, skipped,
                   before, edits, faults>>

(* rollback: the version is listed and its directory there; the dump is    *)
(* archived, listed, and replaced.                                         *)
RollbackStart(w, v) ==
    /\ op.pc = "idle" /\ ops < MaxOps /\ ops' = ops + 1
    /\ v \in ToSet(manifest) /\ dirs[v] # NoDump
    /\ dirs' = IF data = NoDump THEN dirs ELSE Append(dirs, data)
    /\ op' = [pc |-> IF data = NoDump THEN "restore" ELSE "list", w |-> w,
              target |-> v, v |-> Len(dirs'), seen |-> manifest]
    /\ Damaged(IF NoWriter THEN {} ELSE {"raced"})
    /\ before' = IF NoWriter THEN data ELSE NoDump
    /\ UNCHANGED <<minChunks, table, diskVars, manifest, graphVars, build, zombies, skipped,
                   edits, faults>>

RollbackList ==
    /\ op.pc = "list"
    /\ manifest' = Append(op.seen, op.v)
    /\ op' = [op EXCEPT !.pc = "restore", !.seen = <<>>, !.v = 0]
    /\ UNCHANGED <<minChunks, table, diskVars, dirs, graphVars, build, zombies, ghostVars, boundVars>>

RollbackRestore ==
    /\ op.pc = "restore"
    /\ data' = IF dirs[op.target] = NoDump THEN data ELSE dirs[op.target]
    /\ op' = NoOp
    /\ Damaged({"rolledback"} \cup (IF NoWriter THEN {} ELSE {"raced"}))
    /\ UNCHANGED <<minChunks, table, fed, ckpt, versionVars, graphVars, build, zombies,
                   skipped, before, boundVars>>

PruneOp(w, keep) ==
    LET kept == Newest(manifest, keep) IN
    /\ op.pc = "idle" /\ ops < MaxOps /\ ops' = ops + 1
    /\ manifest # <<>>
    /\ dirs' = Without(kept)
    /\ op' = [NoOp EXCEPT !.pc = "trim", !.w = w, !.seen = kept]
    /\ Damaged(IF NoWriter THEN {} ELSE {"raced"})
    /\ before' = IF NoWriter /\ keep > 0 THEN before ELSE NoDump
    /\ UNCHANGED <<minChunks, table, diskVars, manifest, graphVars, build, zombies, skipped,
                   edits, faults>>

PruneOpList ==
    /\ op.pc = "trim"
    /\ manifest' = op.seen
    /\ op' = NoOp
    /\ UNCHANGED <<minChunks, table, diskVars, dirs, graphVars, build, zombies, ghostVars, boundVars>>
--------------------------------------------------------------------------------
(* Over, or held up by a snapshot that hangs in its process. *)
OverOrStuck(b) ==
    \/ build[b].pc \in Ended \cup {"none", "stuck"}
    \/ /\ build[b].pc = "queued"
       /\ \E x \in Builds : build[x].pc = "stuck" /\ build[x].w = build[b].w

Done ==
    /\ \A b \in Builds : build[b].pc # "none" /\ OverOrStuck(b)
    /\ op.pc = "idle" /\ zombies = {}
    /\ UNCHANGED vars

BuildStep(b) ==
    \/ AcquireLock(b) \/ AddVertices(b)
    \/ ArchiveCopy(b) \/ ArchiveList(b) \/ PruneDirs(b) \/ PruneList(b)
    \/ LoadKA(b) \/ FeedChunk(b) \/ DumpKA(b) \/ WriteSidecar(b)
    \/ MapChunks(b) \/ WriteCheckpoint(b) \/ MarkMapped(b)
    \/ InsertEntities(b) \/ InsertReferences(b)
    \/ FinishBuild(b) \/ ReleaseLock(b) \/ GraphGone(b)

BuildFault(b) ==
    \/ VersioningFails(b) \/ FeedFails(b) \/ FeedHangs(b)
    \/ SidecarWriteFails(b) \/ BuildFails(b) \/ TimeoutBuild(b)
    \/ SnapshotHangs(b)

OpStep == RollbackList \/ RollbackRestore \/ PruneOpList

Next ==
    \/ \E c \in Chunks, t \in Texts \cup {NoText} : EditTable(c, t)
    \/ \E w \in Workers, i \in BOOLEAN : KgBuild(w, i)
    \/ \E b \in Builds : BuildStep(b) \/ BuildFault(b)
    \/ \E z \in zombies : ZombieDump(z)
    \/ \E w \in Workers : Crash(w)
    \/ ClearGraph
    \/ \E w \in Workers, v \in DOMAIN dirs : RollbackStart(w, v)
    \/ \E w \in Workers, k \in PruneKeeps : PruneOp(w, k)
    \/ OpStep
    \/ Done

Spec == Init /\ [][Next]_vars

(* A worker's event loop goes on with a build, the lifetime timer fires    *)
(* for one that hangs, and an endpoint's thread runs to its end. The bounds *)
(* leave no infinite behaviour but stuttering, so fairness of them together *)
(* is fairness of each.                                                    *)
Progress ==
    \/ \E b \in Builds : BuildStep(b) \/ (build[b].pc = "hung" /\ TimeoutBuild(b))
    \/ OpStep

FairSpec == Spec /\ WF_vars(Progress)
--------------------------------------------------------------------------------
Files == {NoDump, Torn} \cup SUBSET Names
Rowss == [Chunks -> Texts \cup {NoText}]

DatasetPcs == {"archive", "list", "prune", "trim", "load", "feed", "hung", "sidecar"}
MapPcs == {"map", "checkpoint", "mark"}
InsertPcs == {"entities", "references", "finish"}
PastPcs == DatasetPcs \cup MapPcs \cup InsertPcs
Pcs == {"none", "queued", "vertices", "snapshot", "stuck"} \cup PastPcs \cup Ended
BuildStates ==
    [pc : Pcs, w : Workers, incremental : BOOLEAN, rows : Rowss, new : SUBSET Chunks,
     todo : SUBSET Chunks, ka : SUBSET Names, owned : SUBSET (Chunks \X Names),
     prev : Rowss, v : Nat, seen : Seq(Nat)]
OpStates ==
    [pc : {"idle", "list", "restore", "trim"}, w : Workers, target : Nat, v : Nat,
     seen : Seq(Nat)]

(* What may happen to the files and the graph. *)
Kinds == {"cleared", "cut", "raced", "stale", "partial", "mapcut", "rolledback"}

(* A version that is listed, or about to be, was made. *)
SeenExist(r) ==
    ToSet(r.seen) \subseteq DOMAIN dirs /\ (r.pc = "list" => r.v \in DOMAIN dirs)
ListedExist ==
    /\ ToSet(manifest) \subseteq DOMAIN dirs
    /\ \A b \in Builds : SeenExist(build[b])
    /\ SeenExist(op)
    /\ op.pc \in {"list", "restore"} => op.target \in DOMAIN dirs

BaseTypes ==
    /\ minChunks \in Nat /\ schema \in BOOLEAN
    /\ table \in Rowss /\ fed \in Rowss /\ vtx \in Rowss
    /\ data \in Files /\ before \in Files
    /\ ckpt \in [rows : Rowss, mentions : SUBSET (Chunks \X Names)]
    /\ ckpt.mentions \subseteq Mentions(ckpt.rows)
    /\ dirs \in Seq(Files) /\ manifest \in Seq(Nat)
    /\ ent \subseteq Names /\ ref \subseteq Chunks \X Names /\ skipped \subseteq Names
    /\ build \in [Builds -> BuildStates] /\ op \in OpStates
    /\ zombies \subseteq [w : Workers, ka : SUBSET Names]
    /\ damage \subseteq Kinds /\ healing \subseteq damage
    /\ edits \in 0 .. MaxEdits /\ faults \in 0 .. MaxFaults /\ ops \in 0 .. MaxOps

(* Types; the checkpoint holds mentions of the chunks it lists, and a      *)
(* version that is listed was made.                                        *)
TypeOK == BaseTypes /\ ListedExist

(* fed_chunks.json is the "already built" marker: a chunk it marks has a   *)
(* vertex in the graph, through crashes, timeouts, failed writes and races *)
(* of builds, unless the graph was cleared. _execute_build writes the      *)
(* vertices before either path marks.                                      *)
MarkedHasVertex ==
    "cleared" \notin damage => Rows(fed) \subseteq Rows(vtx)

(* While no build runs, the vertex of a marked chunk holds the text the    *)
(* mark stands for, so that steps 2 to 5 may skip it: the hash comparison  *)
(* of new_idx and that of build_dataset_ka agree. Builds that ended early, *)
(* raced or could not write a sidecar are excepted until a full build.     *)
MarkedMatchesVertex ==
    (Quiet /\ damage \cap {"cleared", "cut", "raced", "stale"} = {})
        => \A c \in Rows(fed) : vtx[c] = fed[c]

(* While no build runs, every name that a marked chunk yields is           *)
(* referenced from some chunk, or was missed by a failed extraction. Of    *)
(* what _execute_build relies on when it writes the edges of new chunks    *)
(* only, "references edges for OLD chunks' entities already exist from     *)
(* prior builds", this much holds through edits, changes of path, of       *)
(* template and failed sidecars: the entity is never left without an edge. *)
(* An edge from each chunk that yields it there need not be: the dataset   *)
(* path gives a name to the first chunk only. Every other damage refutes   *)
(* it until a full build that writes the dump.                             *)
MarkedReferenced ==
    (Quiet /\ damage \subseteq {"stale"})
        => NamesIn(Mentions(fed)) \subseteq NamesIn(ref) \cup skipped

(* A build that reaches its end has the entities of all its chunks in the  *)
(* graph, or their extraction failed, whatever build was cut before it and *)
(* wherever: the incremental retry of a failed insert re-inserts the whole *)
(* KA. The exceptions are what it cannot see: a graph that was cleared, a  *)
(* dump that was rolled back or overwritten, a dump of a cut feed or a     *)
(* checkpoint of the other path with marks that promise more.              *)
RetryCompletes ==
    \A b \in Builds :
        /\ build[b].pc = "finish"
        /\ damage \cap {"cleared", "raced", "rolledback", "partial", "stale"} = {}
        /\ MapReduced(build[b].rows) \/ "mapcut" \notin damage
        => NamesIn(Mentions(build[b].rows)) \subseteq ent \cup skipped

(* The dump that a build or a rollback found is still the active one or a  *)
(* listed version with its directory, so it can be rolled back to          *)
(* (archive_current before overwrite, then prune), whatever happens to the *)
(* build.                                                                  *)
PreviousDumpKept == before \in {NoDump, data} \cup Recoverable

(* Every build ends, and so frees the lock its dataset's builds queue for: *)
(* a hung call is ended by the limit of run_background. The exception is a *)
(* snapshot that hangs after that limit is over: it keeps the lock and     *)
(* holds up the builds of its process. (Stated for all builds at once:     *)
(* again and again each of them is over, or stuck with a snapshot.)        *)
EveryBuildEnds == []<>(\A b \in Builds : OverOrStuck(b))
--------------------------------------------------------------------------------
(* The inductive invariants behind the safety properties. Each is about    *)
(* what the running builds have written so far, and holds while the damage *)
(* it is sensitive to has not happened, or is being made good by the build *)
(* that runs.                                                              *)
Unmended == damage \ healing
Past(b) == build[b].pc \in PastPcs

(* Where a build is, and what it has collected by then. *)
Shape(b) ==
    LET r == build[b] IN
    /\ r.pc \notin {"feed", "hung", "sidecar", "checkpoint", "mark"} \cup InsertPcs
           => r.prev = Nothing /\ r.ka = {} /\ r.owned = {}
    /\ r.pc \notin {"feed", "hung"} => r.todo = {}
    /\ ~r.incremental => r.prev = Nothing
    /\ r.pc \in DatasetPcs => ~MapReduced(r.rows)
    /\ r.pc \in MapPcs => MapReduced(r.rows)
    /\ r.todo \subseteq Rows(r.rows) /\ r.owned \subseteq Mentions(r.rows)

(* A full build that heals is past its vertices and alone; a map-reduced   *)
(* one heals only where there is no dump. *)
Healer(b) ==
    /\ Past(b) /\ ~build[b].incremental /\ Alone(b)
    /\ MapReduced(build[b].rows) => data = NoDump

(* Where no race is left, whoever writes writes alone. *)
Exclusive ==
    /\ \A b \in Builds : Running(b) => Alone(b)
    /\ op.pc # "idle" => zombies = {}

HealInv == healing # {} => \E b \in Builds : Healer(b)
SoloInv == "raced" \notin Unmended => Exclusive
ControlInv == (\A b \in Builds : Shape(b)) /\ HealInv /\ SoloInv

(* MarkedHasVertex: vertices are there before the marks are written. *)
HasVertexInv ==
    /\ "cleared" \notin Unmended =>
           \A b \in Builds : Past(b) =>
               Rows(build[b].rows) \cup Rows(build[b].prev) \subseteq Rows(vtx)
    /\ \/ "cleared" \notin damage
       \/ "cleared" \notin Unmended /\ \E b \in Builds : build[b].pc \in InsertPcs
       => Rows(fed) \subseteq Rows(vtx)

(* MarkedMatchesVertex: what is marked, or about to be. *)
MatchKinds == {"cleared", "cut", "raced", "stale"}
Holds(f, S) == \A c \in Rows(f) : c \in S \/ vtx[c] = f[c]
MatchInv ==
    /\ Unmended \cap MatchKinds = {} =>
           \A b \in Builds : Past(b) =>
               /\ Holds(build[b].rows, {})
               /\ Holds(build[b].prev, Rows(build[b].rows))
               /\ build[b].pc \in InsertPcs => Holds(fed, {})
    /\ damage \cap MatchKinds = {} =>
           Holds(fed, UNION {Rows(build[b].rows) : b \in {x \in Builds : Past(x)}})

(* PreviousDumpKept: the dump is listed before it may be overwritten, and  *)
(* active while the list is being rewritten.                               *)
LastIs(s, dump) == s # <<>> /\ s[Len(s)] \in DOMAIN dirs /\ dirs[s[Len(s)]] = dump
KeptAt(r) ==
    /\ r.pc \in {"list", "prune", "trim"} => before = data
    /\ r.pc = "list" => r.v \in DOMAIN dirs /\ dirs[r.v] = before
    /\ r.pc \in {"prune", "trim", "load", "feed"} => LastIs(manifest, before)
    /\ r.pc = "trim" => LastIs(r.seen, before)
KeptInv ==
    /\ data = NoDump => before = NoDump
    /\ before # NoDump =>
           /\ Exclusive
           /\ before = data \/ LastIs(manifest, before)
           /\ \A b \in Builds : KeptAt(build[b])
           /\ op.pc = "list" => before = data /\ op.v \in DOMAIN dirs /\ dirs[op.v] = before
           /\ op.pc = "restore" => LastIs(manifest, before)
           /\ op.pc = "trim" => before = data \/ LastIs(op.seen, before)
           /\ zombies # {} => LastIs(manifest, before)

(* RetryCompletes: the names in what is marked, and in what a build has    *)
(* dealt with, are in the dump, or among the entities, or were skipped.    *)
RetryKinds == {"cleared", "raced", "rolledback", "partial", "stale", "mapcut"}
Inserted == ent \cup skipped
Pending(b) == NamesIn({m \in Mentions(build[b].rows) : m[1] \in build[b].todo})
Collected(b) ==
    LET r == build[b] IN
    /\ r.pc \in {"feed", "hung", "sidecar", "checkpoint", "mark"} \cup InsertPcs
           => NamesIn(Mentions(r.rows)) \subseteq r.ka \cup Inserted \cup Pending(b)
    /\ r.pc \in {"references", "finish"} => r.ka \subseteq ent
Carries(b) ==
    LET r == build[b] IN
    /\ Collected(b)
    /\ NamesIn(Mentions(r.prev)) \subseteq r.ka \cup Inserted
    /\ r.pc \in InsertPcs /\ Loadable =>
           /\ NamesIn(Mentions(fed)) \subseteq data \cup Inserted \cup r.ka
           /\ ~MapReduced(r.rows) => r.ka \subseteq data
    /\ r.pc = "sidecar" /\ Loadable => r.ka \subseteq data
EntityInv ==
    /\ "cleared" \notin Unmended => \A b \in Builds : MapReduced(build[b].rows) => Collected(b)
    /\ Unmended \cap RetryKinds = {} => \A b \in Builds : Carries(b)
    /\ damage \cap RetryKinds = {} /\ Loadable
         /\ (\A b \in Builds : build[b].pc \notin {"feed", "hung", "sidecar"} \cup InsertPcs)
           => NamesIn(Mentions(fed)) \subseteq data \cup Inserted

(* MarkedReferenced: every name of the dump, and of what is marked, has a  *)
(* reference, was skipped, or is about to be given one by the build that   *)
(* owns it.                                                                *)
Covered == NamesIn(ref) \cup skipped
Owes(b) ==
    LET r == build[b] IN
    /\ Past(b) => \A m \in Mentions(r.rows) : m[1] \in r.new \/ m[2] \in Covered
    /\ r.ka \subseteq Covered \cup NamesIn(r.owned)
    /\ r.pc = "finish" => r.ka \subseteq Covered
    /\ r.pc \in {"feed", "hung", "sidecar", "checkpoint", "mark"} \cup InsertPcs
           => NamesIn(Mentions(r.rows)) \subseteq r.ka \cup Covered \cup Pending(b)
    /\ NamesIn(Mentions(r.prev)) \subseteq Covered
    /\ r.pc \in InsertPcs => NamesIn(Mentions(fed)) \subseteq r.ka \cup Covered
    /\ r.pc \in {"sidecar"} \cup InsertPcs /\ ~MapReduced(r.rows) /\ Loadable
           => data \subseteq r.ka \cup Covered
CoveredInv ==
    /\ Unmended \subseteq {"stale"} => \A b \in Builds : Owes(b)
    /\ damage \subseteq {"stale"} =>
           /\ Loadable => \A n \in data : n \in Covered \/ \E b \in Builds : n \in build[b].ka
           /\ (\A b \in Builds : build[b].pc \notin InsertPcs) => NamesIn(Mentions(fed)) \subseteq Covered
================================================================================
