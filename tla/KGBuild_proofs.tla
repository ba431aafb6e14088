----------------------------- MODULE KGBuild_proofs -----------------------------
(***************************************************************************)
(* Proofs about KGBuild, for any workers, chunks, texts, yields,           *)
(* thresholds and versions kept, and any number of builds, edits, faults   *)
(* and operator calls.                                                     *)
(***************************************************************************)
EXTENDS KGBuild, FiniteSetTheorems, SequenceTheorems, WellFoundedInduction, TLAPS

\* A set of chunks has a smallest one.
LEMMA MinIn ==
    ASSUME NEW S \in SUBSET Chunks, S # {}
    PROVE  Min(S) \in S
<1> DEFINE R == OpToRel(<, Nat)
<1>1. S \subseteq Nat
  BY BuildConstants DEF Chunks
<1>2. IsWellFoundedOn(R, Nat)
  BY NatLessThanWellFounded
<1>3. \A x, y \in Nat : x < y => <<x, y>> \in R
  BY DEF OpToRel
<1> HIDE DEF R
<1>4. PICK x \in S : \A y \in S : <<y, x>> \notin R
  BY <1>1, <1>2, WFMin
<1>5. \A y \in S : ~(y < x)
  BY <1>1, <1>3, <1>4
<1>6. \A y \in S : x <= y
  BY <1>1, <1>5
<1> QED
  BY <1>6 DEF Min

\* The stages of a build.
LEMMA PcsAre ==
    /\ Ended \subseteq Pcs
    /\ {"none", "queued", "vertices", "archive", "list", "prune", "trim", "load", "feed",
        "hung", "sidecar", "map", "checkpoint", "mark", "entities", "references",
        "finish", "snapshot", "stuck"} \subseteq Pcs
  BY DEF Pcs, PastPcs, DatasetPcs, MapPcs, InsertPcs

\* Types of the rows and mentions of a table.
LEMMA RowsIn ==
    /\ \A f : Rows(f) \subseteq Chunks
    /\ \A f : Mentions(f) \subseteq Chunks \X Names
    /\ Nothing \in Rowss /\ Rows(Nothing) = {} /\ Mentions(Nothing) = {}
  BY DEF Rows, Mentions, Nothing, Rowss

\* What names a set of mentions has.
LEMMA NamesOf ==
    /\ \A S \in SUBSET (Chunks \X Names) : NamesIn(S) \subseteq Names
    /\ \A f : NamesIn(Mentions(f)) \subseteq Names
    /\ NamesIn({}) = {}
  BY RowsIn DEF NamesIn

\* A chunk with a text yields names.
LEMMA YieldIs ==
    ASSUME NEW f \in Rowss, NEW c \in Rows(f)
    PROVE  /\ Yield[c][f[c]] \subseteq Names
           /\ {c} \X Yield[c][f[c]] \subseteq Mentions(f)
           /\ Yield[c][f[c]] \subseteq NamesIn(Mentions(f))
<1>1. c \in Chunks /\ f[c] \in Texts /\ f[c] # NoText
  BY DEF Rows, Rowss
<1>3. Yield[c][f[c]] \subseteq Names
  BY <1>1, BuildConstants DEF Chunks
<1>4. ASSUME NEW n \in Yield[c][f[c]] PROVE <<c, n>> \in Mentions(f)
  BY <1>1, <1>3, <1>4 DEF Mentions
<1>5. ASSUME NEW n \in Yield[c][f[c]] PROVE n \in NamesIn(Mentions(f))
  <2>1. <<c, n>> \in Mentions(f) /\ <<c, n>>[2] = n
    BY <1>4, <1>5
  <2> QED
    BY <2>1 DEF NamesIn
<1> QED
  BY <1>3, <1>4, <1>5

\* The values that a finished archive step resets to.
LEMMA EmptySeqIn == <<>> \in Seq(Nat) /\ 0 \in Nat
  OBVIOUS

\* The initial and final records are of their types.
LEMMA IdleState ==
    /\ Idle \in BuildStates
    /\ \A st \in Ended : [Idle EXCEPT !.pc = st] \in BuildStates
    /\ NoOp \in OpStates
<1>1. (CHOOSE w \in Workers : TRUE) \in Workers
  BY BuildConstants
<1>2. Idle \in BuildStates
  BY <1>1, PcsAre, RowsIn, EmptySeqIn DEF Idle, BuildStates
<1>3. NoOp \in OpStates
  BY <1>1, EmptySeqIn DEF NoOp, OpStates, Idle
<1> QED
  BY <1>2, <1>3, PcsAre DEF BuildStates

\* One build changes, the others do not.
LEMMA BecomesIs ==
    ASSUME build \in [Builds -> BuildStates], NEW b \in Builds, NEW r, Becomes(b, r)
    PROVE  /\ build'[b] = r /\ \A x \in Builds \ {b} : build'[x] = build[x]
           /\ r \in BuildStates => build' \in [Builds -> BuildStates]
  BY DEF Becomes

\* A move to another stage keeps the types.
LEMMA GotoIs ==
    ASSUME build \in [Builds -> BuildStates], NEW b \in Builds, NEW p \in Pcs, Goto(b, p)
    PROVE  build' \in [Builds -> BuildStates]
<1>1. [build[b] EXCEPT !.pc = p] \in BuildStates
  BY DEF BuildStates
<1> QED
  BY <1>1, BecomesIs DEF Goto

\* The end of a build keeps the types.
LEMMA EndIs ==
    ASSUME build \in [Builds -> BuildStates], NEW b \in Builds, NEW st \in Ended, End(b, st)
    PROVE  build' \in [Builds -> BuildStates]
  BY IdleState, BecomesIs DEF End

\* What a build that is cut leaves behind is damage of a known kind.
LEMMA CutKinds ==
    ASSUME NEW b
    PROVE  Cut(b) \subseteq Kinds /\ "cut" \in Cut(b)
  BY DEF Cut, Kinds

\* Damage makes every repair that was under way void.
LEMMA DamagedIs ==
    ASSUME NEW kinds \in SUBSET Kinds, Damaged(kinds), damage \subseteq Kinds,
           healing \subseteq damage
    PROVE  /\ damage' = damage \cup kinds /\ damage' \subseteq Kinds
           /\ healing' \subseteq damage'
           /\ kinds # {} => healing' = {}
           /\ kinds = {} => healing' = healing
  BY DEF Damaged

\* The newest versions are of the list, and the last one stays the last.
LEMMA NewestIs ==
    ASSUME NEW s \in Seq(Nat), NEW n \in Nat
    PROVE  /\ Newest(s, n) \in Seq(Nat) /\ ToSet(Newest(s, n)) \subseteq ToSet(s)
           /\ n > 0 /\ s # <<>> =>
                  /\ Newest(s, n) # <<>> /\ Len(Newest(s, n)) > 0
                  /\ Newest(s, n)[Len(Newest(s, n))] = s[Len(s)]
<1> DEFINE m == IF n < Len(s) THEN Len(s) - n + 1 ELSE 1
           t == SubSeq(s, m, Len(s))
<1>1. Len(s) \in Nat /\ m \in Nat /\ m >= 1 /\ DOMAIN s = 1 .. Len(s)
      /\ (n > 0 /\ s # <<>> => m <= Len(s) /\ Len(s) > 0)
  OBVIOUS
<1>2. \A i \in m .. Len(s) : s[i] \in Nat
  BY <1>1
<1> HIDE DEF m
<1>3. /\ t \in Seq(Nat)
      /\ Len(t) = IF m <= Len(s) THEN Len(s) - m + 1 ELSE 0
      /\ \A i \in 1 .. Len(s) - m + 1 : t[i] = s[m + i - 1]
  BY <1>1, <1>2, SubSeqProperties
<1>4. Newest(s, n) = t
  BY DEF Newest, m
<1> HIDE DEF t
<1>5. ToSet(t) \subseteq ToSet(s)
  <2> SUFFICES ASSUME NEW i \in DOMAIN t PROVE t[i] \in ToSet(s)
    BY DEF ToSet
  <2>1. i \in 1 .. Len(t) /\ Len(t) \in Nat
    BY <1>3
  <2>2. i \in 1 .. Len(s) - m + 1 /\ m + i - 1 \in 1 .. Len(s)
    BY <1>1, <1>3, <2>1, SMTT(30)
  <2> QED
    BY <2>2, <1>1, <1>3 DEF ToSet
<1>6. ASSUME n > 0, s # <<>> PROVE t # <<>> /\ Len(t) > 0 /\ t[Len(t)] = s[Len(s)]
  <2>1. Len(t) = Len(s) - m + 1 /\ Len(t) > 0 /\ m + Len(t) - 1 = Len(s)
    BY <1>1, <1>3, <1>6
  <2>2. t[Len(t)] = s[m + Len(t) - 1]
    BY <2>1, <1>1, <1>3, SMTT(30)
  <2>3. t # <<>>
    BY <2>1
  <2> QED
    BY <2>1, <2>2, <2>3
<1> QED
  BY <1>3, <1>4, <1>5, <1>6

\* What appending does to a list of versions.
LEMMA AppendIs ==
    ASSUME NEW T, NEW s \in Seq(T), NEW e \in T
    PROVE  /\ Append(s, e) \in Seq(T) /\ Append(s, e) # <<>>
           /\ Len(Append(s, e)) = Len(s) + 1 /\ Append(s, e)[Len(s) + 1] = e
           /\ DOMAIN Append(s, e) = 1 .. Len(s) + 1 /\ DOMAIN s = 1 .. Len(s)
           /\ \A i \in 1 .. Len(s) : Append(s, e)[i] = s[i]
           /\ ToSet(Append(s, e)) \subseteq ToSet(s) \cup {e}
<1>1. /\ Append(s, e) \in Seq(T) /\ Append(s, e) # <<>>
      /\ Len(Append(s, e)) = Len(s) + 1 /\ Append(s, e)[Len(s) + 1] = e
      /\ DOMAIN Append(s, e) = 1 .. Len(s) + 1 /\ DOMAIN s = 1 .. Len(s)
      /\ \A i \in 1 .. Len(s) : Append(s, e)[i] = s[i]
  BY AppendProperties
<1>2. ToSet(Append(s, e)) \subseteq ToSet(s) \cup {e}
  <2> SUFFICES ASSUME NEW i \in 1 .. Len(s) + 1 PROVE Append(s, e)[i] \in ToSet(s) \cup {e}
    BY <1>1 DEF ToSet
  <2>1. CASE i = Len(s) + 1
    BY <1>1, <2>1
  <2>2. CASE i \in 1 .. Len(s)
    BY <1>1, <2>2 DEF ToSet
  <2> QED
    BY <2>1, <2>2, LenProperties
<1> QED
  BY <1>1, <1>2

\* A prune removes directories and leaves the versions they were.
LEMMA WithoutIs ==
    ASSUME dirs \in Seq(Files), NEW kept
    PROVE  /\ Without(kept) \in Seq(Files) /\ DOMAIN Without(kept) = DOMAIN dirs
           /\ \A v \in ToSet(kept) \cap DOMAIN dirs : Without(kept)[v] = dirs[v]
<1>1. Len(dirs) \in Nat /\ DOMAIN dirs = 1 .. Len(dirs)
      /\ \A v \in 1 .. Len(dirs) : dirs[v] \in Files
  BY LenProperties
<1>2. Without(kept) \in [1 .. Len(dirs) -> Files]
  BY <1>1 DEF Without, Files
<1>3. Without(kept) \in Seq(Files)
  BY <1>1, <1>2, SeqDef
<1> QED
  BY <1>1, <1>3 DEF Without


\* The chunk a build feeds next yields names.
LEMMA FedNames ==
    ASSUME build \in [Builds -> BuildStates], NEW b \in Builds, Shape(b), build[b].todo # {}
    PROVE  LET c == Min(build[b].todo)
               names == Yield[c][build[b].rows[c]] IN
           /\ c \in build[b].todo /\ c \in Chunks
           /\ names \subseteq Names
           /\ {c} \X names \subseteq Mentions(build[b].rows)
           /\ names \subseteq NamesIn(Mentions(build[b].rows))
<1>1. build[b].todo \subseteq Chunks /\ build[b].rows \in Rowss
      /\ build[b].todo \subseteq Rows(build[b].rows)
  BY DEF BuildStates, Shape
<1>2. Min(build[b].todo) \in build[b].todo
  BY <1>1, MinIn
<1> QED
  BY <1>1, <1>2, YieldIs

\* What an early end leaves in the graph.
LEMMA PartWrittenIs ==
    ASSUME BaseTypes, NEW b \in Builds, PartWritten(b)
    PROVE  /\ vtx' \in Rowss /\ ent' \subseteq Names /\ ref' \subseteq Chunks \X Names
           /\ schema' \in BOOLEAN
<1>0. /\ schema \in BOOLEAN /\ vtx \in Rowss /\ ent \subseteq Names /\ ref \subseteq Chunks \X Names
      /\ build[b].rows \in Rowss /\ build[b].ka \subseteq Names /\ build[b].owned \subseteq Chunks \X Names
  BY DEF BaseTypes, BuildStates
<1>1. PICK S : vtx' = WithVertices(S, build[b].rows)
  BY DEF PartWritten
<1>2. vtx' \in Rowss
  BY <1>0, <1>1 DEF WithVertices, Rowss
<1>3. PICK E \in SUBSET build[b].ka : ent' = ent \cup E
  BY DEF PartWritten
<1>4. PICK F \in SUBSET References(b) : ref' = ref \cup F
  BY DEF PartWritten
<1>5. References(b) \subseteq Chunks \X Names
  BY <1>0 DEF References
<1>6. schema' \in BOOLEAN
  BY <1>0, Zenon DEF PartWritten
<1> QED
  BY <1>0, <1>2, <1>3, <1>4, <1>5, <1>6

\* Every action keeps them.
LEMMA BaseTypesStep ==
    ASSUME BaseTypes, ListedExist, \A b \in Builds : Shape(b), Next
    PROVE  BaseTypes'
<1>0. /\ minChunks \in Nat /\ schema \in BOOLEAN
      /\ table \in Rowss /\ fed \in Rowss /\ vtx \in Rowss
      /\ data \in Files /\ before \in Files
      /\ ckpt \in [rows : Rowss, mentions : SUBSET (Chunks \X Names)]
      /\ ckpt.mentions \subseteq Mentions(ckpt.rows)
      /\ dirs \in Seq(Files) /\ manifest \in Seq(Nat)
      /\ ent \subseteq Names /\ ref \subseteq Chunks \X Names /\ skipped \subseteq Names
      /\ build \in [Builds -> BuildStates] /\ op \in OpStates
      /\ zombies \subseteq [w : Workers, ka : SUBSET Names]
      /\ damage \subseteq Kinds /\ healing \subseteq damage
      /\ edits \in 0 .. MaxEdits /\ faults \in 0 .. MaxFaults /\ ops \in 0 .. MaxOps
      /\ ListedExist /\ \A b \in Builds : Shape(b)
  BY DEF BaseTypes
<1>1. ASSUME NEW b \in Builds, AcquireLock(b) PROVE BaseTypes'
  <2>1. UNCHANGED <<minChunks, table, data, fed, ckpt, dirs, manifest, vtx, ent, ref,
                   op, zombies, skipped, edits, faults, ops>>
    BY <1>1 DEF AcquireLock, RacedUnless, Damaged, diskVars, versionVars, graphVars,
       ghostVars, boundVars
  <2>2. build' \in [Builds -> BuildStates]
    BY <1>1, <1>0, GotoIs, PcsAre DEF AcquireLock
  <2>3. schema' \in BOOLEAN
    BY <1>1, <1>0 DEF AcquireLock
  <2>4. damage' \subseteq Kinds /\ healing' \subseteq damage'
    BY <1>1, <1>0, DamagedIs DEF AcquireLock, RacedUnless, Kinds
  <2>5. before' \in Files
    BY <1>1, <1>0 DEF AcquireLock, RacedUnless, Files
  <2> QED
    BY <2>1, <2>2, <2>3, <2>4, <2>5, <1>0 DEF BaseTypes
<1>2. ASSUME NEW b \in Builds, AddVertices(b) PROVE BaseTypes'
  <2>1. UNCHANGED <<minChunks, table, data, fed, ckpt, dirs, manifest, schema, ent,
                   ref, op, zombies, skipped, before, edits, faults, ops>>
    BY <1>2 DEF AddVertices, diskVars, versionVars, graphVars, ghostVars, boundVars
  <2>2. build' \in [Builds -> BuildStates]
    <3>1. CASE Rows(build[b].rows) = {}
      BY <1>2, <1>0, <3>1, EndIs DEF AddVertices, Ended
    <3>2. CASE Rows(build[b].rows) # {}
      <4>1. NewChunks(b) \subseteq Chunks
        BY DEF NewChunks, Rows
      <4>2. PICK p \in Pcs : Becomes(b, [build[b] EXCEPT !.new = NewChunks(b), !.pc = p])
        BY <1>2, <3>2, PcsAre DEF AddVertices
      <4>3. [build[b] EXCEPT !.new = NewChunks(b), !.pc = p] \in BuildStates
        BY <1>0, <4>1, ZenonT(30) DEF BuildStates
      <4> QED
        BY <1>0, <4>2, <4>3, BecomesIs
    <3> QED
      BY <3>1, <3>2
  <2>3. vtx' \in Rowss
    <3>1. build[b].rows \in Rowss
      BY <1>0, ZenonT(30) DEF BuildStates
    <3>2. WithVertices(NewChunks(b), build[b].rows) \in Rowss
      BY <1>0, <3>1 DEF WithVertices, Rowss
    <3> QED
      BY <1>2, <1>0, <3>2 DEF AddVertices
  <2>4. damage' \subseteq Kinds /\ healing' \subseteq damage'
    BY <1>2, <1>0 DEF AddVertices, MadeGood
  <2> QED
    BY <2>1, <2>2, <2>3, <2>4, <1>0 DEF BaseTypes
<1>3. ASSUME NEW b \in Builds, ArchiveCopy(b) PROVE BaseTypes'
  <2>1. UNCHANGED <<minChunks, table, data, fed, ckpt, manifest, schema, vtx, ent,
                   ref, op, zombies, skipped, damage, healing, edits, faults, ops>>
    BY <1>3 DEF ArchiveCopy, diskVars, versionVars, graphVars, ghostVars, boundVars
  <2>2. build' \in [Builds -> BuildStates]
    <3>1. CASE data = NoDump
      BY <1>3, <1>0, <3>1, GotoIs, PcsAre DEF ArchiveCopy
    <3>2. CASE data # NoDump
      <4>1. Len(dirs) + 1 \in Nat
        BY <1>0
      <4>2. [build[b] EXCEPT !.pc = "list", !.v = Len(dirs) + 1, !.seen = manifest]
               \in BuildStates
        BY <1>0, <4>1, PcsAre, ZenonT(30) DEF BuildStates
      <4> QED
        BY <1>3, <1>0, <3>2, <4>2, BecomesIs DEF ArchiveCopy
    <3> QED
      BY <3>1, <3>2
  <2>3. dirs' \in Seq(Files)
    <3>1. Append(dirs, data) \in Seq(Files)
      BY <1>0, AppendIs
    <3> QED
      BY <1>3, <1>0, <3>1 DEF ArchiveCopy
  <2>4. before' \in Files
    BY <1>3, <1>0 DEF ArchiveCopy, Files
  <2> QED
    BY <2>1, <2>2, <2>3, <2>4, <1>0 DEF BaseTypes
<1>4. ASSUME NEW b \in Builds, ArchiveList(b) PROVE BaseTypes'
  <2>1. UNCHANGED <<minChunks, table, data, fed, ckpt, dirs, schema, vtx, ent, ref,
                   op, zombies, skipped, damage, healing, before, edits, faults, ops>>
    BY <1>4 DEF ArchiveList, diskVars, versionVars, graphVars, ghostVars, boundVars
  <2>2. build' \in [Builds -> BuildStates]
    <3>1. [build[b] EXCEPT !.pc = "prune", !.v = 0, !.seen = <<>>] \in BuildStates
      BY <1>0, PcsAre, EmptySeqIn, ZenonT(30) DEF BuildStates
    <3> QED
      BY <1>4, <1>0, <3>1, BecomesIs DEF ArchiveList
  <2>3. manifest' \in Seq(Nat)
    <3>1. build[b].seen \in Seq(Nat) /\ build[b].v \in Nat
      BY <1>0, ZenonT(30) DEF BuildStates
    <3> QED
      BY <1>4, <3>1, AppendIs DEF ArchiveList
  <2> QED
    BY <2>1, <2>2, <2>3, <1>0 DEF BaseTypes
<1>5. ASSUME NEW b \in Builds, PruneDirs(b) PROVE BaseTypes'
  <2>1. UNCHANGED <<minChunks, table, data, fed, ckpt, manifest, schema, vtx, ent,
                   ref, op, zombies, skipped, damage, healing, before, edits, faults,
                   ops>>
    BY <1>5 DEF PruneDirs, diskVars, versionVars, graphVars, ghostVars, boundVars
  <2>2. build' \in [Builds -> BuildStates]
    <3> DEFINE kept == IF KeepVersions = 0 THEN manifest ELSE Newest(manifest, KeepVersions)
               p == IF KeepVersions = 0 THEN "load" ELSE "trim"
    <3>1. kept \in Seq(Nat) /\ p \in Pcs
      BY <1>0, NewestIs, BuildConstants, PcsAre
    <3>2. Becomes(b, [build[b] EXCEPT !.pc = p, !.seen = kept])
      BY <1>5 DEF PruneDirs
    <3> HIDE DEF kept, p
    <3>3. [build[b] EXCEPT !.pc = p, !.seen = kept] \in BuildStates
      BY <1>0, <3>1, ZenonT(30) DEF BuildStates
    <3> QED
      BY <1>0, <3>2, <3>3, BecomesIs
  <2>3. dirs' \in Seq(Files)
    BY <1>5, <1>0, WithoutIs DEF PruneDirs
  <2> QED
    BY <2>1, <2>2, <2>3, <1>0 DEF BaseTypes
<1>6. ASSUME NEW b \in Builds, PruneList(b) PROVE BaseTypes'
  <2>1. UNCHANGED <<minChunks, table, data, fed, ckpt, dirs, schema, vtx, ent, ref,
                   op, zombies, skipped, damage, healing, before, edits, faults, ops>>
    BY <1>6 DEF PruneList, diskVars, versionVars, graphVars, ghostVars, boundVars
  <2>2. build' \in [Builds -> BuildStates]
    <3>1. [build[b] EXCEPT !.pc = "load", !.seen = <<>>] \in BuildStates
      BY <1>0, PcsAre, EmptySeqIn, ZenonT(30) DEF BuildStates
    <3> QED
      BY <1>6, <1>0, <3>1, BecomesIs DEF PruneList
  <2>3. manifest' \in Seq(Nat)
    <3>1. build[b].seen \in Seq(Nat)
      BY <1>0, ZenonT(30) DEF BuildStates
    <3> QED
      BY <1>6, <3>1 DEF PruneList
  <2> QED
    BY <2>1, <2>2, <2>3, <1>0 DEF BaseTypes
<1>7. ASSUME NEW b \in Builds, LoadKA(b) PROVE BaseTypes'
  <2>1. UNCHANGED <<minChunks, table, data, fed, ckpt, dirs, manifest, schema, vtx,
                   ent, ref, op, zombies, skipped, damage, healing, before, edits,
                   faults, ops>>
    BY <1>7 DEF LoadKA, diskVars, versionVars, graphVars, ghostVars, boundVars
  <2>2. build' \in [Builds -> BuildStates]
    <3>1. CASE Loadable /\ Becomes(b, [build[b] EXCEPT !.pc = "feed", !.ka = data,
                                          !.todo = Unmarked(b), !.prev = fed])
      <4>1. data \subseteq Names /\ Unmarked(b) \subseteq Chunks
        BY <1>0, <3>1 DEF Loadable, Files, Unmarked, Rows
      <4>2. [build[b] EXCEPT !.pc = "feed", !.ka = data, !.todo = Unmarked(b), !.prev = fed]
               \in BuildStates
        BY <1>0, <4>1, PcsAre, ZenonT(30) DEF BuildStates
      <4> QED
        BY <1>0, <3>1, <4>2, BecomesIs
    <3>2. CASE Becomes(b, [build[b] EXCEPT !.pc = "feed", !.todo = Rows(build[b].rows)])
      <4>1. [build[b] EXCEPT !.pc = "feed", !.todo = Rows(build[b].rows)] \in BuildStates
        BY <1>0, RowsIn, PcsAre, ZenonT(30) DEF BuildStates
      <4> QED
        BY <1>0, <3>2, <4>1, BecomesIs
    <3> QED
      BY <1>7, <3>1, <3>2 DEF LoadKA
  <2> QED
    BY <2>1, <2>2, <1>0 DEF BaseTypes
<1>8. ASSUME NEW b \in Builds, FeedChunk(b) PROVE BaseTypes'
  <2>1. UNCHANGED <<minChunks, table, fed, ckpt, dirs, manifest, schema, vtx, ent,
                   ref, op, zombies, skipped, damage, healing, before, edits, faults,
                   ops>>
    BY <1>8 DEF FeedChunk, diskVars, versionVars, graphVars, ghostVars, boundVars
  <2>2. build' \in [Builds -> BuildStates]
    <3> DEFINE c == Min(build[b].todo)
               names == Yield[c][build[b].rows[c]]
               mine == {c} \X (names \ build[b].ka)
    <3>1. /\ c \in Chunks /\ names \subseteq Names
          /\ build[b].todo \subseteq Chunks /\ build[b].ka \subseteq Names
          /\ build[b].owned \subseteq Chunks \X Names
      BY <1>8, <1>0, FedNames DEF FeedChunk, BuildStates
    <3>2. Becomes(b, [build[b] EXCEPT !.todo = @ \ {c}, !.ka = @ \cup names,
                                      !.owned = @ \cup mine])
      BY <1>8 DEF FeedChunk
    <3>3. mine \subseteq Chunks \X Names
      BY <3>1
    <3> HIDE DEF mine, names, c
    <3>4. [build[b] EXCEPT !.todo = @ \ {c}, !.ka = @ \cup names,
                           !.owned = @ \cup mine] \in BuildStates
      <4>1. /\ build[b].todo \ {c} \in SUBSET Chunks /\ build[b].ka \cup names \in SUBSET Names
            /\ build[b].owned \cup mine \in SUBSET (Chunks \X Names)
        BY <3>1, <3>3
      <4> QED
        BY <1>0, <4>1, ZenonT(30) DEF BuildStates
    <3> QED
      BY <1>0, <3>2, <3>4, BecomesIs
  <2>3. data' \in Files
    <3>1. Yield[Min(build[b].todo)][build[b].rows[Min(build[b].todo)]] \subseteq Names
          /\ build[b].ka \subseteq Names
      BY <1>8, <1>0, FedNames DEF FeedChunk, BuildStates
    <3> QED
      BY <1>8, <1>0, <3>1 DEF FeedChunk, Files
  <2> QED
    BY <2>1, <2>2, <2>3, <1>0 DEF BaseTypes
<1>9. ASSUME NEW b \in Builds, DumpKA(b) PROVE BaseTypes'
  <2>1. UNCHANGED <<minChunks, table, fed, ckpt, dirs, manifest, schema, vtx, ent,
                   ref, op, zombies, skipped, damage, healing, before, edits, faults,
                   ops>>
    BY <1>9 DEF DumpKA, diskVars, versionVars, graphVars, ghostVars, boundVars
  <2>2. build' \in [Builds -> BuildStates]
    BY <1>9, <1>0, GotoIs, PcsAre DEF DumpKA
  <2>3. data' \in Files
    <3>1. build[b].ka \subseteq Names
      BY <1>0, ZenonT(30) DEF BuildStates
    <3> QED
      BY <1>9, <3>1 DEF DumpKA, Files
  <2> QED
    BY <2>1, <2>2, <2>3, <1>0 DEF BaseTypes
<1>10. ASSUME NEW b \in Builds, WriteSidecar(b) PROVE BaseTypes'
  <2>1. UNCHANGED <<minChunks, table, data, ckpt, dirs, manifest, schema, vtx, ent,
                   ref, op, zombies, skipped, damage, healing, before, edits, faults,
                   ops>>
    BY <1>10 DEF WriteSidecar, diskVars, versionVars, graphVars, ghostVars, boundVars
  <2>2. build' \in [Builds -> BuildStates]
    <3> DEFINE p == IF build[b].ka = {} THEN "finish" ELSE "entities"
    <3>1. Becomes(b, [build[b] EXCEPT !.pc = p, !.prev = Nothing]) /\ p \in Pcs
      BY <1>10, PcsAre DEF WriteSidecar
    <3> HIDE DEF p
    <3>2. [build[b] EXCEPT !.pc = p, !.prev = Nothing] \in BuildStates
      BY <1>0, <3>1, RowsIn, ZenonT(30) DEF BuildStates
    <3> QED
      BY <1>0, <3>1, <3>2, BecomesIs
  <2>3. fed' \in Rowss
    <3>1. build[b].rows \in Rowss /\ build[b].prev \in Rowss
      BY <1>0, ZenonT(30) DEF BuildStates
    <3> QED
      BY <1>10, <3>1 DEF WriteSidecar, Overlay, Rowss
  <2> QED
    BY <2>1, <2>2, <2>3, <1>0 DEF BaseTypes
<1>11. ASSUME NEW b \in Builds, MapChunks(b) PROVE BaseTypes'
  <2>1. UNCHANGED <<minChunks, table, data, fed, ckpt, dirs, manifest, schema, vtx,
                   ent, ref, op, zombies, damage, healing, before, edits, ops>>
    BY <1>11 DEF MapChunks, diskVars, versionVars, graphVars, ghostVars, boundVars
  <2>2. build' \in [Builds -> BuildStates]
    <3>1. PICK got \in SUBSET Mentions(build[b].rows) :
              Becomes(b, [build[b] EXCEPT !.pc = "checkpoint", !.ka = NamesIn(got),
                                          !.owned = got])
      BY <1>11 DEF MapChunks
    <3>2. got \in SUBSET (Chunks \X Names) /\ NamesIn(got) \in SUBSET Names
      BY RowsIn, NamesOf
    <3>3. [build[b] EXCEPT !.pc = "checkpoint", !.ka = NamesIn(got), !.owned = got]
             \in BuildStates
      BY <1>0, <3>2, PcsAre, ZenonT(30) DEF BuildStates
    <3> QED
      BY <1>0, <3>1, <3>3, BecomesIs
  <2>3. skipped' \subseteq Names
    <3>1. PICK got : skipped' = skipped \cup (NamesIn(Mentions(build[b].rows)) \ NamesIn(got))
      BY <1>11 DEF MapChunks
    <3> QED
      BY <1>0, <3>1, NamesOf
  <2>4. faults' \in 0 .. MaxFaults
    <3>1. PICK lost \in SUBSET Rows(build[b].rows) :
              faults + Cardinality(lost) <= MaxFaults /\ faults' = faults + Cardinality(lost)
      BY <1>11 DEF MapChunks
    <3>2. Cardinality(lost) \in Nat
      <4>1. lost \in SUBSET Chunks
        BY DEF Rows
      <4>2. IsFiniteSet(1 .. MaxRows)
        BY FS_Interval, BuildConstants
      <4> QED
        BY <4>1, <4>2, FS_Subset, FS_CardinalityType DEF Chunks
    <3> QED
      BY <1>0, <3>1, <3>2, BuildConstants
  <2> QED
    BY <2>1, <2>2, <2>3, <2>4, <1>0 DEF BaseTypes
<1>12. ASSUME NEW b \in Builds, WriteCheckpoint(b) PROVE BaseTypes'
  <2>1. UNCHANGED <<minChunks, table, data, fed, dirs, manifest, schema, vtx, ent,
                   ref, op, zombies, skipped, damage, healing, before, edits, faults,
                   ops>>
    BY <1>12 DEF WriteCheckpoint, diskVars, versionVars, graphVars, ghostVars,
       boundVars
  <2>2. build' \in [Builds -> BuildStates]
    BY <1>12, <1>0, GotoIs, PcsAre DEF WriteCheckpoint
  <2>3. /\ ckpt' \in [rows : Rowss, mentions : SUBSET (Chunks \X Names)]
        /\ ckpt'.mentions \subseteq Mentions(ckpt'.rows)
    <3>1. build[b].rows \in Rowss /\ build[b].owned \subseteq Chunks \X Names
      BY <1>0, ZenonT(30) DEF BuildStates
    <3>2. build[b].owned \subseteq Mentions(build[b].rows)
      BY <1>12, <1>0 DEF WriteCheckpoint, Shape
    <3> QED
      BY <1>12, <3>1, <3>2 DEF WriteCheckpoint
  <2> QED
    BY <2>1, <2>2, <2>3, <1>0 DEF BaseTypes
<1>13. ASSUME NEW b \in Builds, MarkMapped(b) PROVE BaseTypes'
  <2>1. UNCHANGED <<minChunks, table, data, ckpt, dirs, manifest, schema, vtx, ent,
                   ref, op, zombies, skipped, damage, healing, before, edits, faults,
                   ops>>
    BY <1>13 DEF MarkMapped, diskVars, versionVars, graphVars, ghostVars, boundVars
  <2>2. build' \in [Builds -> BuildStates]
    BY <1>13, <1>0, GotoIs, PcsAre DEF MarkMapped
  <2>3. fed' \in Rowss
    BY <1>13, <1>0 DEF MarkMapped, BuildStates
  <2> QED
    BY <2>1, <2>2, <2>3, <1>0 DEF BaseTypes
<1>14. ASSUME NEW b \in Builds, InsertEntities(b) PROVE BaseTypes'
  <2>1. UNCHANGED <<minChunks, table, data, fed, ckpt, dirs, manifest, schema, vtx,
                   ref, op, zombies, skipped, damage, healing, before, edits, faults,
                   ops>>
    BY <1>14 DEF InsertEntities, diskVars, versionVars, graphVars, ghostVars,
       boundVars
  <2>2. build' \in [Builds -> BuildStates]
    BY <1>14, <1>0, GotoIs, PcsAre DEF InsertEntities
  <2>3. ent' \subseteq Names
    BY <1>14, <1>0 DEF InsertEntities, BuildStates
  <2> QED
    BY <2>1, <2>2, <2>3, <1>0 DEF BaseTypes
<1>15. ASSUME NEW b \in Builds, InsertReferences(b) PROVE BaseTypes'
  <2>1. UNCHANGED <<minChunks, table, data, fed, ckpt, dirs, manifest, schema, vtx,
                   ent, op, zombies, damage, healing, before, edits, faults, ops>>
    BY <1>15 DEF InsertReferences, diskVars, versionVars, graphVars, ghostVars,
       boundVars
  <2>2. build' \in [Builds -> BuildStates]
    BY <1>15, <1>0, GotoIs, PcsAre DEF InsertReferences
  <2>3. ref' \subseteq Chunks \X Names
    BY <1>15, <1>0 DEF InsertReferences, References, BuildStates
  <2>4. skipped' \subseteq Names
    BY <1>15, <1>0 DEF InsertReferences
  <2> QED
    BY <2>1, <2>2, <2>3, <2>4, <1>0 DEF BaseTypes
<1>16. ASSUME NEW b \in Builds, FinishBuild(b) PROVE BaseTypes'
  <2>1. UNCHANGED <<minChunks, table, data, fed, ckpt, dirs, manifest, schema, vtx,
                   ent, ref, op, zombies, skipped, before, edits, faults, ops>>
    BY <1>16 DEF FinishBuild, diskVars, versionVars, graphVars, ghostVars, boundVars
  <2>2. build' \in [Builds -> BuildStates]
    <3>1. [Idle EXCEPT !.pc = "snapshot", !.w = build[b].w] \in BuildStates
      BY <1>0, IdleState, PcsAre, ZenonT(30) DEF BuildStates
    <3> QED
      BY <1>16, <1>0, <3>1, BecomesIs DEF FinishBuild
  <2>3. damage' \subseteq Kinds /\ healing' \subseteq damage'
    BY <1>16, <1>0 DEF FinishBuild
  <2> QED
    BY <2>1, <2>2, <2>3, <1>0 DEF BaseTypes
<1>34. ASSUME NEW b \in Builds, ReleaseLock(b) PROVE BaseTypes'
  <2>1. UNCHANGED <<minChunks, table, data, fed, ckpt, dirs, manifest, schema, vtx,
                   ent, ref, op, zombies, skipped, damage, healing, before, edits, faults,
                   ops>>
    BY <1>34 DEF ReleaseLock, diskVars, versionVars, graphVars, ghostVars, boundVars
  <2>2. build' \in [Builds -> BuildStates]
    BY <1>34, <1>0, EndIs DEF ReleaseLock, Ended
  <2> QED
    BY <2>1, <2>2, <1>0 DEF BaseTypes
<1>35. ASSUME NEW b \in Builds, SnapshotHangs(b) PROVE BaseTypes'
  <2>1. UNCHANGED <<minChunks, table, data, fed, ckpt, dirs, manifest, schema, vtx,
                   ent, ref, op, zombies, skipped, damage, healing, before, edits, ops>>
    BY <1>35 DEF SnapshotHangs, diskVars, versionVars, graphVars, ghostVars, boundVars
  <2>2. build' \in [Builds -> BuildStates]
    BY <1>35, <1>0, GotoIs, PcsAre DEF SnapshotHangs
  <2>3. faults' \in 0 .. MaxFaults
    BY <1>35, <1>0, BuildConstants DEF SnapshotHangs, Fault
  <2> QED
    BY <2>1, <2>2, <2>3, <1>0 DEF BaseTypes
<1>17. ASSUME NEW b \in Builds, GraphGone(b) PROVE BaseTypes'
  <2>1. UNCHANGED <<minChunks, table, data, fed, ckpt, dirs, manifest, schema, vtx,
                   ent, ref, op, zombies, skipped, before, edits, faults, ops>>
    BY <1>17 DEF GraphGone, Damaged, diskVars, versionVars, graphVars, ghostVars,
       boundVars
  <2>2. build' \in [Builds -> BuildStates]
    BY <1>17, <1>0, EndIs DEF GraphGone, Ended
  <2>3. damage' \subseteq Kinds /\ healing' \subseteq damage'
    BY <1>17, <1>0, CutKinds, DamagedIs DEF GraphGone
  <2> QED
    BY <2>1, <2>2, <2>3, <1>0 DEF BaseTypes
<1>18. ASSUME NEW b \in Builds, VersioningFails(b) PROVE BaseTypes'
  <2>1. UNCHANGED <<minChunks, table, data, fed, ckpt, dirs, schema, vtx,
                   ent, ref, op, zombies, skipped, damage, healing, edits, ops>>
    BY <1>18 DEF VersioningFails, diskVars, versionVars, graphVars, ghostVars, boundVars
  <2>2. build' \in [Builds -> BuildStates]
    <3>1. [build[b] EXCEPT !.pc = "load", !.v = 0, !.seen = <<>>] \in BuildStates
      BY <1>0, PcsAre, EmptySeqIn, ZenonT(30) DEF BuildStates
    <3> QED
      BY <1>18, <1>0, <3>1, BecomesIs DEF VersioningFails
  <2>3. before' \in Files
    BY <1>18, <1>0 DEF VersioningFails, Files
  <2>4. manifest' \in Seq(Nat)
    BY <1>18, <1>0, EmptySeqIn DEF VersioningFails
  <2>5. faults' \in 0 .. MaxFaults
    BY <1>18, <1>0, BuildConstants DEF VersioningFails, Fault
  <2> QED
    BY <2>1, <2>2, <2>3, <2>4, <2>5, <1>0 DEF BaseTypes
<1>19. ASSUME NEW b \in Builds, FeedFails(b) PROVE BaseTypes'
  <2>1. UNCHANGED <<minChunks, table, data, fed, ckpt, dirs, manifest, schema, vtx,
                   ent, ref, op, zombies, damage, healing, before, edits, ops>>
    BY <1>19 DEF FeedFails, diskVars, versionVars, graphVars, ghostVars, boundVars
  <2>2. build' \in [Builds -> BuildStates]
    <3> DEFINE c == Min(build[b].todo)
    <3>1. Becomes(b, [build[b] EXCEPT !.todo = @ \ {c}])
      BY <1>19 DEF FeedFails
    <3>2. build[b].todo \ {c} \in SUBSET Chunks
      BY <1>0, ZenonT(30) DEF BuildStates
    <3>3. [build[b] EXCEPT !.todo = @ \ {c}] \in BuildStates
      BY <1>0, <3>2, ZenonT(30) DEF BuildStates
    <3> QED
      BY <1>0, <3>1, <3>3, BecomesIs
  <2>3. skipped' \subseteq Names
    <3>1. Yield[Min(build[b].todo)][build[b].rows[Min(build[b].todo)]] \subseteq Names
      BY <1>19, <1>0, FedNames DEF FeedFails
    <3> QED
      BY <1>19, <1>0, <3>1 DEF FeedFails
  <2>4. faults' \in 0 .. MaxFaults
    BY <1>19, <1>0, BuildConstants DEF FeedFails, Fault
  <2> QED
    BY <2>1, <2>2, <2>3, <2>4, <1>0 DEF BaseTypes
<1>20. ASSUME NEW b \in Builds, FeedHangs(b) PROVE BaseTypes'
  <2>1. UNCHANGED <<minChunks, table, data, fed, ckpt, dirs, manifest, schema, vtx,
                   ent, ref, op, zombies, skipped, damage, healing, before, edits,
                   ops>>
    BY <1>20 DEF FeedHangs, diskVars, versionVars, graphVars, ghostVars, boundVars
  <2>2. build' \in [Builds -> BuildStates]
    BY <1>20, <1>0, GotoIs, PcsAre DEF FeedHangs
  <2>3. faults' \in 0 .. MaxFaults
    BY <1>20, <1>0, BuildConstants DEF FeedHangs, Fault
  <2> QED
    BY <2>1, <2>2, <2>3, <1>0 DEF BaseTypes
<1>21. ASSUME NEW b \in Builds, SidecarWriteFails(b) PROVE BaseTypes'
  <2>1. UNCHANGED <<minChunks, table, data, fed, ckpt, dirs, manifest, schema, vtx,
                   ent, ref, op, zombies, skipped, before, edits, ops>>
    BY <1>21 DEF SidecarWriteFails, Damaged, diskVars, versionVars, graphVars,
       ghostVars, boundVars
  <2>2. build' \in [Builds -> BuildStates]
    BY <1>21, <1>0, GotoIs, PcsAre DEF SidecarWriteFails
  <2>3. damage' \subseteq Kinds /\ healing' \subseteq damage'
    BY <1>21, <1>0, DamagedIs DEF SidecarWriteFails, Kinds
  <2>4. faults' \in 0 .. MaxFaults
    BY <1>21, <1>0, BuildConstants DEF SidecarWriteFails, Fault
  <2> QED
    BY <2>1, <2>2, <2>3, <2>4, <1>0 DEF BaseTypes
<1>22. ASSUME NEW b \in Builds, BuildFails(b) PROVE BaseTypes'
  <2>1. UNCHANGED <<minChunks, table, data, fed, ckpt, dirs, manifest, op, zombies,
                   skipped, before, edits, ops>>
    BY <1>22 DEF BuildFails, Damaged, PartWritten, diskVars, versionVars, graphVars,
       ghostVars, boundVars
  <2>2. build' \in [Builds -> BuildStates]
    BY <1>22, <1>0, EndIs DEF BuildFails, Ended
  <2>3. schema' \in BOOLEAN
    BY <1>22, <1>0, PartWrittenIs DEF BuildFails
  <2>4. vtx' \in Rowss
    BY <1>22, <1>0, PartWrittenIs DEF BuildFails
  <2>5. ent' \subseteq Names
    BY <1>22, <1>0, PartWrittenIs DEF BuildFails
  <2>6. ref' \subseteq Chunks \X Names
    BY <1>22, <1>0, PartWrittenIs DEF BuildFails
  <2>7. damage' \subseteq Kinds /\ healing' \subseteq damage'
    BY <1>22, <1>0, CutKinds, DamagedIs DEF BuildFails
  <2>8. faults' \in 0 .. MaxFaults
    BY <1>22, <1>0, BuildConstants DEF BuildFails, Fault
  <2> QED
    BY <2>1, <2>2, <2>3, <2>4, <2>5, <2>6, <2>7, <2>8, <1>0 DEF BaseTypes
<1>23. ASSUME NEW b \in Builds, TimeoutBuild(b) PROVE BaseTypes'
  <2>1. UNCHANGED <<minChunks, table, data, fed, ckpt, dirs, manifest, op, skipped,
                   before, edits, ops>>
    BY <1>23 DEF TimeoutBuild, Damaged, PartWritten, diskVars, versionVars, graphVars,
       ghostVars, boundVars
  <2>2. build' \in [Builds -> BuildStates]
    BY <1>23, <1>0, EndIs DEF TimeoutBuild, Ended
  <2>3. schema' \in BOOLEAN
    BY <1>23, <1>0, PartWrittenIs DEF TimeoutBuild
  <2>4. vtx' \in Rowss
    BY <1>23, <1>0, PartWrittenIs DEF TimeoutBuild
  <2>5. ent' \subseteq Names
    BY <1>23, <1>0, PartWrittenIs DEF TimeoutBuild
  <2>6. ref' \subseteq Chunks \X Names
    BY <1>23, <1>0, PartWrittenIs DEF TimeoutBuild
  <2>7. zombies' \subseteq [w : Workers, ka : SUBSET Names]
    BY <1>23, <1>0 DEF TimeoutBuild, BuildStates
  <2>8. damage' \subseteq Kinds /\ healing' \subseteq damage'
    BY <1>23, <1>0, CutKinds, DamagedIs DEF TimeoutBuild
  <2>9. faults' \in 0 .. MaxFaults
    BY <1>23, <1>0, BuildConstants DEF TimeoutBuild
  <2> QED
    BY <2>1, <2>2, <2>3, <2>4, <2>5, <2>6, <2>7, <2>8, <2>9, <1>0 DEF BaseTypes
<1>24. ASSUME NEW z \in zombies, ZombieDump(z) PROVE BaseTypes'
  <2>1. UNCHANGED <<minChunks, table, fed, ckpt, dirs, manifest, schema, vtx, ent,
                   ref, build, op, skipped, edits, faults, ops>>
    BY <1>24 DEF ZombieDump, RacedUnless, Damaged, diskVars, versionVars, graphVars,
       ghostVars, boundVars
  <2>2. data' \in Files
    BY <1>24, <1>0 DEF ZombieDump, Files
  <2>3. zombies' \subseteq [w : Workers, ka : SUBSET Names]
    BY <1>24, <1>0 DEF ZombieDump
  <2>4. damage' \subseteq Kinds /\ healing' \subseteq damage'
    BY <1>24, <1>0, DamagedIs DEF ZombieDump, RacedUnless, Kinds
  <2>5. before' \in Files
    BY <1>24, <1>0 DEF ZombieDump, RacedUnless, Files
  <2> QED
    BY <2>1, <2>2, <2>3, <2>4, <2>5, <1>0 DEF BaseTypes
<1>25. ASSUME NEW w \in Workers, Crash(w) PROVE BaseTypes'
  <2>1. UNCHANGED <<minChunks, table, fed, ckpt, dirs, skipped, edits, ops>>
    BY <1>25 DEF Crash, Damaged, PartWritten, diskVars, versionVars, graphVars,
       ghostVars, boundVars
  <2>2. data' \in Files
    BY <1>25, <1>0 DEF Crash, Files
  <2>3. manifest' \in Seq(Nat)
    BY <1>25, <1>0, EmptySeqIn DEF Crash
  <2>4. before' \in Files
    BY <1>25, <1>0 DEF Crash, Files
  <2>5. build' \in [Builds -> BuildStates]
    <3>1. \A x \in Builds : build'[x] = build[x] \/ build'[x] = [Idle EXCEPT !.pc = "gone"]
      BY <1>25 DEF Crash
    <3>2. \A x \in Builds : build'[x] \in BuildStates
      BY <1>0, <3>1, IdleState DEF Ended
    <3>3. build' = [x \in Builds |-> build'[x]]
      BY <1>25 DEF Crash
    <3> QED
      BY <3>2, <3>3
  <2>6. op' \in OpStates
    BY <1>25, <1>0, IdleState DEF Crash
  <2>7. zombies' \subseteq [w : Workers, ka : SUBSET Names]
    BY <1>25, <1>0 DEF Crash
  <2>8. schema' \in BOOLEAN
    <3>1. CASE UNCHANGED graphVars
      BY <1>0, <3>1, Zenon DEF graphVars
    <3>2. ASSUME NEW b \in Builds, PartWritten(b) PROVE schema' \in BOOLEAN
      BY <3>2, PartWrittenIs
    <3> QED
      BY <1>25, <3>1, <3>2 DEF Crash
  <2>9. vtx' \in Rowss
    <3>1. CASE UNCHANGED graphVars
      BY <1>0, <3>1, Zenon DEF graphVars
    <3>2. ASSUME NEW b \in Builds, PartWritten(b) PROVE vtx' \in Rowss
      BY <3>2, PartWrittenIs
    <3> QED
      BY <1>25, <3>1, <3>2 DEF Crash
  <2>10. ent' \subseteq Names
    <3>1. CASE UNCHANGED graphVars
      BY <1>0, <3>1, Zenon DEF graphVars
    <3>2. ASSUME NEW b \in Builds, PartWritten(b) PROVE ent' \subseteq Names
      BY <3>2, PartWrittenIs
    <3> QED
      BY <1>25, <3>1, <3>2 DEF Crash
  <2>11. ref' \subseteq Chunks \X Names
    <3>1. CASE UNCHANGED graphVars
      BY <1>0, <3>1, Zenon DEF graphVars
    <3>2. ASSUME NEW b \in Builds, PartWritten(b) PROVE ref' \subseteq Chunks \X Names
      BY <3>2, PartWrittenIs
    <3> QED
      BY <1>25, <3>1, <3>2 DEF Crash
  <2>12. damage' \subseteq Kinds /\ healing' \subseteq damage'
    <3>1. CASE UNCHANGED <<damage, healing>>
      BY <1>0, <3>1
    <3>2. ASSUME NEW b \in Builds, Damaged(Cut(b))
          PROVE  damage' \subseteq Kinds /\ healing' \subseteq damage'
      BY <1>0, <3>2, CutKinds, DamagedIs
    <3> QED
      BY <1>25, <3>1, <3>2 DEF Crash
  <2>13. faults' \in 0 .. MaxFaults
    <3>1. faults < MaxFaults /\ faults' = faults + 1
      BY <1>25 DEF Crash, Fault
    <3> QED
      BY <3>1, <1>0, BuildConstants
  <2> QED
    BY <2>1, <2>2, <2>3, <2>4, <2>5, <2>6, <2>7, <2>8, <2>9, <2>10, <2>11, <2>12,
       <2>13, <1>0 DEF BaseTypes
<1>26. ASSUME ClearGraph PROVE BaseTypes'
  <2>1. UNCHANGED <<minChunks, table, data, fed, ckpt, dirs, manifest, build, op,
                   zombies, skipped, before, edits, faults>>
    BY <1>26 DEF ClearGraph, Damaged, diskVars, versionVars, graphVars, ghostVars,
       boundVars
  <2>2. schema' \in BOOLEAN
    BY <1>26, <1>0 DEF ClearGraph
  <2>3. vtx' \in Rowss
    BY <1>26, <1>0, RowsIn DEF ClearGraph
  <2>4. ent' \subseteq Names
    BY <1>26, <1>0 DEF ClearGraph
  <2>5. ref' \subseteq Chunks \X Names
    BY <1>26, <1>0 DEF ClearGraph
  <2>6. damage' \subseteq Kinds /\ healing' \subseteq damage'
    BY <1>26, <1>0, DamagedIs DEF ClearGraph, Kinds
  <2>7. ops' \in 0 .. MaxOps
    BY <1>26, <1>0, BuildConstants DEF ClearGraph
  <2> QED
    BY <2>1, <2>2, <2>3, <2>4, <2>5, <2>6, <2>7, <1>0 DEF BaseTypes
<1>27. ASSUME NEW w \in Workers, NEW v \in DOMAIN dirs, RollbackStart(w, v) PROVE BaseTypes'
  <2>1. UNCHANGED <<minChunks, table, data, fed, ckpt, manifest, schema, vtx, ent,
                   ref, build, zombies, skipped, edits, faults>>
    BY <1>27 DEF RollbackStart, Damaged, diskVars, versionVars, graphVars, ghostVars,
       boundVars
  <2>2. dirs' \in Seq(Files)
    BY <1>27, <1>0, AppendIs DEF RollbackStart
  <2>3. op' \in OpStates
    <3>1. dirs' \in Seq(Files) /\ Len(dirs') \in Nat /\ v \in Nat
      <4>1. v \in 1 .. Len(dirs)
        BY <1>0
      <4> QED
        BY <2>2, <4>1
    <3>2. op'.pc \in {"restore", "list"} /\ op' = [pc |-> op'.pc, w |-> w, target |-> v,
                                                   v |-> Len(dirs'), seen |-> manifest]
      BY <1>27 DEF RollbackStart
    <3> QED
      BY <1>0, <3>1, <3>2 DEF OpStates
  <2>4. damage' \subseteq Kinds /\ healing' \subseteq damage'
    BY <1>27, <1>0, DamagedIs DEF RollbackStart, Kinds
  <2>5. before' \in Files
    BY <1>27, <1>0 DEF RollbackStart, Files
  <2>6. ops' \in 0 .. MaxOps
    BY <1>27, <1>0, BuildConstants DEF RollbackStart
  <2> QED
    BY <2>1, <2>2, <2>3, <2>4, <2>5, <2>6, <1>0 DEF BaseTypes
<1>28. ASSUME RollbackList PROVE BaseTypes'
  <2>1. UNCHANGED <<minChunks, table, data, fed, ckpt, dirs, schema, vtx, ent, ref,
                   build, zombies, skipped, damage, healing, before, edits, faults,
                   ops>>
    BY <1>28 DEF RollbackList, diskVars, versionVars, graphVars, ghostVars, boundVars
  <2>2. manifest' \in Seq(Nat)
    <3>1. op.seen \in Seq(Nat) /\ op.v \in Nat
      BY <1>0 DEF OpStates
    <3> QED
      BY <1>28, <3>1, AppendIs DEF RollbackList
  <2>3. op' \in OpStates
    BY <1>28, <1>0, EmptySeqIn DEF RollbackList, OpStates
  <2> QED
    BY <2>1, <2>2, <2>3, <1>0 DEF BaseTypes
<1>29. ASSUME RollbackRestore PROVE BaseTypes'
  <2>1. UNCHANGED <<minChunks, table, fed, ckpt, dirs, manifest, schema, vtx, ent,
                   ref, build, zombies, skipped, before, edits, faults, ops>>
    BY <1>29 DEF RollbackRestore, Damaged, diskVars, versionVars, graphVars,
       ghostVars, boundVars
  <2>2. data' \in Files
    <3>1. dirs[op.target] \in Files
      BY <1>29, <1>0 DEF RollbackRestore, ListedExist
    <3> QED
      BY <1>29, <1>0, <3>1 DEF RollbackRestore
  <2>3. op' \in OpStates
    BY <1>29, <1>0, IdleState DEF RollbackRestore
  <2>4. damage' \subseteq Kinds /\ healing' \subseteq damage'
    BY <1>29, <1>0, DamagedIs DEF RollbackRestore, Kinds
  <2> QED
    BY <2>1, <2>2, <2>3, <2>4, <1>0 DEF BaseTypes
<1>30. ASSUME NEW w \in Workers, NEW k \in PruneKeeps, PruneOp(w, k) PROVE BaseTypes'
  <2>1. UNCHANGED <<minChunks, table, data, fed, ckpt, manifest, schema, vtx, ent,
                   ref, build, zombies, skipped, edits, faults>>
    BY <1>30 DEF PruneOp, Damaged, diskVars, versionVars, graphVars, ghostVars,
       boundVars
  <2>2. dirs' \in Seq(Files)
    BY <1>30, <1>0, WithoutIs DEF PruneOp
  <2>3. op' \in OpStates
    <3>1. Newest(manifest, k) \in Seq(Nat)
      BY <1>0, NewestIs, BuildConstants
    <3> QED
      BY <1>30, <1>0, <3>1, IdleState DEF PruneOp, OpStates
  <2>4. damage' \subseteq Kinds /\ healing' \subseteq damage'
    BY <1>30, <1>0, DamagedIs DEF PruneOp, Kinds
  <2>5. before' \in Files
    BY <1>30, <1>0 DEF PruneOp, Files
  <2>6. ops' \in 0 .. MaxOps
    <3>1. ops < MaxOps /\ ops' = ops + 1
      BY <1>30 DEF PruneOp
    <3> QED
      BY <3>1, <1>0, BuildConstants
  <2> QED
    BY <2>1, <2>2, <2>3, <2>4, <2>5, <2>6, <1>0 DEF BaseTypes
<1>31. ASSUME PruneOpList PROVE BaseTypes'
  <2>1. UNCHANGED <<minChunks, table, data, fed, ckpt, dirs, schema, vtx, ent, ref,
                   build, zombies, skipped, damage, healing, before, edits, faults,
                   ops>>
    BY <1>31 DEF PruneOpList, diskVars, versionVars, graphVars, ghostVars, boundVars
  <2>2. manifest' \in Seq(Nat)
    <3>1. op.seen \in Seq(Nat)
      BY <1>0 DEF OpStates
    <3> QED
      BY <1>31, <3>1 DEF PruneOpList
  <2>3. op' \in OpStates
    BY <1>31, <1>0, IdleState DEF PruneOpList
  <2> QED
    BY <2>1, <2>2, <2>3, <1>0 DEF BaseTypes
<1>32. ASSUME NEW c \in Chunks, NEW t \in Texts \cup {NoText}, EditTable(c, t) PROVE BaseTypes'
  <2>1. UNCHANGED <<minChunks, data, fed, ckpt, dirs, manifest, schema, vtx, ent, ref,
                   build, op, zombies, skipped, damage, healing, before, faults, ops>>
    BY <1>32 DEF EditTable, diskVars, versionVars, graphVars, ghostVars, boundVars
  <2>2. table' \in Rowss
    BY <1>32, <1>0 DEF EditTable, Rowss
  <2>3. edits' \in 0 .. MaxEdits
    BY <1>32, <1>0, BuildConstants DEF EditTable
  <2> QED
    BY <2>1, <2>2, <2>3, <1>0 DEF BaseTypes
<1>33. ASSUME NEW w \in Workers, NEW i \in BOOLEAN, KgBuild(w, i) PROVE BaseTypes'
  <2>1. UNCHANGED <<minChunks, table, data, fed, ckpt, dirs, manifest, schema, vtx,
                   ent, ref, op, zombies, skipped, damage, healing, before, edits,
                   faults, ops>>
    BY <1>33 DEF KgBuild, diskVars, versionVars, graphVars, ghostVars, boundVars
  <2>2. build' \in [Builds -> BuildStates]
    <3>1. PICK b \in Builds : Becomes(b, [Idle EXCEPT !.pc = "queued", !.w = w,
                                                      !.incremental = i, !.rows = table])
      BY <1>33 DEF KgBuild
    <3>2. [Idle EXCEPT !.pc = "queued", !.w = w, !.incremental = i, !.rows = table]
             \in BuildStates
      BY <1>0, IdleState, PcsAre, ZenonT(30) DEF BuildStates
    <3> QED
      BY <1>0, <3>1, <3>2, BecomesIs
  <2> QED
    BY <2>1, <2>2, <1>0 DEF BaseTypes
<1>x. ASSUME Done PROVE BaseTypes'
  BY <1>x, <1>0 DEF BaseTypes, Done, vars, diskVars, versionVars, graphVars, ghostVars,
     boundVars
<1> QED
  BY <1>1, <1>2, <1>3, <1>4, <1>5, <1>6, <1>7, <1>8, <1>9, <1>10, <1>11, <1>12, <1>13,
     <1>14, <1>15, <1>16, <1>17, <1>18, <1>19, <1>20, <1>21, <1>22, <1>23, <1>24,
     <1>25, <1>26, <1>27, <1>28, <1>29, <1>30, <1>31, <1>32, <1>33, <1>34, <1>35,
     <1>x DEF Next,
     BuildStep, BuildFault, OpStep

\* What the steps of a build do to its state, field by field.
LEMMA GotoFields ==
    ASSUME build \in [Builds -> BuildStates], NEW b \in Builds, NEW p, Goto(b, p)
    PROVE  LET r == build[b]
               s == build'[b]
           IN
           /\ \A x \in Builds \ {b} : build'[x] = build[x]
           /\ s.pc = p /\ s.w = r.w /\ s.incremental = r.incremental /\ s.rows = r.rows
           /\ s.new = r.new /\ s.todo = r.todo /\ s.ka = r.ka /\ s.owned = r.owned
           /\ s.prev = r.prev /\ s.v = r.v /\ s.seen = r.seen
<1>1. build[b] \in BuildStates
  OBVIOUS
<1>2. /\ \A x \in Builds \ {b} : build'[x] = build[x]
      /\ build'[b] = [build[b] EXCEPT !.pc = p]
  BY BecomesIs DEF Goto
<1> QED
  BY <1>1, <1>2 DEF BuildStates

\* What End does to the records of the builds.
LEMMA EndFields ==
    ASSUME build \in [Builds -> BuildStates], NEW b \in Builds, NEW st, End(b, st)
    PROVE  LET s == build'[b] IN
           /\ \A x \in Builds \ {b} : build'[x] = build[x]
           /\ s.pc = st /\ s.incremental = FALSE /\ s.rows = Nothing /\ s.new = {}
           /\ s.todo = {} /\ s.ka = {} /\ s.owned = {} /\ s.prev = Nothing /\ s.v = 0
           /\ s.seen = <<>>
<1>1. /\ \A x \in Builds \ {b} : build'[x] = build[x]
      /\ build'[b] = [Idle EXCEPT !.pc = st]
  BY BecomesIs DEF End
<1> QED
  BY <1>1 DEF Idle

\* What FinishBuild does to the records of the builds.
LEMMA SnapFields ==
    ASSUME build \in [Builds -> BuildStates], NEW b \in Builds, FinishBuild(b)
    PROVE  LET s == build'[b] IN
           /\ \A x \in Builds \ {b} : build'[x] = build[x]
           /\ s.pc = "snapshot" /\ s.w = build[b].w /\ s.incremental = FALSE
           /\ s.rows = Nothing /\ s.new = {} /\ s.todo = {} /\ s.ka = {} /\ s.owned = {}
           /\ s.prev = Nothing /\ s.v = 0 /\ s.seen = <<>>
<1>1. /\ \A x \in Builds \ {b} : build'[x] = build[x]
      /\ build'[b] = [Idle EXCEPT !.pc = "snapshot", !.w = build[b].w]
  BY BecomesIs DEF FinishBuild
<1> QED
  BY <1>1 DEF Idle

\* What VersioningFails does to the records of the builds.
LEMMA VersioningFailsFields ==
    ASSUME build \in [Builds -> BuildStates], NEW b \in Builds, VersioningFails(b)
    PROVE  LET r == build[b]
               s == build'[b]
           IN
           /\ \A x \in Builds \ {b} : build'[x] = build[x]
           /\ s.pc = "load" /\ s.v = 0 /\ s.seen = <<>> /\ s.w = r.w
           /\ s.incremental = r.incremental /\ s.rows = r.rows /\ s.new = r.new
           /\ s.todo = r.todo /\ s.ka = r.ka /\ s.owned = r.owned /\ s.prev = r.prev
<1>1. build[b] \in BuildStates
  OBVIOUS
<1>2. /\ \A x \in Builds \ {b} : build'[x] = build[x]
      /\ build'[b] = [build[b] EXCEPT !.pc = "load", !.v = 0, !.seen = <<>>]
  BY BecomesIs DEF VersioningFails
<1> QED
  BY <1>1, <1>2 DEF BuildStates

\* What AddVertices does to the records of the builds.
LEMMA AddVerticesFields ==
    ASSUME build \in [Builds -> BuildStates], NEW b \in Builds, AddVertices(b), Rows(build[b].rows) # {}
    PROVE  LET r == build[b]
               s == build'[b]
           IN
           /\ \A x \in Builds \ {b} : build'[x] = build[x]
           /\ s.new = NewChunks(b)
           /\ s.pc = (IF MapReduced(r.rows) THEN "map" ELSE "archive") /\ s.w = r.w
           /\ s.incremental = r.incremental /\ s.rows = r.rows /\ s.todo = r.todo
           /\ s.ka = r.ka /\ s.owned = r.owned /\ s.prev = r.prev /\ s.v = r.v
           /\ s.seen = r.seen
<1>1. build[b] \in BuildStates
  OBVIOUS
<1>2. /\ \A x \in Builds \ {b} : build'[x] = build[x]
      /\ build'[b] = [build[b] EXCEPT !.new = NewChunks(b), !.pc = IF MapReduced(build[b].rows) THEN "map"
                                  ELSE "archive"]
  BY BecomesIs DEF AddVertices
<1> QED
  BY <1>1, <1>2 DEF BuildStates

\* What ArchiveCopy does to the records of the builds.
LEMMA ArchiveCopyFields ==
    ASSUME build \in [Builds -> BuildStates], NEW b \in Builds, ArchiveCopy(b), data # NoDump
    PROVE  LET r == build[b]
               s == build'[b]
           IN
           /\ \A x \in Builds \ {b} : build'[x] = build[x]
           /\ s.pc = "list" /\ s.v = Len(dirs) + 1 /\ s.seen = manifest /\ s.w = r.w
           /\ s.incremental = r.incremental /\ s.rows = r.rows /\ s.new = r.new
           /\ s.todo = r.todo /\ s.ka = r.ka /\ s.owned = r.owned /\ s.prev = r.prev
<1>1. build[b] \in BuildStates
  OBVIOUS
<1>2. /\ \A x \in Builds \ {b} : build'[x] = build[x]
      /\ build'[b] = [build[b] EXCEPT !.pc = "list", !.v = Len(dirs) + 1, !.seen = manifest]
  BY BecomesIs DEF ArchiveCopy
<1> QED
  BY <1>1, <1>2 DEF BuildStates

\* What ArchiveList does to the records of the builds.
LEMMA ArchiveListFields ==
    ASSUME build \in [Builds -> BuildStates], NEW b \in Builds, ArchiveList(b)
    PROVE  LET r == build[b]
               s == build'[b]
           IN
           /\ \A x \in Builds \ {b} : build'[x] = build[x]
           /\ s.pc = "prune" /\ s.v = 0 /\ s.seen = <<>> /\ s.w = r.w
           /\ s.incremental = r.incremental /\ s.rows = r.rows /\ s.new = r.new
           /\ s.todo = r.todo /\ s.ka = r.ka /\ s.owned = r.owned /\ s.prev = r.prev
<1>1. build[b] \in BuildStates
  OBVIOUS
<1>2. /\ \A x \in Builds \ {b} : build'[x] = build[x]
      /\ build'[b] = [build[b] EXCEPT !.pc = "prune", !.v = 0, !.seen = <<>>]
  BY BecomesIs DEF ArchiveList
<1> QED
  BY <1>1, <1>2 DEF BuildStates

\* What PruneDirs does to the records of the builds.
LEMMA PruneDirsFields ==
    ASSUME build \in [Builds -> BuildStates], NEW b \in Builds, PruneDirs(b)
    PROVE  LET r == build[b]
               s == build'[b]
           IN
           /\ \A x \in Builds \ {b} : build'[x] = build[x]
           /\ s.pc = (IF KeepVersions = 0 THEN "load" ELSE "trim")
           /\ s.seen = (IF KeepVersions = 0 THEN manifest ELSE Newest(manifest, KeepVersions))
           /\ s.w = r.w /\ s.incremental = r.incremental /\ s.rows = r.rows
           /\ s.new = r.new /\ s.todo = r.todo /\ s.ka = r.ka /\ s.owned = r.owned
           /\ s.prev = r.prev /\ s.v = r.v
<1>1. build[b] \in BuildStates
  OBVIOUS
<1>2. /\ \A x \in Builds \ {b} : build'[x] = build[x]
      /\ build'[b] = [build[b] EXCEPT !.pc = IF KeepVersions = 0 THEN "load" ELSE "trim", !.seen = IF
                                  KeepVersions = 0 THEN manifest ELSE Newest(manifest,
                                  KeepVersions)]
  BY BecomesIs DEF PruneDirs
<1> QED
  BY <1>1, <1>2 DEF BuildStates

\* What PruneList does to the records of the builds.
LEMMA PruneListFields ==
    ASSUME build \in [Builds -> BuildStates], NEW b \in Builds, PruneList(b)
    PROVE  LET r == build[b]
               s == build'[b]
           IN
           /\ \A x \in Builds \ {b} : build'[x] = build[x]
           /\ s.pc = "load" /\ s.seen = <<>> /\ s.w = r.w
           /\ s.incremental = r.incremental /\ s.rows = r.rows /\ s.new = r.new
           /\ s.todo = r.todo /\ s.ka = r.ka /\ s.owned = r.owned /\ s.prev = r.prev
           /\ s.v = r.v
<1>1. build[b] \in BuildStates
  OBVIOUS
<1>2. /\ \A x \in Builds \ {b} : build'[x] = build[x]
      /\ build'[b] = [build[b] EXCEPT !.pc = "load", !.seen = <<>>]
  BY BecomesIs DEF PruneList
<1> QED
  BY <1>1, <1>2 DEF BuildStates

\* What LoadKA on a dump does to the records of the builds.
LEMMA LoadFields ==
    ASSUME build \in [Builds -> BuildStates], NEW b \in Builds,
           Becomes(b, [build[b] EXCEPT !.pc = "feed", !.ka = data, !.todo = Unmarked(b),
                                       !.prev = fed])
    PROVE  LET r == build[b]
               s == build'[b]
           IN
           /\ \A x \in Builds \ {b} : build'[x] = build[x]
           /\ s.pc = "feed" /\ s.ka = data /\ s.todo = Unmarked(b) /\ s.prev = fed
           /\ s.w = r.w /\ s.incremental = r.incremental /\ s.rows = r.rows
           /\ s.new = r.new /\ s.owned = r.owned /\ s.v = r.v /\ s.seen = r.seen
<1>1. build[b] \in BuildStates
  OBVIOUS
<1>2. /\ \A x \in Builds \ {b} : build'[x] = build[x]
      /\ build'[b] = [build[b] EXCEPT !.pc = "feed", !.ka = data, !.todo = Unmarked(b), !.prev = fed]
  BY BecomesIs
<1> QED
  BY <1>1, <1>2 DEF BuildStates

\* What LoadKA without a dump does to the records of the builds.
LEMMA FreshFields ==
    ASSUME build \in [Builds -> BuildStates], NEW b \in Builds,
           Becomes(b, [build[b] EXCEPT !.pc = "feed", !.todo = Rows(build[b].rows)])
    PROVE  LET r == build[b]
               s == build'[b]
           IN
           /\ \A x \in Builds \ {b} : build'[x] = build[x]
           /\ s.pc = "feed" /\ s.todo = Rows(r.rows) /\ s.w = r.w
           /\ s.incremental = r.incremental /\ s.rows = r.rows /\ s.new = r.new
           /\ s.ka = r.ka /\ s.owned = r.owned /\ s.prev = r.prev /\ s.v = r.v
           /\ s.seen = r.seen
<1>1. build[b] \in BuildStates
  OBVIOUS
<1>2. /\ \A x \in Builds \ {b} : build'[x] = build[x]
      /\ build'[b] = [build[b] EXCEPT !.pc = "feed", !.todo = Rows(build[b].rows)]
  BY BecomesIs
<1> QED
  BY <1>1, <1>2 DEF BuildStates

\* What FeedChunk does to the records of the builds.
LEMMA FeedChunkFields ==
    ASSUME build \in [Builds -> BuildStates], NEW b \in Builds, FeedChunk(b)
    PROVE  LET r == build[b]
               s == build'[b]
           IN
           /\ \A x \in Builds \ {b} : build'[x] = build[x]
           /\ s.todo = r.todo \ {Min(r.todo)}
           /\ s.ka = r.ka \cup Yield[Min(r.todo)][r.rows[Min(r.todo)]]
           /\ s.owned = r.owned \cup
                  ({Min(r.todo)} \X (Yield[Min(r.todo)][r.rows[Min(r.todo)]] \ r.ka))
           /\ s.pc = r.pc /\ s.w = r.w /\ s.incremental = r.incremental
           /\ s.rows = r.rows /\ s.new = r.new /\ s.prev = r.prev /\ s.v = r.v
           /\ s.seen = r.seen
<1>1. build[b] \in BuildStates
  OBVIOUS
<1>2. /\ \A x \in Builds \ {b} : build'[x] = build[x]
      /\ build'[b] = [build[b] EXCEPT
             !.todo = build[b].todo \ {Min(build[b].todo)},
             !.ka = build[b].ka \cup Yield[Min(build[b].todo)][build[b].rows[Min(build[b].todo)]],
             !.owned = build[b].owned \cup ({Min(build[b].todo)} \X
                 (Yield[Min(build[b].todo)][build[b].rows[Min(build[b].todo)]] \ build[b].ka))]
  BY BecomesIs DEF FeedChunk
<1> QED
  BY <1>1, <1>2 DEF BuildStates

\* What FeedFails does to the records of the builds.
LEMMA FeedFailsFields ==
    ASSUME build \in [Builds -> BuildStates], NEW b \in Builds, FeedFails(b)
    PROVE  LET r == build[b]
               s == build'[b]
           IN
           /\ \A x \in Builds \ {b} : build'[x] = build[x]
           /\ s.todo = r.todo \ {Min(r.todo)} /\ s.pc = r.pc /\ s.w = r.w
           /\ s.incremental = r.incremental /\ s.rows = r.rows /\ s.new = r.new
           /\ s.ka = r.ka /\ s.owned = r.owned /\ s.prev = r.prev /\ s.v = r.v
           /\ s.seen = r.seen
<1>1. build[b] \in BuildStates
  OBVIOUS
<1>2. /\ \A x \in Builds \ {b} : build'[x] = build[x]
      /\ build'[b] = [build[b] EXCEPT !.todo = build[b].todo \ {Min(build[b].todo)}]
  BY BecomesIs DEF FeedFails
<1> QED
  BY <1>1, <1>2 DEF BuildStates

\* What WriteSidecar does to the records of the builds.
LEMMA WriteSidecarFields ==
    ASSUME build \in [Builds -> BuildStates], NEW b \in Builds, WriteSidecar(b)
    PROVE  LET r == build[b]
               s == build'[b]
           IN
           /\ \A x \in Builds \ {b} : build'[x] = build[x]
           /\ s.pc = (IF r.ka = {} THEN "finish" ELSE "entities") /\ s.prev = Nothing
           /\ s.w = r.w /\ s.incremental = r.incremental /\ s.rows = r.rows
           /\ s.new = r.new /\ s.todo = r.todo /\ s.ka = r.ka /\ s.owned = r.owned
           /\ s.v = r.v /\ s.seen = r.seen
<1>1. build[b] \in BuildStates
  OBVIOUS
<1>2. /\ \A x \in Builds \ {b} : build'[x] = build[x]
      /\ build'[b] = [build[b] EXCEPT !.pc = IF build[b].ka = {} THEN "finish" ELSE "entities", !.prev =
                                  Nothing]
  BY BecomesIs DEF WriteSidecar
<1> QED
  BY <1>1, <1>2 DEF BuildStates

\* What MapChunks does to the records of the builds.
LEMMA MapFields ==
    ASSUME build \in [Builds -> BuildStates], NEW b \in Builds, NEW got,
           Becomes(b, [build[b] EXCEPT !.pc = "checkpoint", !.ka = NamesIn(got), !.owned = got])
    PROVE  LET r == build[b]
               s == build'[b]
           IN
           /\ \A x \in Builds \ {b} : build'[x] = build[x]
           /\ s.pc = "checkpoint" /\ s.ka = NamesIn(got) /\ s.owned = got /\ s.w = r.w
           /\ s.incremental = r.incremental /\ s.rows = r.rows /\ s.new = r.new
           /\ s.todo = r.todo /\ s.prev = r.prev /\ s.v = r.v /\ s.seen = r.seen
<1>1. build[b] \in BuildStates
  OBVIOUS
<1>2. /\ \A x \in Builds \ {b} : build'[x] = build[x]
      /\ build'[b] = [build[b] EXCEPT !.pc = "checkpoint", !.ka = NamesIn(got), !.owned = got]
  BY BecomesIs
<1> QED
  BY <1>1, <1>2 DEF BuildStates

\* What a new request does to the records of the builds.
LEMMA QueueFields ==
    ASSUME build \in [Builds -> BuildStates], NEW b \in Builds, NEW w, NEW i,
           Becomes(b, [Idle EXCEPT !.pc = "queued", !.w = w, !.incremental = i,
                                   !.rows = table])
    PROVE  LET s == build'[b] IN
           /\ \A x \in Builds \ {b} : build'[x] = build[x]
           /\ s.pc = "queued" /\ s.w = w /\ s.incremental = i /\ s.rows = table
           /\ s.new = {} /\ s.todo = {} /\ s.ka = {} /\ s.owned = {} /\ s.prev = Nothing
           /\ s.v = 0 /\ s.seen = <<>>
<1>1. /\ \A x \in Builds \ {b} : build'[x] = build[x]
      /\ build'[b] = [Idle EXCEPT !.pc = "queued", !.w = w, !.incremental = i,
                                  !.rows = table]
  BY BecomesIs
<1> QED
  BY <1>1 DEF Idle

\* What Crash does to the records of the builds.
LEMMA CrashFields ==
    ASSUME build \in [Builds -> BuildStates], NEW w, Crash(w), NEW b \in Builds
    PROVE  LET s == build'[b] IN
           \/ /\ s = build[b]
              /\ build[b].w = w => build[b].pc \in {"none"} \cup Ended
           \/ /\ build[b].w = w /\ build[b].pc \notin {"none"} \cup Ended
              /\ s.pc = "gone" /\ s.incremental = FALSE /\ s.rows = Nothing
              /\ s.new = {} /\ s.todo = {} /\ s.ka = {} /\ s.owned = {}
              /\ s.prev = Nothing /\ s.v = 0 /\ s.seen = <<>>
<1>1. \/ build[b].w = w /\ build[b].pc \notin {"none"} \cup Ended /\ build'[b] = [Idle EXCEPT !.pc = "gone"]
      \/ ~(build[b].w = w /\ build[b].pc \notin {"none"} \cup Ended) /\ build'[b] = build[b]
  BY DEF Crash
<1> QED
  BY <1>1 DEF Idle

\* A build that does not move keeps its shape, and one that has ended has the empty one.
LEMMA ShapeStays ==
    ASSUME NEW x \in Builds, Shape(x), build'[x] = build[x], minChunks' = minChunks
    PROVE  Shape(x)'
  BY DEF Shape, MapReduced

\* A build that is over or queued has collected nothing.
LEMMA ShapeEnded ==
    ASSUME NEW x \in Builds,
           build'[x].pc \in Ended \cup {"queued", "snapshot", "stuck"},
           build'[x].prev = Nothing, build'[x].ka = {}, build'[x].owned = {},
           build'[x].todo = {}
    PROVE  Shape(x)'
  BY DEF Shape, Ended, PastPcs, DatasetPcs, MapPcs, InsertPcs

\* The end of a build keeps every build's Shape.
LEMMA ShapeEnds ==
    ASSUME build \in [Builds -> BuildStates], \A x \in Builds : Shape(x),
           NEW b \in Builds, NEW st \in Ended, End(b, st), minChunks' = minChunks
    PROVE  \A x \in Builds : Shape(x)'
<1>1. Shape(b)'
  BY EndFields, ShapeEnded
<1>2. \A x \in Builds \ {b} : build'[x] = build[x]
  BY EndFields
<1> QED
  BY <1>1, <1>2, ShapeStays

\* Every action keeps builds in shape.
LEMMA ShapeStep ==
    ASSUME BaseTypes, ListedExist, \A b \in Builds : Shape(b), Next
    PROVE  \A b \in Builds : Shape(b)'
<1>0. build \in [Builds -> BuildStates] /\ fed \in Rowss /\ \A b \in Builds : Shape(b)
  BY DEF BaseTypes
<1>1. ASSUME NEW b \in Builds, AcquireLock(b) PROVE \A x \in Builds : Shape(x)'
  <2>1. minChunks' = minChunks /\ build[b].pc = "queued" /\ Goto(b, "vertices")
    BY <1>1 DEF AcquireLock
  <2>2. Shape(b)' /\ \A x \in Builds \ {b} : build'[x] = build[x]
    BY <2>1, <1>0, GotoFields DEF Shape, MapReduced, PastPcs, DatasetPcs, MapPcs,
       InsertPcs
  <2> QED
    BY <2>1, <2>2, <1>0, ShapeStays
<1>2. ASSUME NEW b \in Builds, AddVertices(b) PROVE \A x \in Builds : Shape(x)'
  <2>1. CASE Rows(build[b].rows) = {}
    BY <1>2, <1>0, <2>1, ShapeEnds DEF AddVertices, Ended
  <2>2. CASE Rows(build[b].rows) # {}
    <3>1. minChunks' = minChunks /\ build[b].pc = "vertices"
      BY <1>2 DEF AddVertices
    <3>2. Shape(b)' /\ \A x \in Builds \ {b} : build'[x] = build[x]
      BY <3>1, <1>2, <2>2, <1>0, AddVerticesFields
         DEF Shape, MapReduced, PastPcs, DatasetPcs, MapPcs, InsertPcs
    <3> QED
      BY <3>1, <3>2, <1>0, ShapeStays
  <2> QED
    BY <2>1, <2>2
<1>3. ASSUME NEW b \in Builds, ArchiveCopy(b) PROVE \A x \in Builds : Shape(x)'
  <2>1. minChunks' = minChunks /\ build[b].pc = "archive"
    BY <1>3 DEF ArchiveCopy
  <2>2. Shape(b)' /\ \A x \in Builds \ {b} : build'[x] = build[x]
    <3>1. CASE data = NoDump
      <4>1. Goto(b, "prune")
        BY <1>3, <3>1 DEF ArchiveCopy
      <4> QED
        BY <4>1, <2>1, <1>0, GotoFields
           DEF Shape, MapReduced, PastPcs, DatasetPcs, MapPcs, InsertPcs
    <3>2. CASE data # NoDump
      BY <2>1, <1>3, <3>2, <1>0, ArchiveCopyFields
         DEF Shape, MapReduced, PastPcs, DatasetPcs, MapPcs, InsertPcs
    <3> QED
      BY <3>1, <3>2
  <2> QED
    BY <2>1, <2>2, <1>0, ShapeStays
<1>4. ASSUME NEW b \in Builds, ArchiveList(b) PROVE \A x \in Builds : Shape(x)'
  <2>1. minChunks' = minChunks /\ build[b].pc = "list"
    BY <1>4 DEF ArchiveList
  <2>2. Shape(b)' /\ \A x \in Builds \ {b} : build'[x] = build[x]
    BY <2>1, <1>4, <1>0, ArchiveListFields DEF Shape, MapReduced, PastPcs, DatasetPcs,
       MapPcs, InsertPcs
  <2> QED
    BY <2>1, <2>2, <1>0, ShapeStays
<1>5. ASSUME NEW b \in Builds, PruneDirs(b) PROVE \A x \in Builds : Shape(x)'
  <2>1. minChunks' = minChunks /\ build[b].pc = "prune"
    BY <1>5 DEF PruneDirs
  <2>2. Shape(b)' /\ \A x \in Builds \ {b} : build'[x] = build[x]
    BY <2>1, <1>5, <1>0, PruneDirsFields DEF Shape, MapReduced, PastPcs, DatasetPcs,
       MapPcs, InsertPcs
  <2> QED
    BY <2>1, <2>2, <1>0, ShapeStays
<1>6. ASSUME NEW b \in Builds, PruneList(b) PROVE \A x \in Builds : Shape(x)'
  <2>1. minChunks' = minChunks /\ build[b].pc = "trim"
    BY <1>6 DEF PruneList
  <2>2. Shape(b)' /\ \A x \in Builds \ {b} : build'[x] = build[x]
    BY <2>1, <1>6, <1>0, PruneListFields DEF Shape, MapReduced, PastPcs, DatasetPcs,
       MapPcs, InsertPcs
  <2> QED
    BY <2>1, <2>2, <1>0, ShapeStays
<1>7. ASSUME NEW b \in Builds, LoadKA(b) PROVE \A x \in Builds : Shape(x)'
  <2>1. minChunks' = minChunks /\ build[b].pc = "load"
    BY <1>7 DEF LoadKA
  <2>2. Shape(b)' /\ \A x \in Builds \ {b} : build'[x] = build[x]
    <3>1. CASE build[b].incremental
               /\ Becomes(b, [build[b] EXCEPT !.pc = "feed", !.ka = data,
                                              !.todo = Unmarked(b), !.prev = fed])
      <4>1. Unmarked(b) \subseteq Rows(build[b].rows)
        BY DEF Unmarked
      <4> QED
        BY <4>1, <2>1, <3>1, <1>0, LoadFields, ZenonT(30)
           DEF Shape, MapReduced, PastPcs, DatasetPcs, MapPcs, InsertPcs
    <3>2. CASE Becomes(b, [build[b] EXCEPT !.pc = "feed", !.todo = Rows(build[b].rows)])
      BY <2>1, <3>2, <1>0, FreshFields, ZenonT(30)
         DEF Shape, MapReduced, PastPcs, DatasetPcs, MapPcs, InsertPcs
    <3> QED
      BY <1>7, <3>1, <3>2 DEF LoadKA
  <2> QED
    BY <2>1, <2>2, <1>0, ShapeStays
<1>8. ASSUME NEW b \in Builds, FeedChunk(b) PROVE \A x \in Builds : Shape(x)'
  <2>1. minChunks' = minChunks /\ build[b].pc = "feed" /\ build[b].todo # {}
    BY <1>8 DEF FeedChunk
  <2>2. {Min(build[b].todo)} \X (Yield[Min(build[b].todo)][build[b].rows[Min(build[b].todo)]]
                                    \ build[b].ka) \subseteq Mentions(build[b].rows)
    BY <2>1, <1>0, FedNames
  <2>3. Shape(b)' /\ \A x \in Builds \ {b} : build'[x] = build[x]
    BY <2>1, <2>2, <1>8, <1>0, FeedChunkFields
       DEF Shape, MapReduced, PastPcs, DatasetPcs, MapPcs, InsertPcs
  <2> QED
    BY <2>1, <2>3, <1>0, ShapeStays
<1>9. ASSUME NEW b \in Builds, DumpKA(b) PROVE \A x \in Builds : Shape(x)'
  <2>1. minChunks' = minChunks /\ build[b].pc = "feed" /\ build[b].todo = {} /\ Goto(b, "sidecar")
    BY <1>9 DEF DumpKA
  <2>2. Shape(b)' /\ \A x \in Builds \ {b} : build'[x] = build[x]
    BY <2>1, <1>0, GotoFields DEF Shape, MapReduced, PastPcs, DatasetPcs, MapPcs,
       InsertPcs
  <2> QED
    BY <2>1, <2>2, <1>0, ShapeStays
<1>10. ASSUME NEW b \in Builds, WriteSidecar(b) PROVE \A x \in Builds : Shape(x)'
  <2>1. minChunks' = minChunks /\ build[b].pc = "sidecar"
    BY <1>10 DEF WriteSidecar
  <2>2. Shape(b)' /\ \A x \in Builds \ {b} : build'[x] = build[x]
    BY <2>1, <1>10, <1>0, WriteSidecarFields DEF Shape, MapReduced, PastPcs,
       DatasetPcs, MapPcs, InsertPcs
  <2> QED
    BY <2>1, <2>2, <1>0, ShapeStays
<1>11. ASSUME NEW b \in Builds, MapChunks(b) PROVE \A x \in Builds : Shape(x)'
  <2>1. PICK got \in SUBSET Mentions(build[b].rows) :
            Becomes(b, [build[b] EXCEPT !.pc = "checkpoint", !.ka = NamesIn(got), !.owned = got])
    BY <1>11 DEF MapChunks
  <2>2. minChunks' = minChunks /\ build[b].pc = "map"
    BY <1>11 DEF MapChunks
  <2>3. /\ \A x \in Builds \ {b} : build'[x] = build[x]
        /\ build'[b].pc = "checkpoint" /\ build'[b].ka = NamesIn(got) /\ build'[b].owned = got
        /\ build'[b].rows = build[b].rows /\ build'[b].incremental = build[b].incremental
        /\ build'[b].todo = build[b].todo /\ build'[b].prev = build[b].prev
    BY <2>1, <1>0, MapFields
  <2>4. Shape(b)'
    BY <2>1, <2>2, <2>3, <1>0
       DEF Shape, MapReduced, PastPcs, DatasetPcs, MapPcs, InsertPcs
  <2> QED
    BY <2>2, <2>3, <2>4, <1>0, ShapeStays
<1>12. ASSUME NEW b \in Builds, WriteCheckpoint(b) PROVE \A x \in Builds : Shape(x)'
  <2>1. minChunks' = minChunks /\ build[b].pc = "checkpoint" /\ Goto(b, "mark")
    BY <1>12 DEF WriteCheckpoint
  <2>2. Shape(b)' /\ \A x \in Builds \ {b} : build'[x] = build[x]
    BY <2>1, <1>0, GotoFields DEF Shape, MapReduced, PastPcs, DatasetPcs, MapPcs,
       InsertPcs
  <2> QED
    BY <2>1, <2>2, <1>0, ShapeStays
<1>13. ASSUME NEW b \in Builds, MarkMapped(b) PROVE \A x \in Builds : Shape(x)'
  <2>1. minChunks' = minChunks /\ build[b].pc = "mark"
        /\ Goto(b, IF build[b].ka = {} THEN "finish" ELSE "entities")
    BY <1>13 DEF MarkMapped
  <2>2. Shape(b)' /\ \A x \in Builds \ {b} : build'[x] = build[x]
    BY <2>1, <1>0, GotoFields DEF Shape, MapReduced, PastPcs, DatasetPcs, MapPcs,
       InsertPcs
  <2> QED
    BY <2>1, <2>2, <1>0, ShapeStays
<1>14. ASSUME NEW b \in Builds, InsertEntities(b) PROVE \A x \in Builds : Shape(x)'
  <2>1. minChunks' = minChunks /\ build[b].pc = "entities" /\ Goto(b, "references")
    BY <1>14 DEF InsertEntities
  <2>2. Shape(b)' /\ \A x \in Builds \ {b} : build'[x] = build[x]
    BY <2>1, <1>0, GotoFields DEF Shape, MapReduced, PastPcs, DatasetPcs, MapPcs,
       InsertPcs
  <2> QED
    BY <2>1, <2>2, <1>0, ShapeStays
<1>15. ASSUME NEW b \in Builds, InsertReferences(b) PROVE \A x \in Builds : Shape(x)'
  <2>1. minChunks' = minChunks /\ build[b].pc = "references" /\ Goto(b, "finish")
    BY <1>15 DEF InsertReferences
  <2>2. Shape(b)' /\ \A x \in Builds \ {b} : build'[x] = build[x]
    BY <2>1, <1>0, GotoFields DEF Shape, MapReduced, PastPcs, DatasetPcs, MapPcs,
       InsertPcs
  <2> QED
    BY <2>1, <2>2, <1>0, ShapeStays
<1>16. ASSUME NEW b \in Builds, FinishBuild(b) PROVE \A x \in Builds : Shape(x)'
  <2>1. minChunks' = minChunks
    BY <1>16 DEF FinishBuild
  <2>2. Shape(b)' /\ \A x \in Builds \ {b} : build'[x] = build[x]
    BY <1>16, <1>0, SnapFields, ShapeEnded
  <2> QED
    BY <2>1, <2>2, <1>0, ShapeStays
<1>28. ASSUME NEW b \in Builds, ReleaseLock(b) PROVE \A x \in Builds : Shape(x)'
  BY <1>28, <1>0, ShapeEnds DEF ReleaseLock, Ended, vars
<1>29. ASSUME NEW b \in Builds, SnapshotHangs(b) PROVE \A x \in Builds : Shape(x)'
  <2>1. minChunks' = minChunks /\ build[b].pc = "snapshot" /\ Goto(b, "stuck")
    BY <1>29 DEF SnapshotHangs
  <2>2. Shape(b)' /\ \A x \in Builds \ {b} : build'[x] = build[x]
    BY <2>1, <1>0, GotoFields DEF Shape, MapReduced, PastPcs, DatasetPcs, MapPcs,
       InsertPcs
  <2> QED
    BY <2>1, <2>2, <1>0, ShapeStays
<1>17. ASSUME NEW b \in Builds, GraphGone(b) PROVE \A x \in Builds : Shape(x)'
  BY <1>17, <1>0, ShapeEnds DEF GraphGone, Ended, vars
<1>18. ASSUME NEW b \in Builds, VersioningFails(b) PROVE \A x \in Builds : Shape(x)'
  <2>1. minChunks' = minChunks /\ build[b].pc \in {"archive", "list", "trim"}
    BY <1>18 DEF VersioningFails
  <2>2. Shape(b)' /\ \A x \in Builds \ {b} : build'[x] = build[x]
    BY <2>1, <1>18, <1>0, VersioningFailsFields DEF Shape, MapReduced, PastPcs,
       DatasetPcs, MapPcs, InsertPcs
  <2> QED
    BY <2>1, <2>2, <1>0, ShapeStays
<1>19. ASSUME NEW b \in Builds, FeedFails(b) PROVE \A x \in Builds : Shape(x)'
  <2>1. minChunks' = minChunks /\ build[b].pc = "feed" /\ build[b].todo # {}
    BY <1>19 DEF FeedFails
  <2>2. Shape(b)' /\ \A x \in Builds \ {b} : build'[x] = build[x]
    BY <2>1, <1>19, <1>0, FeedFailsFields DEF Shape, MapReduced, PastPcs, DatasetPcs,
       MapPcs, InsertPcs
  <2> QED
    BY <2>1, <2>2, <1>0, ShapeStays
<1>20. ASSUME NEW b \in Builds, FeedHangs(b) PROVE \A x \in Builds : Shape(x)'
  <2>1. minChunks' = minChunks /\ build[b].pc = "feed" /\ Goto(b, "hung")
    BY <1>20 DEF FeedHangs
  <2>2. Shape(b)' /\ \A x \in Builds \ {b} : build'[x] = build[x]
    BY <2>1, <1>0, GotoFields DEF Shape, MapReduced, PastPcs, DatasetPcs, MapPcs,
       InsertPcs
  <2> QED
    BY <2>1, <2>2, <1>0, ShapeStays
<1>21. ASSUME NEW b \in Builds, SidecarWriteFails(b) PROVE \A x \in Builds : Shape(x)'
  <2>1. minChunks' = minChunks /\ build[b].pc \in {"sidecar", "checkpoint", "mark"}
        /\ Goto(b, IF build[b].ka = {} THEN "finish" ELSE "entities")
    BY <1>21 DEF SidecarWriteFails
  <2>2. Shape(b)' /\ \A x \in Builds \ {b} : build'[x] = build[x]
    BY <2>1, <1>0, GotoFields DEF Shape, MapReduced, PastPcs, DatasetPcs, MapPcs,
       InsertPcs
  <2> QED
    BY <2>1, <2>2, <1>0, ShapeStays
<1>22. ASSUME NEW b \in Builds, BuildFails(b) PROVE \A x \in Builds : Shape(x)'
  BY <1>22, <1>0, ShapeEnds DEF BuildFails, Ended, vars
<1>23. ASSUME NEW b \in Builds, TimeoutBuild(b) PROVE \A x \in Builds : Shape(x)'
  BY <1>23, <1>0, ShapeEnds DEF TimeoutBuild, Ended, vars
<1>24. ASSUME NEW w \in Workers, Crash(w) PROVE \A x \in Builds : Shape(x)'
  <2>1. minChunks' = minChunks
    BY <1>24 DEF Crash
  <2> SUFFICES ASSUME NEW x \in Builds PROVE Shape(x)'
    OBVIOUS
  <2>2. CASE build'[x] = build[x]
    BY <2>1, <2>2, <1>0, ShapeStays
  <2>3. CASE build'[x].pc = "gone" /\ build'[x].prev = Nothing /\ build'[x].ka = {}
             /\ build'[x].owned = {} /\ build'[x].todo = {}
    BY <2>3, ShapeEnded DEF Ended
  <2> QED
    BY <1>24, <1>0, <2>2, <2>3, CrashFields
<1>25. ASSUME NEW w \in Workers, NEW i \in BOOLEAN, KgBuild(w, i)
       PROVE  \A x \in Builds : Shape(x)'
  <2>1. PICK b \in Builds : Becomes(b, [Idle EXCEPT !.pc = "queued", !.w = w,
                                                    !.incremental = i, !.rows = table])
    BY <1>25 DEF KgBuild
  <2>2. minChunks' = minChunks
    BY <1>25 DEF KgBuild
  <2>3. Shape(b)'
    BY <2>1, <1>0, QueueFields, ShapeEnded
  <2>4. \A x \in Builds \ {b} : build'[x] = build[x]
    BY <2>1, <1>0, QueueFields
  <2> QED
    BY <2>2, <2>3, <2>4, <1>0, ShapeStays
<1>26. CASE UNCHANGED <<build, minChunks>>
  BY <1>26, <1>0, ShapeStays
<1>27.
      \/ UNCHANGED <<build, minChunks>>
      \/ \E b \in Builds : BuildStep(b) \/ BuildFault(b)
      \/ \E w \in Workers, i \in BOOLEAN : KgBuild(w, i)
      \/ \E w \in Workers : Crash(w)
  BY DEF Next, OpStep, Done, ZombieDump, ClearGraph, RollbackStart, RollbackList,
     RollbackRestore, PruneOp, PruneOpList, EditTable, vars, diskVars, versionVars,
     graphVars, ghostVars, boundVars
<1> QED
  BY <1>1, <1>2, <1>3, <1>4, <1>5, <1>6, <1>7, <1>8, <1>9, <1>10, <1>11, <1>12, <1>13,
     <1>14, <1>15, <1>16, <1>17, <1>18, <1>19, <1>20, <1>21, <1>22, <1>23, <1>24,
     <1>25, <1>26, <1>27, <1>28, <1>29 DEF BuildStep, BuildFault

\* The versions listed, or about to be, where only one build moves.
LEMMA ListedStays ==
    ASSUME ListedExist, UNCHANGED <<dirs, op>>, manifest' \in {manifest, <<>>},
           NEW b \in Builds, \A x \in Builds \ {b} : build'[x] = build[x],
           build'[b].pc # "list", build'[b].seen \in {build[b].seen, <<>>}
    PROVE  ListedExist'
<1>1. ToSet(<<>>) = {}
  BY DEF ToSet
<1>2. ToSet(build'[b].seen) \subseteq DOMAIN dirs
  BY <1>1 DEF ListedExist, SeenExist
<1>3. ToSet(manifest') \subseteq DOMAIN dirs'
  BY <1>1 DEF ListedExist
<1>4. \A x \in Builds : SeenExist(build[x])'
  BY <1>2 DEF ListedExist, SeenExist
<1>5. SeenExist(op)' /\ (op'.pc \in {"list", "restore"} => op'.target \in DOMAIN dirs')
  BY DEF ListedExist, SeenExist
<1> QED
  BY <1>3, <1>4, <1>5 DEF ListedExist

\* ... and where versions are made and none unlisted.
LEMMA ListedGrows ==
    ASSUME ListedExist, DOMAIN dirs \subseteq DOMAIN dirs', NEW x \in Builds,
           build'[x] = build[x]
    PROVE  SeenExist(build[x])'
  BY DEF ListedExist, SeenExist

\* Every action keeps what is listed, or about to be, among the versions made.
LEMMA ListedStep ==
    ASSUME BaseTypes, ListedExist, \A b \in Builds : Shape(b), Next
    PROVE  ListedExist'
<1>0. /\ build \in [Builds -> BuildStates] /\ dirs \in Seq(Files) /\ manifest \in Seq(Nat)
      /\ data \in Files /\ op \in OpStates /\ ListedExist
      /\ ToSet(<<>>) = {}
  BY DEF BaseTypes, ToSet
<1>1. ASSUME NEW b \in Builds, AcquireLock(b) PROVE ListedExist'
  <2>1. UNCHANGED <<dirs, manifest, op>> /\ Goto(b, "vertices")
    BY <1>1 DEF AcquireLock, diskVars, versionVars, graphVars, ghostVars, boundVars
  <2>3. /\ \A x \in Builds \ {b} : build'[x] = build[x]
        /\ build'[b].pc # "list" /\ build'[b].seen \in {build[b].seen, <<>>}
    BY <2>1, <1>0, GotoFields
  <2> QED
    BY <2>1, <2>3, <1>0, ListedStays
<1>2. ASSUME NEW b \in Builds, AddVertices(b) PROVE ListedExist'
  <2>1. UNCHANGED <<dirs, manifest, op>>
    BY <1>2 DEF AddVertices, versionVars
  <2>2. CASE Rows(build[b].rows) = {}
    <3>1. End(b, "completed")
      BY <1>2, <2>2 DEF AddVertices
    <3>2. \A x \in Builds \ {b} : build'[x] = build[x]
      BY <3>1, <1>0, EndFields
    <3>3. build'[b].pc = "completed" /\ build'[b].seen = <<>>
      BY <3>1, <1>0, EndFields
    <3> QED
      BY <3>2, <3>3, <2>1, <1>0, ListedStays
  <2>3. CASE Rows(build[b].rows) # {}
    BY <1>2, <2>3, <2>1, <1>0, AddVerticesFields, ListedStays
  <2> QED
    BY <2>2, <2>3
<1>3. ASSUME NEW b \in Builds, ArchiveCopy(b) PROVE ListedExist'
  <2>1. CASE data = NoDump
    <3>1. Goto(b, "prune") /\ UNCHANGED <<dirs, manifest, op>>
      BY <1>3, <2>1 DEF ArchiveCopy
    <3>2. /\ \A x \in Builds \ {b} : build'[x] = build[x]
          /\ build'[b].pc = "prune" /\ build'[b].seen = build[b].seen
      BY <3>1, <1>0, GotoFields
    <3> QED
      BY <3>1, <3>2, <1>0, ListedStays
  <2>2. CASE data # NoDump
    <3>1. dirs' = Append(dirs, data) /\ UNCHANGED <<manifest, op>>
      BY <1>3, <2>2 DEF ArchiveCopy
    <3>2. Len(dirs) + 1 \in DOMAIN dirs' /\ DOMAIN dirs \subseteq DOMAIN dirs'
      <4>1. DOMAIN dirs' = 1 .. Len(dirs) + 1 /\ DOMAIN dirs = 1 .. Len(dirs) /\ Len(dirs) \in Nat
        BY <3>1, <1>0, AppendIs
      <4> QED
        BY <4>1
    <3>3. /\ \A x \in Builds \ {b} : build'[x] = build[x]
          /\ build'[b].v = Len(dirs) + 1 /\ build'[b].seen = manifest
      BY <1>3, <2>2, <1>0, ArchiveCopyFields
    <3>4. SeenExist(build[b])'
      BY <3>2, <3>3, <1>0 DEF ListedExist, SeenExist
    <3>5. \A x \in Builds \ {b} : SeenExist(build[x])'
      BY <3>2, <3>3, <1>0, ListedGrows
    <3> QED
      BY <3>1, <3>2, <3>4, <3>5, <1>0 DEF ListedExist, SeenExist
  <2> QED
    BY <2>1, <2>2
<1>4. ASSUME NEW b \in Builds, ArchiveList(b) PROVE ListedExist'
  <2>1. dirs' = dirs /\ op' = op /\ manifest' = Append(build[b].seen, build[b].v)
        /\ build[b].pc = "list"
    BY <1>4 DEF ArchiveList
  <2>2. build[b].seen \in Seq(Nat) /\ build[b].v \in Nat
    BY <1>0, ZenonT(30) DEF BuildStates
  <2>3. ToSet(manifest') \subseteq DOMAIN dirs
    <3>1. ToSet(manifest') \subseteq ToSet(build[b].seen) \cup {build[b].v}
      BY <2>1, <2>2, AppendIs
    <3> QED
      BY <3>1, <2>1, <1>0 DEF ListedExist, SeenExist
  <2>4. /\ \A x \in Builds \ {b} : build'[x] = build[x]
        /\ build'[b].pc = "prune" /\ build'[b].seen = <<>>
    BY <1>4, <1>0, ArchiveListFields
  <2> QED
    BY <2>1, <2>3, <2>4, <1>0 DEF ListedExist, SeenExist
<1>5. ASSUME NEW b \in Builds, PruneDirs(b) PROVE ListedExist'
  <2>1. manifest' = manifest /\ op' = op /\ DOMAIN dirs' = DOMAIN dirs
    BY <1>5, <1>0, WithoutIs DEF PruneDirs
  <2>2. ToSet(IF KeepVersions = 0 THEN manifest ELSE Newest(manifest, KeepVersions))
           \subseteq DOMAIN dirs
    BY <1>0, NewestIs, BuildConstants DEF ListedExist
  <2>3. /\ \A x \in Builds \ {b} : build'[x] = build[x]
        /\ build'[b].pc # "list" /\ ToSet(build'[b].seen) \subseteq DOMAIN dirs
    BY <1>5, <2>2, <1>0, PruneDirsFields
  <2> QED
    BY <2>1, <2>3, <1>0 DEF ListedExist, SeenExist
<1>6. ASSUME NEW b \in Builds, PruneList(b) PROVE ListedExist'
  <2>1. dirs' = dirs /\ op' = op /\ manifest' = build[b].seen
    BY <1>6 DEF PruneList
  <2>2. /\ \A x \in Builds \ {b} : build'[x] = build[x]
        /\ build'[b].pc = "load" /\ build'[b].seen = <<>>
    BY <1>6, <1>0, PruneListFields
  <2> QED
    BY <2>1, <2>2, <1>0 DEF ListedExist, SeenExist
<1>7. ASSUME NEW b \in Builds, LoadKA(b) PROVE ListedExist'
  <2>1. UNCHANGED <<dirs, manifest, op>>
    BY <1>7 DEF LoadKA, versionVars
  <2>2. CASE Becomes(b, [build[b] EXCEPT !.pc = "feed", !.ka = data, !.todo = Unmarked(b),
                                         !.prev = fed])
    BY <2>1, <2>2, <1>0, LoadFields, ListedStays
  <2>3. CASE Becomes(b, [build[b] EXCEPT !.pc = "feed", !.todo = Rows(build[b].rows)])
    BY <2>1, <2>3, <1>0, FreshFields, ListedStays
  <2> QED
    BY <1>7, <2>2, <2>3 DEF LoadKA
<1>8. ASSUME NEW b \in Builds, FeedChunk(b) PROVE ListedExist'
  <2>1. UNCHANGED <<dirs, manifest, op>>
    BY <1>8 DEF FeedChunk, diskVars, versionVars, graphVars, ghostVars, boundVars
  <2>2. build[b].pc = "feed"
    BY <1>8 DEF FeedChunk
  <2>3. /\ \A x \in Builds \ {b} : build'[x] = build[x]
        /\ build'[b].pc # "list" /\ build'[b].seen \in {build[b].seen, <<>>}
    BY <1>8, <2>2, <1>0, FeedChunkFields
  <2> QED
    BY <2>1, <2>3, <1>0, ListedStays
<1>9. ASSUME NEW b \in Builds, DumpKA(b) PROVE ListedExist'
  <2>1. UNCHANGED <<dirs, manifest, op>> /\ Goto(b, "sidecar")
    BY <1>9 DEF DumpKA, diskVars, versionVars, graphVars, ghostVars, boundVars
  <2>3. /\ \A x \in Builds \ {b} : build'[x] = build[x]
        /\ build'[b].pc # "list" /\ build'[b].seen \in {build[b].seen, <<>>}
    BY <2>1, <1>0, GotoFields
  <2> QED
    BY <2>1, <2>3, <1>0, ListedStays
<1>10. ASSUME NEW b \in Builds, WriteSidecar(b) PROVE ListedExist'
  <2>1. UNCHANGED <<dirs, manifest, op>>
    BY <1>10 DEF WriteSidecar, diskVars, versionVars, graphVars, ghostVars, boundVars
  <2>3. /\ \A x \in Builds \ {b} : build'[x] = build[x]
        /\ build'[b].pc # "list" /\ build'[b].seen \in {build[b].seen, <<>>}
    BY <1>10, <1>0, WriteSidecarFields
  <2> QED
    BY <2>1, <2>3, <1>0, ListedStays
<1>11. ASSUME NEW b \in Builds, MapChunks(b) PROVE ListedExist'
  <2>1. UNCHANGED <<dirs, manifest, op>>
    BY <1>11 DEF MapChunks, versionVars
  <2>2. PICK got : Becomes(b, [build[b] EXCEPT !.pc = "checkpoint", !.ka = NamesIn(got),
                                                !.owned = got])
    BY <1>11 DEF MapChunks
  <2>3. /\ \A x \in Builds \ {b} : build'[x] = build[x]
        /\ build'[b].pc = "checkpoint" /\ build'[b].seen = build[b].seen
    BY <2>2, <1>0, MapFields
  <2> QED
    BY <2>1, <2>3, <1>0, ListedStays
<1>12. ASSUME NEW b \in Builds, WriteCheckpoint(b) PROVE ListedExist'
  <2>1. UNCHANGED <<dirs, manifest, op>> /\ Goto(b, "mark")
    BY <1>12 DEF WriteCheckpoint, diskVars, versionVars, graphVars, ghostVars,
       boundVars
  <2>3. /\ \A x \in Builds \ {b} : build'[x] = build[x]
        /\ build'[b].pc # "list" /\ build'[b].seen \in {build[b].seen, <<>>}
    BY <2>1, <1>0, GotoFields
  <2> QED
    BY <2>1, <2>3, <1>0, ListedStays
<1>13. ASSUME NEW b \in Builds, MarkMapped(b) PROVE ListedExist'
  <2>1. UNCHANGED <<dirs, manifest, op>> /\ Goto(b, IF build[b].ka = {} THEN "finish" ELSE "entities")
    BY <1>13 DEF MarkMapped, diskVars, versionVars, graphVars, ghostVars, boundVars
  <2>3. /\ \A x \in Builds \ {b} : build'[x] = build[x]
        /\ build'[b].pc # "list" /\ build'[b].seen \in {build[b].seen, <<>>}
    BY <2>1, <1>0, GotoFields
  <2> QED
    BY <2>1, <2>3, <1>0, ListedStays
<1>14. ASSUME NEW b \in Builds, InsertEntities(b) PROVE ListedExist'
  <2>1. UNCHANGED <<dirs, manifest, op>> /\ Goto(b, "references")
    BY <1>14 DEF InsertEntities, diskVars, versionVars, graphVars, ghostVars,
       boundVars
  <2>3. /\ \A x \in Builds \ {b} : build'[x] = build[x]
        /\ build'[b].pc # "list" /\ build'[b].seen \in {build[b].seen, <<>>}
    BY <2>1, <1>0, GotoFields
  <2> QED
    BY <2>1, <2>3, <1>0, ListedStays
<1>15. ASSUME NEW b \in Builds, InsertReferences(b) PROVE ListedExist'
  <2>1. UNCHANGED <<dirs, manifest, op>> /\ Goto(b, "finish")
    BY <1>15 DEF InsertReferences, diskVars, versionVars, graphVars, ghostVars,
       boundVars
  <2>3. /\ \A x \in Builds \ {b} : build'[x] = build[x]
        /\ build'[b].pc # "list" /\ build'[b].seen \in {build[b].seen, <<>>}
    BY <2>1, <1>0, GotoFields
  <2> QED
    BY <2>1, <2>3, <1>0, ListedStays
<1>16. ASSUME NEW b \in Builds, FinishBuild(b) PROVE ListedExist'
  <2>1. UNCHANGED <<dirs, manifest, op>>
    BY <1>16 DEF FinishBuild, diskVars, versionVars, graphVars, ghostVars, boundVars
  <2>2. \A x \in Builds \ {b} : build'[x] = build[x]
    BY <1>16, <1>0, SnapFields
  <2>3. build'[b].pc = "snapshot" /\ build'[b].seen = <<>>
    BY <1>16, <1>0, SnapFields
  <2> QED
    BY <2>1, <2>2, <2>3, <1>0, ListedStays
<1>35. ASSUME NEW b \in Builds, ReleaseLock(b) PROVE ListedExist'
  <2>1. UNCHANGED <<dirs, manifest, op>> /\ End(b, "completed")
    BY <1>35 DEF ReleaseLock, diskVars, versionVars, graphVars, ghostVars, boundVars
  <2>2. \A x \in Builds \ {b} : build'[x] = build[x]
    BY <2>1, <1>0, EndFields
  <2>3. build'[b].pc = "completed" /\ build'[b].seen = <<>>
    BY <2>1, <1>0, EndFields
  <2> QED
    BY <2>1, <2>2, <2>3, <1>0, ListedStays
<1>36. ASSUME NEW b \in Builds, SnapshotHangs(b) PROVE ListedExist'
  <2>1. UNCHANGED <<dirs, manifest, op>> /\ Goto(b, "stuck")
    BY <1>36 DEF SnapshotHangs, diskVars, versionVars, graphVars, ghostVars, boundVars
  <2>3. /\ \A x \in Builds \ {b} : build'[x] = build[x]
        /\ build'[b].pc # "list" /\ build'[b].seen \in {build[b].seen, <<>>}
    BY <2>1, <1>0, GotoFields
  <2> QED
    BY <2>1, <2>3, <1>0, ListedStays
<1>17. ASSUME NEW b \in Builds, GraphGone(b) PROVE ListedExist'
  <2>1. UNCHANGED <<dirs, manifest, op>> /\ End(b, "failed")
    BY <1>17 DEF GraphGone, diskVars, versionVars, graphVars, ghostVars, boundVars
  <2>2. \A x \in Builds \ {b} : build'[x] = build[x]
    BY <2>1, <1>0, EndFields
  <2>3. build'[b].pc = "failed" /\ build'[b].seen = <<>>
    BY <2>1, <1>0, EndFields
  <2> QED
    BY <2>1, <2>2, <2>3, <1>0, ListedStays
<1>18. ASSUME NEW b \in Builds, VersioningFails(b) PROVE ListedExist'
  <2>1. UNCHANGED <<dirs, op>> /\ manifest' \in {manifest, <<>>}
    BY <1>18 DEF VersioningFails
  <2>3. /\ \A x \in Builds \ {b} : build'[x] = build[x]
        /\ build'[b].pc # "list" /\ build'[b].seen \in {build[b].seen, <<>>}
    BY <1>18, <1>0, VersioningFailsFields
  <2> QED
    BY <2>1, <2>3, <1>0, ListedStays
<1>19. ASSUME NEW b \in Builds, FeedFails(b) PROVE ListedExist'
  <2>1. UNCHANGED <<dirs, manifest, op>>
    BY <1>19 DEF FeedFails, diskVars, versionVars, graphVars, ghostVars, boundVars
  <2>2. build[b].pc = "feed"
    BY <1>19 DEF FeedFails
  <2>3. /\ \A x \in Builds \ {b} : build'[x] = build[x]
        /\ build'[b].pc # "list" /\ build'[b].seen \in {build[b].seen, <<>>}
    BY <1>19, <2>2, <1>0, FeedFailsFields
  <2> QED
    BY <2>1, <2>3, <1>0, ListedStays
<1>20. ASSUME NEW b \in Builds, FeedHangs(b) PROVE ListedExist'
  <2>1. UNCHANGED <<dirs, manifest, op>> /\ Goto(b, "hung")
    BY <1>20 DEF FeedHangs, diskVars, versionVars, graphVars, ghostVars, boundVars
  <2>3. /\ \A x \in Builds \ {b} : build'[x] = build[x]
        /\ build'[b].pc # "list" /\ build'[b].seen \in {build[b].seen, <<>>}
    BY <2>1, <1>0, GotoFields
  <2> QED
    BY <2>1, <2>3, <1>0, ListedStays
<1>21. ASSUME NEW b \in Builds, SidecarWriteFails(b) PROVE ListedExist'
  <2>1. UNCHANGED <<dirs, manifest, op>> /\ Goto(b, IF build[b].ka = {} THEN "finish" ELSE "entities")
    BY <1>21 DEF SidecarWriteFails, diskVars, versionVars, graphVars, ghostVars,
       boundVars
  <2>3. /\ \A x \in Builds \ {b} : build'[x] = build[x]
        /\ build'[b].pc # "list" /\ build'[b].seen \in {build[b].seen, <<>>}
    BY <2>1, <1>0, GotoFields
  <2> QED
    BY <2>1, <2>3, <1>0, ListedStays
<1>22. ASSUME NEW b \in Builds, BuildFails(b) PROVE ListedExist'
  <2>1. UNCHANGED <<dirs, manifest, op>> /\ End(b, "failed")
    BY <1>22 DEF BuildFails, diskVars, versionVars, graphVars, ghostVars, boundVars
  <2>2. \A x \in Builds \ {b} : build'[x] = build[x]
    BY <2>1, <1>0, EndFields
  <2>3. build'[b].pc = "failed" /\ build'[b].seen = <<>>
    BY <2>1, <1>0, EndFields
  <2> QED
    BY <2>1, <2>2, <2>3, <1>0, ListedStays
<1>23. ASSUME NEW b \in Builds, TimeoutBuild(b) PROVE ListedExist'
  <2>1. UNCHANGED <<dirs, manifest, op>> /\ End(b, "failed")
    BY <1>23 DEF TimeoutBuild, diskVars, versionVars, graphVars, ghostVars, boundVars
  <2>2. \A x \in Builds \ {b} : build'[x] = build[x]
    BY <2>1, <1>0, EndFields
  <2>3. build'[b].pc = "failed" /\ build'[b].seen = <<>>
    BY <2>1, <1>0, EndFields
  <2> QED
    BY <2>1, <2>2, <2>3, <1>0, ListedStays
<1>24. ASSUME NEW z \in zombies, ZombieDump(z) PROVE ListedExist'
  <2>1. UNCHANGED <<dirs, manifest, op, build>>
    BY <1>24 DEF ZombieDump, versionVars
  <2> QED
    BY <2>1, <1>0 DEF ListedExist, SeenExist
<1>25. ASSUME NEW w \in Workers, Crash(w) PROVE ListedExist'
  <2>1. dirs' = dirs /\ manifest' \in {manifest, <<>>} /\ op' \in {op, NoOp}
    BY <1>25 DEF Crash
  <2>2. \A x \in Builds : build'[x] = build[x]
                          \/ (build'[x].pc = "gone" /\ build'[x].seen = <<>>)
    BY <1>25, <1>0, CrashFields
  <2>3. \A x \in Builds : SeenExist(build[x])'
    BY <2>1, <2>2, <1>0 DEF ListedExist, SeenExist
  <2>4. SeenExist(NoOp) /\ NoOp.pc = "idle"
    BY <1>0 DEF SeenExist, NoOp
  <2> QED
    BY <2>1, <2>3, <2>4, <1>0 DEF ListedExist, SeenExist
<1>26. ASSUME ClearGraph PROVE ListedExist'
  <2>1. UNCHANGED <<dirs, manifest, op, build>>
    BY <1>26 DEF ClearGraph, versionVars
  <2> QED
    BY <2>1, <1>0 DEF ListedExist, SeenExist
<1>27. ASSUME NEW w \in Workers, NEW v \in DOMAIN dirs, RollbackStart(w, v) PROVE ListedExist'
  <2>1. /\ UNCHANGED <<manifest, build>> /\ v \in DOMAIN dirs
        /\ dirs' = (IF data = NoDump THEN dirs ELSE Append(dirs, data))
        /\ op' = [pc |-> IF data = NoDump THEN "restore" ELSE "list", w |-> w,
                  target |-> v, v |-> Len(dirs'), seen |-> manifest]
    BY <1>27 DEF RollbackStart
  <2>2. DOMAIN dirs \subseteq DOMAIN dirs'
        /\ (data # NoDump => Len(dirs') \in DOMAIN dirs')
    <3>1. CASE data = NoDump
      BY <2>1, <3>1
    <3>2. CASE data # NoDump
      <4>1. DOMAIN dirs' = 1 .. Len(dirs) + 1 /\ DOMAIN dirs = 1 .. Len(dirs)
            /\ Len(dirs') = Len(dirs) + 1 /\ Len(dirs) \in Nat
        BY <2>1, <3>2, <1>0, AppendIs
      <4> QED
        BY <4>1
    <3> QED
      BY <3>1, <3>2
  <2>3. /\ op'.seen = manifest /\ op'.target = v /\ op'.v = Len(dirs')
        /\ op'.pc = "list" => data # NoDump
    BY <2>1
  <2>4. SeenExist(op)' /\ op'.target \in DOMAIN dirs'
    BY <2>1, <2>2, <2>3, <1>0 DEF ListedExist, SeenExist
  <2>5. \A x \in Builds : SeenExist(build[x])'
    BY <2>1, <2>2, <1>0, ListedGrows
  <2> QED
    BY <2>1, <2>2, <2>4, <2>5, <1>0 DEF ListedExist
<1>28. ASSUME RollbackList PROVE ListedExist'
  <2>1. /\ UNCHANGED <<dirs, build>> /\ op.pc = "list" /\ manifest' = Append(op.seen, op.v)
        /\ op' = [op EXCEPT !.pc = "restore", !.seen = <<>>, !.v = 0]
    BY <1>28 DEF RollbackList
  <2>2. op.seen \in Seq(Nat) /\ op.v \in Nat /\ op'.pc = "restore" /\ op'.seen = <<>>
        /\ op'.target = op.target
    BY <2>1, <1>0 DEF OpStates
  <2>3. ToSet(manifest') \subseteq DOMAIN dirs
    <3>1. ToSet(manifest') \subseteq ToSet(op.seen) \cup {op.v}
      BY <2>1, <2>2, AppendIs
    <3> QED
      BY <3>1, <2>1, <1>0 DEF ListedExist, SeenExist
  <2> QED
    BY <2>1, <2>2, <2>3, <1>0 DEF ListedExist, SeenExist
<1>29. ASSUME RollbackRestore PROVE ListedExist'
  <2>1. UNCHANGED <<dirs, manifest, build>> /\ op' = NoOp
    BY <1>29 DEF RollbackRestore, versionVars
  <2>2. SeenExist(NoOp) /\ NoOp.pc = "idle"
    BY <1>0 DEF SeenExist, NoOp
  <2> QED
    BY <2>1, <2>2, <1>0 DEF ListedExist, SeenExist
<1>30. ASSUME NEW w \in Workers, NEW k \in PruneKeeps, PruneOp(w, k) PROVE ListedExist'
  <2>1. /\ UNCHANGED <<manifest, build>> /\ DOMAIN dirs' = DOMAIN dirs
        /\ op' = [NoOp EXCEPT !.pc = "trim", !.w = w, !.seen = Newest(manifest, k)]
    BY <1>30, <1>0, WithoutIs DEF PruneOp
  <2>2. op'.pc = "trim" /\ op'.seen = Newest(manifest, k)
    BY <2>1 DEF NoOp
  <2>3. ToSet(op'.seen) \subseteq DOMAIN dirs
    BY <2>2, <1>0, NewestIs, BuildConstants DEF ListedExist
  <2> QED
    BY <2>1, <2>2, <2>3, <1>0 DEF ListedExist, SeenExist
<1>31. ASSUME PruneOpList PROVE ListedExist'
  <2>1. UNCHANGED <<dirs, build>> /\ op' = NoOp /\ manifest' = op.seen
    BY <1>31 DEF PruneOpList
  <2>2. SeenExist(NoOp) /\ NoOp.pc = "idle"
    BY <1>0 DEF SeenExist, NoOp
  <2> QED
    BY <2>1, <2>2, <1>0 DEF ListedExist, SeenExist
<1>32. ASSUME NEW c \in Chunks, NEW t \in Texts \cup {NoText}, EditTable(c, t)
       PROVE  ListedExist'
  <2>1. UNCHANGED <<dirs, manifest, op, build>>
    BY <1>32 DEF EditTable, versionVars
  <2> QED
    BY <2>1, <1>0 DEF ListedExist, SeenExist
<1>33. ASSUME NEW w \in Workers, NEW i \in BOOLEAN, KgBuild(w, i) PROVE ListedExist'
  <2>1. UNCHANGED <<dirs, manifest, op>>
    BY <1>33 DEF KgBuild, versionVars
  <2>2. PICK b \in Builds : Becomes(b, [Idle EXCEPT !.pc = "queued", !.w = w,
                                                    !.incremental = i, !.rows = table])
    BY <1>33 DEF KgBuild
  <2> QED
    BY <2>1, <2>2, <1>0, QueueFields, ListedStays
<1>34. CASE UNCHANGED vars
  BY <1>34, <1>0 DEF vars, versionVars, ListedExist, SeenExist
<1> QED
  BY <1>1, <1>2, <1>3, <1>4, <1>5, <1>6, <1>7, <1>8, <1>9, <1>10, <1>11, <1>12, <1>13,
     <1>14, <1>15, <1>16, <1>17, <1>18, <1>19, <1>20, <1>21, <1>22, <1>23, <1>24,
     <1>25, <1>26, <1>27, <1>28, <1>29, <1>30, <1>31, <1>32, <1>33, <1>34, <1>35, <1>36
     DEF Next, BuildStep, BuildFault, OpStep, Done

\* A step of one build between its vertices and its end.
Inner(b) ==
    /\ Past(b) /\ Past(b)'
    /\ build'[b].incremental = build[b].incremental
    /\ build'[b].rows = build[b].rows /\ build'[b].new = build[b].new
    /\ \A x \in Builds \ {b} : build'[x] = build[x]
    /\ UNCHANGED <<minChunks, op, zombies, vtx, schema>>
    /\ data' = data \/ ~MapReduced(build[b].rows)

InnerStep(b) ==
    \/ ArchiveCopy(b) \/ ArchiveList(b) \/ PruneDirs(b) \/ PruneList(b)
    \/ LoadKA(b) \/ FeedChunk(b) \/ FeedFails(b) \/ DumpKA(b)
    \/ WriteSidecar(b) \/ MapChunks(b) \/ WriteCheckpoint(b) \/ MarkMapped(b)
    \/ InsertEntities(b) \/ InsertReferences(b) \/ VersioningFails(b)
    \/ FeedHangs(b) \/ SidecarWriteFails(b)

\* Every step of a build between its vertices and its end is an Inner step.
LEMMA InnerIs ==
    ASSUME BaseTypes, \A x \in Builds : Shape(x), NEW b \in Builds, InnerStep(b)
    PROVE  Inner(b)
<1>0. build \in [Builds -> BuildStates] /\ \A x \in Builds : Shape(x)
  BY DEF BaseTypes
<1>1. CASE ArchiveCopy(b)
  <2>1. UNCHANGED <<minChunks, op, zombies, vtx, schema>> /\ data' = data /\ build[b].pc = "archive"
    BY <1>1 DEF ArchiveCopy, diskVars, versionVars, graphVars, ghostVars, boundVars
  <2>2. /\ \A x \in Builds \ {b} : build'[x] = build[x]
        /\ build'[b].pc \in {"prune", "list"}
        /\ build'[b].incremental = build[b].incremental
        /\ build'[b].rows = build[b].rows /\ build'[b].new = build[b].new
    <3>1. CASE data = NoDump
      <4>1. Goto(b, "prune")
        BY <1>1, <3>1 DEF ArchiveCopy
      <4> QED
        BY <4>1, <1>0, GotoFields
    <3>2. CASE data # NoDump
      BY <1>1, <3>2, <1>0, ArchiveCopyFields
    <3> QED
      BY <3>1, <3>2
  <2> QED
    BY <2>1, <2>2 DEF Inner, Past, PastPcs, DatasetPcs, MapPcs, InsertPcs
<1>2. CASE ArchiveList(b)
  <2>1. build[b].pc = "list"
    BY <1>2 DEF ArchiveList
  <2>2. UNCHANGED <<minChunks, op, zombies, vtx, schema>> /\ data' = data
    BY <1>2 DEF ArchiveList, diskVars, versionVars, graphVars, ghostVars, boundVars
  <2> QED
    BY <2>1, <2>2, <1>2, <1>0, ArchiveListFields DEF Inner, Past, PastPcs, DatasetPcs,
       MapPcs, InsertPcs
<1>3. CASE PruneDirs(b)
  <2>1. build[b].pc = "prune"
    BY <1>3 DEF PruneDirs
  <2>2. UNCHANGED <<minChunks, op, zombies, vtx, schema>> /\ data' = data
    BY <1>3 DEF PruneDirs, diskVars, versionVars, graphVars, ghostVars, boundVars
  <2> QED
    BY <2>1, <2>2, <1>3, <1>0, PruneDirsFields DEF Inner, Past, PastPcs, DatasetPcs,
       MapPcs, InsertPcs
<1>4. CASE PruneList(b)
  <2>1. build[b].pc = "trim"
    BY <1>4 DEF PruneList
  <2>2. UNCHANGED <<minChunks, op, zombies, vtx, schema>> /\ data' = data
    BY <1>4 DEF PruneList, diskVars, versionVars, graphVars, ghostVars, boundVars
  <2> QED
    BY <2>1, <2>2, <1>4, <1>0, PruneListFields DEF Inner, Past, PastPcs, DatasetPcs,
       MapPcs, InsertPcs
<1>5. CASE LoadKA(b)
  <2>1. UNCHANGED <<minChunks, op, zombies, vtx, schema>> /\ data' = data /\ build[b].pc = "load"
    BY <1>5 DEF LoadKA, diskVars, versionVars, graphVars, ghostVars, boundVars
  <2>2. /\ \A x \in Builds \ {b} : build'[x] = build[x]
        /\ build'[b].pc = "feed"
        /\ build'[b].incremental = build[b].incremental
        /\ build'[b].rows = build[b].rows /\ build'[b].new = build[b].new
    <3>1. CASE Becomes(b, [build[b] EXCEPT !.pc = "feed", !.ka = data, !.todo = Unmarked(b),
                                           !.prev = fed])
      BY <3>1, <1>0, LoadFields
    <3>2. CASE Becomes(b, [build[b] EXCEPT !.pc = "feed", !.todo = Rows(build[b].rows)])
      BY <3>2, <1>0, FreshFields
    <3> QED
      BY <1>5, <3>1, <3>2 DEF LoadKA
  <2> QED
    BY <2>1, <2>2 DEF Inner, Past, PastPcs, DatasetPcs, MapPcs, InsertPcs
<1>6. CASE FeedChunk(b)
  <2>1. build[b].pc = "feed" /\ build[b].todo # {}
    BY <1>6 DEF FeedChunk
  <2>2. UNCHANGED <<minChunks, op, zombies, vtx, schema>>
    BY <1>6 DEF FeedChunk, diskVars, versionVars, graphVars, ghostVars, boundVars
  <2>3. ~MapReduced(build[b].rows)
    BY <2>1, <1>0 DEF Shape, DatasetPcs
  <2> QED
    BY <2>1, <2>2, <2>3, <1>6, <1>0, FeedChunkFields DEF Inner, Past, PastPcs,
       DatasetPcs, MapPcs, InsertPcs
<1>7. CASE FeedFails(b)
  <2>1. build[b].pc = "feed" /\ build[b].todo # {}
    BY <1>7 DEF FeedFails
  <2>2. UNCHANGED <<minChunks, op, zombies, vtx, schema>> /\ data' = data
    BY <1>7 DEF FeedFails, diskVars, versionVars, graphVars, ghostVars, boundVars
  <2> QED
    BY <2>1, <2>2, <1>7, <1>0, FeedFailsFields DEF Inner, Past, PastPcs, DatasetPcs,
       MapPcs, InsertPcs
<1>8. CASE DumpKA(b)
  <2>1. build[b].pc = "feed" /\ build[b].todo = {} /\ Goto(b, "sidecar")
    BY <1>8 DEF DumpKA
  <2>2. UNCHANGED <<minChunks, op, zombies, vtx, schema>>
    BY <1>8 DEF DumpKA, diskVars, versionVars, graphVars, ghostVars, boundVars
  <2>3. ~MapReduced(build[b].rows)
    BY <2>1, <1>0 DEF Shape, DatasetPcs
  <2> QED
    BY <2>1, <2>2, <2>3, <1>0, GotoFields DEF Inner, Past, PastPcs, DatasetPcs,
       MapPcs, InsertPcs
<1>9. CASE WriteSidecar(b)
  <2>1. build[b].pc = "sidecar"
    BY <1>9 DEF WriteSidecar
  <2>2. UNCHANGED <<minChunks, op, zombies, vtx, schema>> /\ data' = data
    BY <1>9 DEF WriteSidecar, diskVars, versionVars, graphVars, ghostVars, boundVars
  <2> QED
    BY <2>1, <2>2, <1>9, <1>0, WriteSidecarFields DEF Inner, Past, PastPcs,
       DatasetPcs, MapPcs, InsertPcs
<1>10. CASE MapChunks(b)
  <2>1. UNCHANGED <<minChunks, op, zombies, vtx, schema>> /\ data' = data /\ build[b].pc = "map"
    BY <1>10 DEF MapChunks, diskVars, versionVars, graphVars, ghostVars, boundVars
  <2>2. /\ \A x \in Builds \ {b} : build'[x] = build[x]
        /\ build'[b].pc = "checkpoint"
        /\ build'[b].incremental = build[b].incremental
        /\ build'[b].rows = build[b].rows /\ build'[b].new = build[b].new
    <3>1. PICK got : Becomes(b, [build[b] EXCEPT !.pc = "checkpoint", !.ka = NamesIn(got),
                                                 !.owned = got])
      BY <1>10 DEF MapChunks
    <3> QED
      BY <3>1, <1>0, MapFields
  <2> QED
    BY <2>1, <2>2 DEF Inner, Past, PastPcs, DatasetPcs, MapPcs, InsertPcs
<1>11. CASE WriteCheckpoint(b)
  <2>1. build[b].pc = "checkpoint" /\ Goto(b, "mark")
    BY <1>11 DEF WriteCheckpoint
  <2>2. UNCHANGED <<minChunks, op, zombies, vtx, schema>> /\ data' = data
    BY <1>11 DEF WriteCheckpoint, diskVars, versionVars, graphVars, ghostVars,
       boundVars
  <2> QED
    BY <2>1, <2>2, <1>0, GotoFields DEF Inner, Past, PastPcs, DatasetPcs, MapPcs,
       InsertPcs
<1>12. CASE MarkMapped(b)
  <2>1. build[b].pc = "mark"
        /\ Goto(b, IF build[b].ka = {} THEN "finish" ELSE "entities")
    BY <1>12 DEF MarkMapped
  <2>2. UNCHANGED <<minChunks, op, zombies, vtx, schema>> /\ data' = data
    BY <1>12 DEF MarkMapped, diskVars, versionVars, graphVars, ghostVars, boundVars
  <2> QED
    BY <2>1, <2>2, <1>0, GotoFields DEF Inner, Past, PastPcs, DatasetPcs, MapPcs,
       InsertPcs
<1>13. CASE InsertEntities(b)
  <2>1. build[b].pc = "entities" /\ Goto(b, "references")
    BY <1>13 DEF InsertEntities
  <2>2. UNCHANGED <<minChunks, op, zombies, vtx, schema>> /\ data' = data
    BY <1>13 DEF InsertEntities, diskVars, versionVars, graphVars, ghostVars,
       boundVars
  <2> QED
    BY <2>1, <2>2, <1>0, GotoFields DEF Inner, Past, PastPcs, DatasetPcs, MapPcs,
       InsertPcs
<1>14. CASE InsertReferences(b)
  <2>1. build[b].pc = "references" /\ Goto(b, "finish")
    BY <1>14 DEF InsertReferences
  <2>2. UNCHANGED <<minChunks, op, zombies, vtx, schema>> /\ data' = data
    BY <1>14 DEF InsertReferences, diskVars, versionVars, graphVars, ghostVars,
       boundVars
  <2> QED
    BY <2>1, <2>2, <1>0, GotoFields DEF Inner, Past, PastPcs, DatasetPcs, MapPcs,
       InsertPcs
<1>15. CASE VersioningFails(b)
  <2>1. build[b].pc \in {"archive", "list", "trim"}
    BY <1>15 DEF VersioningFails
  <2>2. UNCHANGED <<minChunks, op, zombies, vtx, schema>> /\ data' = data
    BY <1>15 DEF VersioningFails, diskVars, versionVars, graphVars, ghostVars, boundVars
  <2> QED
    BY <2>1, <2>2, <1>15, <1>0, VersioningFailsFields DEF Inner, Past, PastPcs, DatasetPcs,
       MapPcs, InsertPcs
<1>16. CASE FeedHangs(b)
  <2>1. build[b].pc = "feed" /\ Goto(b, "hung")
    BY <1>16 DEF FeedHangs
  <2>2. UNCHANGED <<minChunks, op, zombies, vtx, schema>> /\ data' = data
    BY <1>16 DEF FeedHangs, diskVars, versionVars, graphVars, ghostVars, boundVars
  <2> QED
    BY <2>1, <2>2, <1>0, GotoFields DEF Inner, Past, PastPcs, DatasetPcs, MapPcs,
       InsertPcs
<1>17. CASE SidecarWriteFails(b)
  <2>1. build[b].pc \in {"sidecar", "checkpoint", "mark"}
        /\ Goto(b, IF build[b].ka = {} THEN "finish" ELSE "entities")
    BY <1>17 DEF SidecarWriteFails
  <2>2. UNCHANGED <<minChunks, op, zombies, vtx, schema>> /\ data' = data
    BY <1>17 DEF SidecarWriteFails, diskVars, versionVars, graphVars, ghostVars,
       boundVars
  <2> QED
    BY <2>1, <2>2, <1>0, GotoFields DEF Inner, Past, PastPcs, DatasetPcs, MapPcs,
       InsertPcs
<1> QED
  BY <1>1, <1>2, <1>3, <1>4, <1>5, <1>6, <1>7, <1>8, <1>9, <1>10, <1>11, <1>12, <1>13,
     <1>14, <1>15, <1>16, <1>17 DEF InnerStep

\* Running, and who writes alone.
LEMMA RunningIs ==
    ASSUME build \in [Builds -> BuildStates], NEW b \in Builds
    PROVE  Running(b) <=> (build[b].pc = "vertices" \/ Past(b))
<1>1. build[b].pc \in Pcs
  BY DEF BuildStates
<1> QED
  BY <1>1 DEF Running, Past, Ended, Pcs, PastPcs, DatasetPcs, MapPcs, InsertPcs

\* A build past its vertices runs; one that is over or queued does not.
LEMMA PastRuns ==
    ASSUME NEW b \in Builds
    PROVE  /\ Past(b) => Running(b)
           /\ build[b].pc = "vertices" => Running(b) /\ ~Past(b)
           /\ build[b].pc \in {"none", "queued", "snapshot", "stuck"} \cup Ended => ~Running(b) /\ ~Past(b)
  BY DEF Running, Past, Ended, PastPcs, DatasetPcs, MapPcs, InsertPcs

\* The same of the next state.
LEMMA PastRunsNext ==
    ASSUME NEW b \in Builds
    PROVE  /\ Past(b)' => Running(b)'
           /\ build'[b].pc = "vertices" => Running(b)' /\ ~Past(b)'
           /\ build'[b].pc \in {"none", "queued", "snapshot", "stuck"} \cup Ended
                  => ~Running(b)' /\ ~Past(b)'
  BY DEF Running, Past, Ended, PastPcs, DatasetPcs, MapPcs, InsertPcs

\* A build that leaves the snapshot behind has collected nothing and writes nothing.
LetGo(b) == ReleaseLock(b) \/ SnapshotHangs(b)

LEMMA LetGoIs ==
    ASSUME build \in [Builds -> BuildStates], NEW b \in Builds, Shape(b), LetGo(b)
    PROVE  /\ UNCHANGED <<minChunks, table, data, fed, ckpt, dirs, manifest, schema, vtx, ent,
                         ref, op, zombies, skipped, damage, healing, before, edits, ops>>
           /\ \A x \in Builds \ {b} : build'[x] = build[x]
           /\ build[b].pc = "snapshot" /\ build'[b].pc \in {"completed", "stuck"}
           /\ build'[b].todo = {} /\ build'[b].ka = {} /\ build'[b].owned = {}
           /\ build'[b].prev = Nothing
           /\ \A x \in Builds : (Running(x)' <=> Running(x)) /\ (Past(x)' <=> Past(x))
<1>1. UNCHANGED <<minChunks, table, data, fed, ckpt, dirs, manifest, schema, vtx, ent,
                  ref, op, zombies, skipped, damage, healing, before, edits, ops>>
  BY DEF LetGo, ReleaseLock, SnapshotHangs, diskVars, versionVars, graphVars, ghostVars,
     boundVars
<1>2. /\ \A x \in Builds \ {b} : build'[x] = build[x]
      /\ build[b].pc = "snapshot" /\ build'[b].pc \in {"completed", "stuck"}
      /\ build'[b].todo = {} /\ build'[b].ka = {} /\ build'[b].owned = {}
      /\ build'[b].prev = Nothing
  <2>1. CASE ReleaseLock(b)
    BY <2>1, EndFields DEF ReleaseLock
  <2>2. CASE SnapshotHangs(b)
    <3>1. build[b].pc = "snapshot" /\ Goto(b, "stuck")
      BY <2>2 DEF SnapshotHangs
    <3> QED
      BY <3>1, GotoFields DEF Shape, InsertPcs
  <2> QED
    BY <2>1, <2>2 DEF LetGo
<1>3. \A x \in Builds : (Running(x)' <=> Running(x)) /\ (Past(x)' <=> Past(x))
  BY <1>2 DEF Running, Past, Ended, PastPcs, DatasetPcs, MapPcs, InsertPcs
<1> QED
  BY <1>1, <1>2, <1>3

\* While something heals, the build that runs is the one that heals.
LEMMA HealsAlone ==
    ASSUME HealInv, NEW b \in Builds, Running(b), healing # {}
    PROVE  Healer(b)
<1>1. PICK x \in Builds : Healer(x)
  BY DEF HealInv
<1>2. x = b
  BY <1>1 DEF Healer, Alone
<1> QED
  BY <1>1, <1>2

\* Nobody heals where nobody is past its vertices, or something else writes.
LEMMA NobodyHeals ==
    ASSUME HealInv, Quiet \/ op.pc # "idle" \/ zombies # {}
    PROVE  healing = {}
  BY PastRuns DEF HealInv, Healer, Alone, Quiet

\* With no new writer, who was alone is alone.
LEMMA FewerWriters ==
    ASSUME \A x \in Builds : Running(x)' => Running(x),
           op'.pc # "idle" => op.pc # "idle", zombies' \subseteq zombies
    PROVE  /\ Exclusive => Exclusive'
           /\ \A x \in Builds : Alone(x) => Alone(x)'
<1>1. \A x \in Builds : Alone(x) => Alone(x)'
  BY DEF Alone
<1> QED
  BY <1>1 DEF Exclusive

\* Where one build runs alone, no race is under way.
LEMMA OneWriter ==
    ASSUME NEW b \in Builds, Alone(b)'
    PROVE  Exclusive'
  BY DEF Alone, Exclusive

\* SoloInv stays when exclusiveness does.
LEMMA SoloStays ==
    ASSUME SoloInv, Exclusive => Exclusive', damage \subseteq damage', healing' \subseteq healing
    PROVE  SoloInv'
  BY DEF SoloInv, Unmended

\* A recorded race voids what is said of writers.
LEMMA RacedFree ==
    ASSUME "raced" \in damage', healing' = {}
    PROVE  HealInv' /\ SoloInv'
  BY DEF HealInv, SoloInv, Unmended

\* A step inside a build changes nobody's right to write.
LEMMA InnerControl ==
    ASSUME HealInv, SoloInv, NEW b \in Builds, Inner(b), damage \subseteq damage',
           healing' = {} \/ healing' = healing
    PROVE  HealInv' /\ SoloInv'
<1>1. \A x \in Builds : Running(x)' <=> Running(x)
  BY PastRuns, PastRunsNext DEF Inner, Running
<1>2. (Exclusive => Exclusive') /\ \A x \in Builds : Alone(x) => Alone(x)'
  BY <1>1, FewerWriters DEF Inner
<1>3. SoloInv'
  BY <1>2, SoloStays
<1>4. Running(b)
  BY PastRuns DEF Inner
<1>5. ASSUME healing' # {} PROVE Healer(b)'
  <2>1. Healer(b)
    BY <1>4, <1>5, HealsAlone
  <2>2. Alone(b)' /\ Past(b)'
    BY <2>1, <1>2 DEF Healer, Inner
  <2>3. ~build'[b].incremental
    BY <2>1 DEF Healer, Inner
  <2>4. MapReduced(build[b].rows)' <=> MapReduced(build[b].rows)
    BY DEF Inner, MapReduced
  <2>5. MapReduced(build[b].rows)' => data' = NoDump
    BY <2>1, <2>4 DEF Inner, Healer
  <2> QED
    BY <2>2, <2>3, <2>5 DEF Healer
<1> QED
  BY <1>3, <1>5 DEF HealInv

\* Every action leaves a healing build alone, and races on the record.
LEMMA ControlStep ==
    ASSUME BaseTypes, BaseTypes', ListedExist, ControlInv, Next
    PROVE  HealInv' /\ SoloInv'
<1>0. /\ build \in [Builds -> BuildStates] /\ build' \in [Builds -> BuildStates]
      /\ HealInv /\ SoloInv /\ \A x \in Builds : Shape(x)
      /\ damage \subseteq Kinds /\ healing \subseteq damage /\ op \in OpStates
  BY DEF BaseTypes, ControlInv
<1>1. ASSUME NEW b \in Builds, InnerStep(b), UNCHANGED <<damage, healing>>
      PROVE  HealInv' /\ SoloInv'
  <2>1. Inner(b)
    BY <1>1, <1>0, InnerIs DEF BaseTypes
  <2> QED
    BY <1>1, <2>1, <1>0, InnerControl
<1>2. ASSUME NEW b \in Builds, SidecarWriteFails(b) PROVE HealInv' /\ SoloInv'
  <2>1. Inner(b)
    BY <1>2, <1>0, InnerIs DEF InnerStep
  <2>2. damage' = damage \cup {"stale"} /\ healing' = {}
    BY <1>2 DEF SidecarWriteFails, Damaged
  <2> QED
    BY <2>1, <2>2, <1>0, InnerControl
<1>3. ASSUME UNCHANGED <<minChunks, data, build, op, zombies, damage, healing>>
      PROVE  HealInv' /\ SoloInv'
  BY <1>3, <1>0 DEF HealInv, SoloInv, Healer, Exclusive, Alone, Running, Past, Unmended, MapReduced
<1>4. ASSUME NEW w \in Workers, NEW i \in BOOLEAN, KgBuild(w, i) PROVE HealInv' /\ SoloInv'
  <2>1. UNCHANGED <<minChunks, data, op, zombies, damage, healing>>
    BY <1>4 DEF KgBuild, diskVars, ghostVars
  <2>2. PICK b \in Builds : /\ build[b].pc = "none"
                            /\ Becomes(b, [Idle EXCEPT !.pc = "queued", !.w = w,
                                           !.incremental = i, !.rows = table])
    BY <1>4 DEF KgBuild
  <2>3. build'[b].pc = "queued" /\ \A x \in Builds \ {b} : build'[x] = build[x]
    BY <2>2, <1>0, QueueFields
  <2>4. \A x \in Builds : Running(x)' <=> Running(x)
    BY <2>2, <2>3 DEF Running
  <2>5. (Exclusive => Exclusive') /\ \A x \in Builds : Alone(x) => Alone(x)'
    BY <2>1, <2>4, FewerWriters
  <2>6. SoloInv'
    BY <2>1, <2>5, <1>0, SoloStays
  <2>7. ASSUME NEW x \in Builds, Healer(x) PROVE Healer(x)'
    <3>1. x # b
      BY <2>7, <2>2, PastRuns DEF Healer
    <3> QED
      BY <2>7, <3>1, <2>1, <2>3, <2>5 DEF Healer, Past, MapReduced
  <2> QED
    BY <2>1, <2>6, <2>7, <1>0 DEF HealInv
<1>5. ASSUME NEW b \in Builds, AcquireLock(b) PROVE HealInv' /\ SoloInv'
  <2>1. /\ build[b].pc = "queued" /\ Goto(b, "vertices") /\ UNCHANGED <<op, zombies>>
        /\ Damaged(IF Alone(b) THEN {} ELSE {"raced"})
    BY <1>5 DEF AcquireLock, RacedUnless
  <2>2. build'[b].pc = "vertices" /\ \A x \in Builds \ {b} : build'[x] = build[x]
    BY <2>1, <1>0, GotoFields
  <2>3. CASE ~Alone(b)
    BY <2>1, <2>3, RacedFree DEF Damaged
  <2>4. CASE Alone(b)
    <3>1. Quiet
      BY <2>1, <2>4, PastRuns DEF Alone, Quiet
    <3>2. healing = {} /\ healing' = {}
      BY <3>1, <2>1, <2>4, <1>0, NobodyHeals DEF Damaged
    <3>3. Alone(b)'
      BY <2>1, <2>2, <2>4 DEF Alone, Running
    <3> QED
      BY <3>2, <3>3, OneWriter DEF HealInv, SoloInv
  <2> QED
    BY <2>3, <2>4
<1>6. ASSUME NEW b \in Builds, AddVertices(b) PROVE HealInv' /\ SoloInv'
  <2>1. /\ build[b].pc = "vertices" /\ damage' = damage
        /\ UNCHANGED <<op, zombies, data, minChunks>>
    BY <1>6 DEF AddVertices, diskVars
  <2>2. Running(b) /\ ~Past(b)
    BY <2>1, PastRuns
  <2>3. healing = {}
    BY <2>2, <1>0, HealsAlone DEF Healer
  <2>4. \A x \in Builds \ {b} : build'[x] = build[x]
    <3>1. CASE Rows(build[b].rows) = {}
      <4>1. End(b, "completed")
        BY <1>6, <3>1 DEF AddVertices
      <4> QED
        BY <4>1, <1>0, EndFields
    <3>2. CASE Rows(build[b].rows) # {}
      BY <3>2, <1>6, <1>0, AddVerticesFields
    <3> QED
      BY <3>1, <3>2
  <2>5. \A x \in Builds : Running(x)' => Running(x)
    BY <2>2, <2>4 DEF Running
  <2>6. (Exclusive => Exclusive') /\ \A x \in Builds : Alone(x) => Alone(x)'
    BY <2>5, <2>1, FewerWriters
  <2>7. CASE healing' = {}
    BY <2>7, <2>3, <2>1, <2>6, <1>0, SoloStays DEF HealInv
  <2>8. CASE healing' # {}
    <3>1. /\ Rows(build[b].rows) # {} /\ ~build[b].incremental /\ Alone(b)
          /\ healing' = MadeGood(build[b].rows)
      BY <1>6, <2>8, <2>3 DEF AddVertices
    <3>2. MapReduced(build[b].rows) => data = NoDump
      BY <3>1, <2>8 DEF MadeGood
    <3>3. Alone(b)'
      BY <3>1, <2>6
    <3>4. /\ build'[b].pc \in {"map", "archive"} /\ build'[b].rows = build[b].rows
          /\ build'[b].incremental = build[b].incremental
      BY <3>1, <1>6, <1>0, AddVerticesFields
    <3>5. Healer(b)'
      BY <3>1, <3>2, <3>3, <3>4, <2>1
         DEF Healer, Past, MapReduced, PastPcs, DatasetPcs, MapPcs
    <3> QED
      BY <3>3, <3>5, OneWriter DEF HealInv, SoloInv
  <2> QED
    BY <2>7, <2>8
<1>7. ASSUME NEW b \in Builds, GraphGone(b) PROVE HealInv' /\ SoloInv'
  <2>1. End(b, "failed") /\ Damaged(Cut(b)) /\ UNCHANGED <<op, zombies>>
    BY <1>7 DEF GraphGone
  <2>2. build'[b].pc = "failed" /\ \A x \in Builds \ {b} : build'[x] = build[x]
    BY <2>1, <1>0, EndFields
  <2>3. \A x \in Builds : Running(x)' => Running(x)
    BY <2>2 DEF Running, Ended
  <2>4. damage \subseteq damage' /\ healing' = {}
    BY <2>1, <1>0, CutKinds DEF Damaged
  <2>5. SoloInv'
    BY <2>1, <2>3, <2>4, <1>0, FewerWriters, SoloStays
  <2> QED
    BY <2>4, <2>5 DEF HealInv
<1>8. ASSUME NEW b \in Builds, BuildFails(b) PROVE HealInv' /\ SoloInv'
  <2>1. End(b, "failed") /\ Damaged(Cut(b)) /\ UNCHANGED <<op, zombies>>
    BY <1>8 DEF BuildFails
  <2>2. build'[b].pc = "failed" /\ \A x \in Builds \ {b} : build'[x] = build[x]
    BY <2>1, <1>0, EndFields
  <2>3. \A x \in Builds : Running(x)' => Running(x)
    BY <2>2 DEF Running, Ended
  <2>4. damage \subseteq damage' /\ healing' = {}
    BY <2>1, <1>0, CutKinds DEF Damaged
  <2>5. SoloInv'
    BY <2>1, <2>3, <2>4, <1>0, FewerWriters, SoloStays
  <2> QED
    BY <2>4, <2>5 DEF HealInv
<1>9. ASSUME NEW b \in Builds, TimeoutBuild(b) PROVE HealInv' /\ SoloInv'
  <2>1. End(b, "failed") /\ Damaged(Cut(b)) /\ UNCHANGED op /\ build[b].pc \in Awaiting
    BY <1>9 DEF TimeoutBuild
  <2>2. build'[b].pc = "failed" /\ \A x \in Builds \ {b} : build'[x] = build[x]
    BY <2>1, <1>0, EndFields
  <2>3. Running(b)
    BY <2>1 DEF Awaiting, Running, Ended
  <2>4. damage \subseteq damage' /\ healing' = {}
    BY <2>1, <1>0, CutKinds DEF Damaged
  <2>5. Exclusive => Exclusive'
    <3>1. SUFFICES ASSUME Exclusive PROVE Exclusive'
      OBVIOUS
    <3>2. op.pc = "idle" /\ \A x \in Builds \ {b} : ~Running(x)
      BY <3>1, <2>3 DEF Exclusive, Alone
    <3>3. op'.pc = "idle" /\ \A x \in Builds : ~Running(x)'
      BY <3>2, <2>1, <2>2 DEF Running, Ended
    <3> QED
      BY <3>3 DEF Exclusive
  <2>6. SoloInv'
    BY <2>4, <2>5, <1>0, SoloStays
  <2> QED
    BY <2>4, <2>6 DEF HealInv
<1>10. ASSUME NEW b \in Builds, FinishBuild(b) PROVE HealInv' /\ SoloInv'
  <2>1. /\ build[b].pc = "finish" /\ UNCHANGED <<op, zombies>>
        /\ damage' = (IF build[b].incremental THEN damage ELSE damage \ healing)
        /\ healing' = (IF build[b].incremental THEN healing ELSE {})
    BY <1>10 DEF FinishBuild
  <2>2. build'[b].pc = "snapshot" /\ \A x \in Builds \ {b} : build'[x] = build[x]
    BY <1>10, <1>0, SnapFields
  <2>3. \A x \in Builds : Running(x)' => Running(x)
    BY <2>2 DEF Running, Ended
  <2>4. Exclusive => Exclusive'
    BY <2>1, <2>3, FewerWriters
  <2>5. Running(b)
    BY <2>1 DEF Running, Ended
  <2>6. build[b].incremental => healing = {}
    BY <2>5, <1>0, HealsAlone DEF Healer
  <2>7. healing' = {} /\ Unmended' = Unmended
    BY <2>1, <2>6 DEF Unmended
  <2> QED
    BY <2>7, <2>4, <1>0 DEF HealInv, SoloInv
<1>21. ASSUME NEW b \in Builds, LetGo(b) PROVE HealInv' /\ SoloInv'
  <2>1. /\ UNCHANGED <<minChunks, data, op, zombies, damage, healing>>
        /\ \A x \in Builds \ {b} : build'[x] = build[x]
        /\ build[b].pc = "snapshot"
        /\ \A x \in Builds : (Running(x)' <=> Running(x)) /\ (Past(x)' <=> Past(x))
    BY <1>21, <1>0, LetGoIs
  <2>2. (Exclusive => Exclusive') /\ \A x \in Builds : Alone(x) => Alone(x)'
    BY <2>1, FewerWriters
  <2>3. SoloInv'
    BY <2>1, <2>2, <1>0, SoloStays
  <2>4. ASSUME NEW x \in Builds, Healer(x) PROVE Healer(x)'
    <3>1. x # b
      BY <2>4, <2>1, PastRuns DEF Healer
    <3> QED
      BY <2>4, <3>1, <2>1, <2>2 DEF Healer, Past, MapReduced
  <2> QED
    BY <2>1, <2>3, <2>4, <1>0 DEF HealInv
<1>11. ASSUME NEW z \in zombies, ZombieDump(z) PROVE HealInv' /\ SoloInv'
  BY <1>11, RacedFree DEF ZombieDump, RacedUnless, Damaged
<1>12. ASSUME NEW w \in Workers, Crash(w) PROVE HealInv' /\ SoloInv'
  <2> DEFINE mine == {b \in Builds : build[b].w = w /\ build[b].pc \notin {"none"} \cup Ended}
  <2>1. \A x \in Builds : (x \in mine => build'[x].pc = "gone") /\ (x \notin mine => build'[x] = build[x])
    <3>1. SUFFICES ASSUME NEW x \in Builds
                   PROVE  (x \in mine => build'[x].pc = "gone") /\ (x \notin mine => build'[x] = build[x])
      OBVIOUS
    <3>2. build'[x] = IF x \in mine THEN [Idle EXCEPT !.pc = "gone"] ELSE build[x]
      BY <1>12 DEF Crash
    <3> QED
      BY <3>2 DEF Idle
  <2>2. \A x \in Builds : Running(x)' => Running(x)
    BY <2>1 DEF Running, Ended
  <2>3. /\ op' \in {op, NoOp} /\ zombies' \subseteq zombies /\ minChunks' = minChunks
    BY <1>12 DEF Crash
  <2>4. (Exclusive => Exclusive') /\ \A x \in Builds : Alone(x) => Alone(x)'
    BY <2>2, <2>3, FewerWriters DEF NoOp
  <2>5. CASE \E b \in mine : Running(b)
    <3>1. PICK b \in mine : Damaged(Cut(b))
      BY <1>12, <2>5 DEF Crash
    <3>2. damage \subseteq damage' /\ healing' = {}
      BY <3>1, <1>0, CutKinds DEF Damaged
    <3> QED
      BY <3>2, <2>4, <1>0, SoloStays DEF HealInv
  <2>6. CASE ~\E b \in mine : Running(b)
    <3>1. UNCHANGED <<damage, healing>>
      BY <1>12, <2>6 DEF Crash
    <3>2. SoloInv'
      BY <3>1, <2>4, <1>0, SoloStays
    <3>3. ASSUME NEW x \in Builds, Healer(x) PROVE Healer(x)'
      <4>1. Running(x) /\ Past(x) /\ Alone(x) /\ op.pc = "idle" /\ zombies = {}
        BY <3>3, PastRuns DEF Healer, Alone
      <4>2. build'[x] = build[x] /\ Alone(x)'
        BY <4>1, <2>1, <2>4, <2>6
      <4>3. \A b \in mine : build[b].pc # "feed"
        BY <2>6 DEF Running, Ended
      <4>4. data' = data
        BY <1>12, <4>1, <4>3 DEF Crash
      <4> QED
        BY <3>3, <4>1, <4>2, <4>4, <2>3 DEF Healer, Past, MapReduced
    <3> QED
      BY <3>1, <3>2, <3>3, <1>0 DEF HealInv
  <2> QED
    BY <2>5, <2>6
<1>13. ASSUME ClearGraph PROVE HealInv' /\ SoloInv'
  <2>1. healing' = {} /\ damage \subseteq damage' /\ UNCHANGED <<build, op, zombies>>
    BY <1>13 DEF ClearGraph, Damaged
  <2>2. Exclusive => Exclusive'
    BY <2>1, FewerWriters DEF Running
  <2> QED
    BY <2>1, <2>2, <1>0, SoloStays DEF HealInv
<1>14. ASSUME NEW w \in Workers, NEW v \in DOMAIN dirs, RollbackStart(w, v)
       PROVE  HealInv' /\ SoloInv'
  <2>1. Damaged(IF NoWriter THEN {} ELSE {"raced"}) /\ UNCHANGED <<build, zombies>>
    BY <1>14 DEF RollbackStart
  <2>2. CASE ~NoWriter
    BY <2>1, <2>2, RacedFree DEF Damaged
  <2>3. CASE NoWriter
    <3>1. healing' = {}
      BY <2>1, <2>3, <1>0, NobodyHeals DEF Damaged, NoWriter
    <3>2. Exclusive'
      BY <2>1, <2>3 DEF Exclusive, NoWriter, Quiet, Running
    <3> QED
      BY <3>1, <3>2 DEF HealInv, SoloInv
  <2> QED
    BY <2>2, <2>3
<1>15. ASSUME NEW w \in Workers, NEW k \in PruneKeeps, PruneOp(w, k) PROVE HealInv' /\ SoloInv'
  <2>1. Damaged(IF NoWriter THEN {} ELSE {"raced"}) /\ UNCHANGED <<build, zombies>>
    BY <1>15 DEF PruneOp
  <2>2. CASE ~NoWriter
    BY <2>1, <2>2, RacedFree DEF Damaged
  <2>3. CASE NoWriter
    <3>1. healing' = {}
      BY <2>1, <2>3, <1>0, NobodyHeals DEF Damaged, NoWriter
    <3>2. Exclusive'
      BY <2>1, <2>3 DEF Exclusive, NoWriter, Quiet, Running
    <3> QED
      BY <3>1, <3>2 DEF HealInv, SoloInv
  <2> QED
    BY <2>2, <2>3
<1>16. ASSUME RollbackList PROVE HealInv' /\ SoloInv'
  <2>1. op.pc # "idle" /\ UNCHANGED <<build, zombies, damage, healing>>
    BY <1>16 DEF RollbackList, ghostVars
  <2>2. Exclusive => Exclusive'
    BY <2>1, FewerWriters DEF Running
  <2>3. healing' = {}
    BY <2>1, <1>0, NobodyHeals
  <2> QED
    BY <2>1, <2>2, <2>3, <1>0, SoloStays DEF HealInv
<1>17. ASSUME PruneOpList PROVE HealInv' /\ SoloInv'
  <2>1. op.pc # "idle" /\ UNCHANGED <<build, zombies, damage, healing>>
    BY <1>17 DEF PruneOpList, ghostVars
  <2>2. Exclusive => Exclusive'
    BY <2>1, FewerWriters DEF Running
  <2>3. healing' = {}
    BY <2>1, <1>0, NobodyHeals
  <2> QED
    BY <2>1, <2>2, <2>3, <1>0, SoloStays DEF HealInv
<1>18. ASSUME RollbackRestore PROVE HealInv' /\ SoloInv'
  <2>1. /\ op.pc = "restore" /\ UNCHANGED <<build, zombies>>
        /\ damage \subseteq damage' /\ healing' = {}
    BY <1>18 DEF RollbackRestore, Damaged
  <2>2. Exclusive => Exclusive'
    BY <2>1, FewerWriters DEF Running
  <2> QED
    BY <2>1, <2>2, <1>0, SoloStays DEF HealInv
<1>19.
      \/ UNCHANGED <<minChunks, data, build, op, zombies, damage, healing>>
      \/ \E b \in Builds : BuildStep(b) \/ BuildFault(b)
      \/ \E w \in Workers, i \in BOOLEAN : KgBuild(w, i)
      \/ \E z \in zombies : ZombieDump(z)
      \/ \E w \in Workers : Crash(w)
      \/ ClearGraph
      \/ \E w \in Workers, v \in DOMAIN dirs : RollbackStart(w, v)
      \/ \E w \in Workers, j \in PruneKeeps : PruneOp(w, j)
      \/ OpStep
  BY DEF Next, Done, EditTable, vars, diskVars, ghostVars
<1>20. ASSUME NEW b \in Builds, BuildStep(b) \/ BuildFault(b) PROVE HealInv' /\ SoloInv'
  <2>1.
        \/ InnerStep(b) /\ UNCHANGED <<damage, healing>>
        \/ SidecarWriteFails(b) \/ AcquireLock(b) \/ AddVertices(b)
        \/ GraphGone(b) \/ BuildFails(b) \/ TimeoutBuild(b)
        \/ FinishBuild(b) \/ LetGo(b)
    BY <1>20 DEF BuildStep, BuildFault, InnerStep, ghostVars, ArchiveCopy,
       ArchiveList, PruneDirs, PruneList, LoadKA, FeedChunk, FeedFails, DumpKA,
       WriteSidecar, MapChunks, WriteCheckpoint, MarkMapped, InsertEntities,
       InsertReferences, VersioningFails, FeedHangs, LetGo
  <2> QED
    BY <2>1, <1>1, <1>2, <1>5, <1>6, <1>7, <1>8, <1>9, <1>10, <1>21
<1> QED
  BY <1>19, <1>20, <1>1, <1>2, <1>3, <1>4, <1>5, <1>6, <1>7, <1>8, <1>9, <1>10, <1>11,
     <1>12, <1>13, <1>14, <1>15, <1>16, <1>17, <1>18 DEF OpStep

\* Steps that touch neither the vertices nor the marks, nor what a build takes from them.
Unmarking(b) ==
    \/ ArchiveCopy(b) \/ ArchiveList(b) \/ PruneDirs(b) \/ PruneList(b)
    \/ FeedChunk(b) \/ FeedFails(b) \/ DumpKA(b) \/ MapChunks(b)
    \/ WriteCheckpoint(b) \/ InsertEntities(b) \/ InsertReferences(b)
    \/ VersioningFails(b) \/ FeedHangs(b)

Neutral ==
    /\ UNCHANGED <<vtx, fed>> /\ damage \subseteq damage' /\ healing' \subseteq healing
    /\ \A x \in Builds : Past(x)' <=> Past(x)
    /\ \A x \in Builds : Past(x) =>
           /\ build'[x].rows = build[x].rows /\ build'[x].prev = build[x].prev
           /\ build'[x].pc \in InsertPcs => build[x].pc \in InsertPcs

\* A step that writes neither vertices nor marks is Neutral.
LEMMA UnmarkingIs ==
    ASSUME BaseTypes, \A x \in Builds : Shape(x), NEW b \in Builds, Unmarking(b)
    PROVE  Neutral
<1>0. build \in [Builds -> BuildStates] /\ \A x \in Builds : Shape(x)
  BY DEF BaseTypes
<1>1. Inner(b)
  BY InnerIs DEF Unmarking, InnerStep
<1>2. UNCHANGED <<fed, damage, healing>>
  BY DEF Unmarking, diskVars, ghostVars, ArchiveCopy, ArchiveList, PruneDirs,
     PruneList, FeedChunk, FeedFails, DumpKA, MapChunks, WriteCheckpoint,
     InsertEntities, InsertReferences, VersioningFails, FeedHangs
<1>3. build'[b].prev = build[b].prev /\ (build'[b].pc \in InsertPcs => build[b].pc \in InsertPcs)
  <2>1. CASE ArchiveCopy(b)
    <3>1. CASE data = NoDump
      <4>1. Goto(b, "prune")
        BY <2>1, <3>1 DEF ArchiveCopy
      <4> QED
        BY <4>1, <1>0, GotoFields DEF InsertPcs
    <3>2. CASE data # NoDump
      BY <2>1, <3>2, <1>0, ArchiveCopyFields DEF InsertPcs
    <3> QED
      BY <3>1, <3>2
  <2>2. CASE ArchiveList(b)
    <3>1. build[b].pc = "list"
      BY <2>2 DEF ArchiveList
    <3> QED
      BY <3>1, <2>2, <1>0, ArchiveListFields DEF InsertPcs
  <2>3. CASE PruneDirs(b)
    <3>1. build[b].pc = "prune"
      BY <2>3 DEF PruneDirs
    <3> QED
      BY <3>1, <2>3, <1>0, PruneDirsFields DEF InsertPcs
  <2>4. CASE PruneList(b)
    <3>1. build[b].pc = "trim"
      BY <2>4 DEF PruneList
    <3> QED
      BY <3>1, <2>4, <1>0, PruneListFields DEF InsertPcs
  <2>5. CASE FeedChunk(b)
    <3>1. build[b].pc = "feed" /\ build[b].todo # {}
      BY <2>5 DEF FeedChunk
    <3> QED
      BY <3>1, <2>5, <1>0, FeedChunkFields DEF InsertPcs
  <2>6. CASE FeedFails(b)
    <3>1. build[b].pc = "feed" /\ build[b].todo # {}
      BY <2>6 DEF FeedFails
    <3> QED
      BY <3>1, <2>6, <1>0, FeedFailsFields DEF InsertPcs
  <2>7. CASE DumpKA(b)
    <3>1. build[b].pc = "feed" /\ build[b].todo = {} /\ Goto(b, "sidecar")
      BY <2>7 DEF DumpKA
    <3> QED
      BY <3>1, <1>0, GotoFields DEF InsertPcs
  <2>8. CASE MapChunks(b)
    <3>1. PICK got : Becomes(b, [build[b] EXCEPT !.pc = "checkpoint", !.ka = NamesIn(got),
                                                 !.owned = got])
      BY <2>8 DEF MapChunks
    <3> QED
      BY <3>1, <1>0, MapFields DEF InsertPcs
  <2>9. CASE WriteCheckpoint(b)
    <3>1. build[b].pc = "checkpoint" /\ Goto(b, "mark")
      BY <2>9 DEF WriteCheckpoint
    <3> QED
      BY <3>1, <1>0, GotoFields DEF InsertPcs
  <2>10. CASE InsertEntities(b)
    <3>1. build[b].pc = "entities" /\ Goto(b, "references")
      BY <2>10 DEF InsertEntities
    <3> QED
      BY <3>1, <1>0, GotoFields DEF InsertPcs
  <2>11. CASE InsertReferences(b)
    <3>1. build[b].pc = "references" /\ Goto(b, "finish")
      BY <2>11 DEF InsertReferences
    <3> QED
      BY <3>1, <1>0, GotoFields DEF InsertPcs
  <2>12. CASE VersioningFails(b)
    BY <2>12, <1>0, VersioningFailsFields DEF InsertPcs
  <2>13. CASE FeedHangs(b)
    <3>1. build[b].pc = "feed" /\ Goto(b, "hung")
      BY <2>13 DEF FeedHangs
    <3> QED
      BY <3>1, <1>0, GotoFields DEF InsertPcs
  <2> QED
    BY <2>1, <2>2, <2>3, <2>4, <2>5, <2>6, <2>7, <2>8, <2>9, <2>10, <2>11, <2>12,
       <2>13 DEF Unmarking
<1> QED
  BY <1>1, <1>2, <1>3 DEF Inner, Neutral, Past

\* A Neutral step keeps what is said of vertices and marks.
LEMMA NeutralMarks ==
    ASSUME HasVertexInv, MatchInv, Neutral
    PROVE  HasVertexInv' /\ MatchInv'
<1>0. Unmended \subseteq Unmended'
  BY DEF Unmended, Neutral
<1>1. HasVertexInv'
  <2>1. ASSUME "cleared" \notin Unmended', NEW x \in Builds, Past(x)'
        PROVE  Rows(build'[x].rows) \cup Rows(build'[x].prev) \subseteq Rows(vtx')
    BY <2>1, <1>0 DEF HasVertexInv, Neutral
  <2>2. (\E x \in Builds : build'[x].pc \in InsertPcs) => \E x \in Builds : build[x].pc \in InsertPcs
    BY DEF Neutral, Past, PastPcs
  <2>3. Rows(fed) \subseteq Rows(vtx) => Rows(fed') \subseteq Rows(vtx')
    BY DEF Neutral
  <2>4. \/ "cleared" \notin damage'
        \/ "cleared" \notin Unmended' /\ \E x \in Builds : build'[x].pc \in InsertPcs
        => Rows(fed') \subseteq Rows(vtx')
    BY <2>2, <2>3, <1>0 DEF HasVertexInv, Neutral
  <2> QED
    BY <2>1, <2>4 DEF HasVertexInv
<1>2. MatchInv'
  <2>1. ASSUME Unmended' \cap MatchKinds = {}, NEW x \in Builds, Past(x)'
        PROVE  /\ Holds(build[x].rows, {})' /\ Holds(build[x].prev, Rows(build[x].rows))'
               /\ build'[x].pc \in InsertPcs => Holds(fed, {})'
    <3>1. /\ Holds(build[x].rows, {}) /\ Holds(build[x].prev, Rows(build[x].rows))
          /\ build[x].pc \in InsertPcs => Holds(fed, {})
      BY <2>1, <1>0 DEF MatchInv, Neutral
    <3> QED
      BY <3>1, <2>1 DEF Holds, Neutral
  <2>2. ASSUME damage' \cap MatchKinds = {}
        PROVE  Holds(fed, UNION {Rows(build[x].rows) : x \in {y \in Builds : Past(y)}})'
    <3>1. Holds(fed, UNION {Rows(build[x].rows) : x \in {y \in Builds : Past(y)}})
      BY <2>2 DEF MatchInv, Neutral
    <3>2. SUFFICES ASSUME NEW c \in Rows(fed'), vtx'[c] # fed'[c]
                   PROVE  \E x \in Builds : Past(x)' /\ c \in Rows(build'[x].rows)
      BY DEF Holds
    <3>3. c \in UNION {Rows(build[x].rows) : x \in {y \in Builds : Past(y)}}
      BY <3>1, <3>2 DEF Holds, Neutral
    <3>4. PICK x \in Builds : Past(x) /\ c \in Rows(build[x].rows)
      BY <3>3
    <3> QED
      BY <3>4 DEF Neutral
  <2> QED
    BY <2>1, <2>2 DEF MatchInv
<1> QED
  BY <1>1, <1>2

\* A build that stops, or has not begun, leaves the vertices it has written.
LEMMA VerticesGrow ==
    ASSUME HasVertexInv, Rows(vtx) \subseteq Rows(vtx'), fed' = fed,
           damage \subseteq damage', healing' \subseteq healing,
           \A x \in Builds : build'[x] = build[x] \/ build'[x].pc \notin PastPcs
    PROVE  HasVertexInv'
<1>1. Unmended \subseteq Unmended'
  BY DEF Unmended
<1>2. \A x \in Builds : Past(x)' => Past(x) /\ build'[x] = build[x]
  BY DEF Past
<1>3. (\E x \in Builds : build'[x].pc \in InsertPcs) => \E x \in Builds : build[x].pc \in InsertPcs
  BY DEF PastPcs
<1>4. ASSUME "cleared" \notin Unmended', NEW x \in Builds, Past(x)'
      PROVE  Rows(build'[x].rows) \cup Rows(build'[x].prev) \subseteq Rows(vtx')
  BY <1>1, <1>2, <1>4 DEF HasVertexInv
<1>5. Rows(fed) \subseteq Rows(vtx) => Rows(fed') \subseteq Rows(vtx')
  OBVIOUS
<1>6. \/ "cleared" \notin damage'
      \/ "cleared" \notin Unmended' /\ \E x \in Builds : build'[x].pc \in InsertPcs
      => Rows(fed') \subseteq Rows(vtx')
  BY <1>1, <1>3, <1>5 DEF HasVertexInv
<1> QED
  BY <1>4, <1>6 DEF HasVertexInv

\* Damage that nothing heals voids MatchInv.
LEMMA CutVoidsMatch ==
    ASSUME damage' \cap MatchKinds # {}, healing' = {}
    PROVE  MatchInv'
  BY DEF MatchInv, Unmended

\* Vertices that were written in part are added.
LEMMA PartVertices ==
    ASSUME vtx \in Rowss, build \in [Builds -> BuildStates], NEW b \in Builds, PartWritten(b)
    PROVE  Rows(vtx) \subseteq Rows(vtx')
<1>1. PICK S : vtx' = WithVertices(S, build[b].rows) /\ S \subseteq NewChunks(b)
  <2>1. CASE schema /\ build[b].pc = "vertices"
    BY <2>1 DEF PartWritten
  <2>2. CASE ~(schema /\ build[b].pc = "vertices")
    BY <2>2 DEF PartWritten
  <2> QED
    BY <2>1, <2>2
<1>2. S \subseteq Rows(build[b].rows)
  BY <1>1 DEF NewChunks
<1> QED
  BY <1>1, <1>2 DEF WithVertices, Rows

\* Every action keeps the marks to vertices that are there, and hold what is marked.
LEMMA MarksStep ==
    ASSUME BaseTypes, BaseTypes', ListedExist, ControlInv, ControlInv', HasVertexInv, MatchInv, Next
    PROVE  HasVertexInv' /\ MatchInv'
<1>0. /\ build \in [Builds -> BuildStates] /\ build' \in [Builds -> BuildStates]
      /\ HealInv /\ SoloInv /\ \A x \in Builds : Shape(x)
      /\ damage \subseteq Kinds /\ healing \subseteq damage
      /\ vtx \in Rowss /\ fed \in Rowss /\ HasVertexInv /\ MatchInv
  BY DEF BaseTypes, ControlInv
<1>1. ASSUME NEW b \in Builds, Unmarking(b) PROVE HasVertexInv' /\ MatchInv'
  BY <1>1, <1>0, UnmarkingIs, NeutralMarks
<1>2. ASSUME UNCHANGED <<vtx, fed, build>>, damage \subseteq damage', healing' \subseteq healing
      PROVE  HasVertexInv' /\ MatchInv'
  BY <1>2, <1>0, NeutralMarks DEF Neutral, Past
<1>3. ASSUME NEW w \in Workers, NEW i \in BOOLEAN, KgBuild(w, i)
      PROVE  HasVertexInv' /\ MatchInv'
  <2>1. UNCHANGED <<vtx, fed, damage, healing>>
    BY <1>3 DEF KgBuild, diskVars, ghostVars, graphVars
  <2>2. PICK b \in Builds : /\ build[b].pc = "none"
                            /\ Becomes(b, [Idle EXCEPT !.pc = "queued", !.w = w,
                                           !.incremental = i, !.rows = table])
    BY <1>3 DEF KgBuild
  <2>3. build'[b].pc = "queued" /\ \A x \in Builds \ {b} : build'[x] = build[x]
    BY <2>2, <1>0, QueueFields
  <2>4. ~Past(b) /\ ~Past(b)'
    BY <2>2, <2>3, PastRuns, PastRunsNext
  <2> QED
    BY <2>1, <2>3, <2>4, <1>0, NeutralMarks DEF Neutral, Past
<1>4. ASSUME NEW b \in Builds, AcquireLock(b) PROVE HasVertexInv' /\ MatchInv'
  <2>1. build[b].pc = "queued" /\ Goto(b, "vertices") /\ UNCHANGED <<vtx, fed>>
    BY <1>4 DEF AcquireLock, diskVars
  <2>2. damage \subseteq damage' /\ healing' \subseteq healing
    BY <1>4 DEF AcquireLock, RacedUnless, Damaged
  <2>3. build'[b].pc = "vertices" /\ \A x \in Builds \ {b} : build'[x] = build[x]
    BY <2>1, <1>0, GotoFields
  <2>4. ~Past(b) /\ ~Past(b)'
    BY <2>1, <2>3, PastRuns, PastRunsNext
  <2> QED
    BY <2>1, <2>2, <2>3, <2>4, <1>0, NeutralMarks DEF Neutral, Past
<1>5. ASSUME NEW b \in Builds, AddVertices(b) PROVE HasVertexInv' /\ MatchInv'
  <2>1. build[b].pc = "vertices" /\ UNCHANGED <<fed, damage>>
    BY <1>5 DEF AddVertices, diskVars
  <2>2. Running(b) /\ ~Past(b)
    BY <2>1, PastRuns
  <2>3. healing = {} /\ Unmended = damage
    BY <2>2, <1>0, HealsAlone DEF Healer, Unmended
  <2>4. CASE Rows(build[b].rows) = {}
    <3>1. End(b, "completed") /\ UNCHANGED <<vtx, healing>>
      BY <1>5, <2>4 DEF AddVertices
    <3>2. build'[b].pc = "completed" /\ \A x \in Builds \ {b} : build'[x] = build[x]
      BY <3>1, <1>0, EndFields
    <3>3. ~Past(b)'
      BY <3>2, PastRunsNext DEF Ended
    <3> QED
      BY <3>1, <3>2, <3>3, <2>1, <2>2, <1>0, NeutralMarks DEF Neutral, Past
  <2>5. CASE Rows(build[b].rows) # {}
    <3> DEFINE r == build[b]
    <3>1. /\ vtx' = WithVertices(NewChunks(b), r.rows)
          /\ healing' = (IF r.incremental \/ ~Alone(b) THEN healing ELSE MadeGood(r.rows))
      BY <1>5, <2>5 DEF AddVertices
    <3>2. /\ \A x \in Builds \ {b} : build'[x] = build[x]
          /\ build'[b].pc \in {"map", "archive"} /\ build'[b].rows = r.rows
          /\ build'[b].prev = r.prev
      BY <2>5, <1>5, <1>0, AddVerticesFields
    <3>3. r.prev = Nothing /\ Rows(r.prev) = {}
      BY <2>1, <1>0, RowsIn DEF Shape, InsertPcs
    <3>4. \A c \in Rows(r.rows) :
              \/ c \in NewChunks(b) /\ vtx'[c] = r.rows[c]
              \/ /\ c \notin NewChunks(b) /\ vtx'[c] = vtx[c]
                 /\ r.incremental /\ fed[c] = r.rows[c] /\ c \in Rows(fed)
      BY <3>1 DEF WithVertices, NewChunks, Rows
    <3>5. \A c \in Chunks \ Rows(r.rows) : vtx'[c] = vtx[c]
      BY <3>1 DEF WithVertices, NewChunks
    <3>6. Rows(vtx) \subseteq Rows(vtx')
      BY <3>4, <3>5 DEF Rows
    <3>7. ASSUME healing' # {} PROVE Alone(b) /\ ~r.incremental
      BY <3>1, <3>7, <2>3
    <3>8. HasVertexInv'
      <4>1. ASSUME "cleared" \notin Unmended' PROVE Rows(r.rows) \subseteq Rows(vtx')
        <5>1. SUFFICES ASSUME NEW c \in Rows(r.rows) PROVE c \in Rows(vtx')
          OBVIOUS
        <5>2. CASE vtx'[c] = r.rows[c]
          BY <5>1, <5>2 DEF Rows
        <5>3. CASE r.incremental /\ c \in Rows(fed)
          <6>1. "cleared" \notin damage
            BY <4>1, <5>3, <3>7, <2>1 DEF Unmended
          <6> QED
            BY <6>1, <5>3, <3>6, <1>0 DEF HasVertexInv
        <5> QED
          BY <5>1, <5>2, <5>3, <3>4
      <4>2. ASSUME "cleared" \notin Unmended', NEW x \in Builds \ {b}, Past(x)'
            PROVE  Rows(build'[x].rows) \cup Rows(build'[x].prev) \subseteq Rows(vtx')
        <5>1. Past(x) /\ build'[x] = build[x]
          BY <4>2, <3>2 DEF Past
        <5>2. healing' = {}
          BY <5>1, <3>7, PastRuns DEF Alone
        <5>3. "cleared" \notin Unmended
          BY <5>2, <4>2, <2>1 DEF Unmended
        <5> QED
          BY <5>1, <5>3, <3>6, <1>0 DEF HasVertexInv
      <4>3. ASSUME "cleared" \notin Unmended', NEW x \in Builds, build'[x].pc \in InsertPcs
            PROVE  "cleared" \notin damage
        <5>1. x # b
          BY <4>3, <3>2 DEF InsertPcs
        <5>2. Past(x)
          BY <5>1, <4>3, <3>2 DEF Past, PastPcs
        <5>3. healing' = {}
          BY <5>1, <5>2, <3>7, PastRuns DEF Alone
        <5> QED
          BY <5>3, <4>3, <2>1 DEF Unmended
      <4>4. "cleared" \notin damage => Rows(fed') \subseteq Rows(vtx')
        BY <3>6, <2>1, <1>0 DEF HasVertexInv
      <4>5. \/ "cleared" \notin damage'
            \/ "cleared" \notin Unmended' /\ \E x \in Builds : build'[x].pc \in InsertPcs
            => Rows(fed') \subseteq Rows(vtx')
        BY <4>3, <4>4, <2>1
      <4>6. "cleared" \notin Unmended' => Rows(build'[b].rows) \cup Rows(build'[b].prev) \subseteq Rows(vtx')
        BY <4>1, <3>2, <3>3
      <4> QED
        BY <4>2, <4>5, <4>6 DEF HasVertexInv
    <3>9. ASSUME Unmended' \cap MatchKinds = {} PROVE \A x \in Builds \ {b} : ~Past(x)
      <4>1. CASE healing' # {}
        BY <4>1, <3>7, PastRuns DEF Alone
      <4>2. CASE healing' = {}
        <5>1. "raced" \notin Unmended
          BY <4>2, <3>9, <2>1 DEF Unmended, MatchKinds
        <5> QED
          BY <5>1, <2>2, <1>0, PastRuns DEF SoloInv, Exclusive, Alone
      <4> QED
        BY <4>1, <4>2
    <3>10. ASSUME damage \cap MatchKinds = {} PROVE Holds(fed, {})
      <4>1. Unmended' \cap MatchKinds = {}
        BY <3>10, <2>1 DEF Unmended
      <4>2. \A x \in Builds : ~Past(x)
        BY <4>1, <3>9, <2>2
      <4>3. Holds(fed, UNION {Rows(build[x].rows) : x \in {y \in Builds : Past(y)}})
        BY <3>10, <1>0 DEF MatchInv
      <4> QED
        BY <4>2, <4>3 DEF Holds
    <3>11. ASSUME Unmended' \cap MatchKinds = {} PROVE Holds(build[b].rows, {})'
      <4>1. SUFFICES ASSUME NEW c \in Rows(r.rows) PROVE vtx'[c] = r.rows[c]
        BY <3>2 DEF Holds
      <4>2. CASE c \notin NewChunks(b) /\ vtx'[c] = vtx[c] /\ r.incremental /\ fed[c] = r.rows[c]
                 /\ c \in Rows(fed)
        <5>1. damage \cap MatchKinds = {}
          BY <4>2, <3>7, <3>11, <2>1 DEF Unmended
        <5> QED
          BY <5>1, <3>10, <4>2 DEF Holds
      <4> QED
        BY <4>1, <4>2, <3>4
    <3>12. ASSUME damage' \cap MatchKinds = {}
           PROVE  Holds(fed, UNION {Rows(build[x].rows) : x \in {y \in Builds : Past(y)}})'
      <4>1. SUFFICES ASSUME NEW c \in Rows(fed'), vtx'[c] # fed'[c]
                     PROVE  \E x \in Builds : Past(x)' /\ c \in Rows(build'[x].rows)
        BY DEF Holds
      <4>2. vtx[c] = fed[c] /\ c \in Chunks
        BY <3>10, <3>12, <4>1, <2>1 DEF Holds, Rows
      <4>3. c \in Rows(r.rows)
        BY <4>1, <4>2, <3>5, <2>1
      <4>4. Past(b)'
        BY <3>2 DEF Past, PastPcs, DatasetPcs, MapPcs
      <4> QED
        BY <4>3, <4>4, <3>2
    <3>13. ASSUME Unmended' \cap MatchKinds = {}, NEW x \in Builds, Past(x)'
           PROVE  /\ Holds(build[x].rows, {})' /\ Holds(build[x].prev, Rows(build[x].rows))'
                  /\ build'[x].pc \in InsertPcs => Holds(fed, {})'
      <4>1. x = b
        BY <3>13, <3>9, <3>2 DEF Past
      <4>2. Holds(build[b].prev, Rows(build[b].rows))'
        BY <3>2, <3>3 DEF Holds
      <4>3. build'[b].pc \notin InsertPcs
        BY <3>2 DEF InsertPcs
      <4> QED
        BY <4>1, <4>2, <4>3, <3>13, <3>11
    <3> QED
      BY <3>8, <3>12, <3>13 DEF MatchInv
  <2> QED
    BY <2>4, <2>5
<1>6. ASSUME NEW b \in Builds, LoadKA(b) PROVE HasVertexInv' /\ MatchInv'
  <2>1. Inner(b) /\ build[b].pc = "load" /\ UNCHANGED <<fed, damage, healing>>
    <3>1. Inner(b)
      BY <1>6, <1>0, InnerIs DEF InnerStep
    <3> QED
      BY <1>6, <3>1 DEF LoadKA, diskVars, ghostVars
  <2>2. CASE Becomes(b, [build[b] EXCEPT !.pc = "feed", !.todo = Rows(build[b].rows)])
    <3>1. build'[b].pc = "feed" /\ build'[b].prev = build[b].prev
      BY <2>2, <1>0, FreshFields
    <3> QED
      BY <3>1, <2>1, <1>0, NeutralMarks DEF Neutral, Inner, Past, InsertPcs
  <2>3. CASE build[b].incremental /\ Becomes(b, [build[b] EXCEPT !.pc = "feed", !.ka = data,
                                                 !.todo = Unmarked(b), !.prev = fed])
    <3>1. build'[b].pc = "feed" /\ build'[b].prev = fed
      BY <2>3, <1>0, LoadFields
    <3>2. Running(b)
      BY <2>1, PastRuns DEF Inner
    <3>3. healing = {} /\ healing' = {} /\ Unmended = damage /\ Unmended' = damage
      BY <3>2, <2>1, <2>3, <1>0, HealsAlone DEF Healer, Unmended
    <3>4. /\ \A x \in Builds : Past(x)' <=> Past(x)
          /\ \A x \in Builds : build'[x].rows = build[x].rows
          /\ \A x \in Builds \ {b} : build'[x] = build[x]
          /\ UNCHANGED <<vtx, fed>> /\ build'[b].pc \notin InsertPcs
      BY <2>1, <3>1 DEF Inner, Past, InsertPcs
    <3>5. HasVertexInv'
      <4>1. ASSUME "cleared" \notin damage, NEW x \in Builds, Past(x)'
            PROVE  Rows(build'[x].rows) \cup Rows(build'[x].prev) \subseteq Rows(vtx')
        BY <4>1, <3>1, <3>3, <3>4, <1>0 DEF HasVertexInv
      <4> QED
        BY <4>1, <3>3, <3>4, <2>1, <1>0 DEF HasVertexInv
    <3>6. ASSUME damage \cap MatchKinds = {} PROVE Holds(fed, Rows(build[b].rows))
      <4>1. "raced" \notin Unmended
        BY <3>6, <3>3 DEF MatchKinds
      <4>2. \A x \in Builds \ {b} : ~Past(x)
        BY <4>1, <3>2, <1>0, PastRuns DEF SoloInv, Exclusive, Alone
      <4>3. Holds(fed, UNION {Rows(build[x].rows) : x \in {y \in Builds : Past(y)}})
        BY <3>6, <1>0 DEF MatchInv
      <4> QED
        BY <4>2, <4>3 DEF Holds
    <3>7. ASSUME damage \cap MatchKinds = {}, NEW x \in Builds, Past(x)'
          PROVE  /\ Holds(build[x].rows, {})' /\ Holds(build[x].prev, Rows(build[x].rows))'
                 /\ build'[x].pc \in InsertPcs => Holds(fed, {})'
      <4>1. /\ Holds(build[x].rows, {}) /\ Holds(build[x].prev, Rows(build[x].rows))
            /\ build[x].pc \in InsertPcs => Holds(fed, {})
        BY <3>7, <3>3, <3>4, <1>0 DEF MatchInv
      <4>2. CASE x = b
        BY <4>1, <4>2, <3>1, <3>4, <3>6, <3>7 DEF Holds
      <4>3. CASE x # b
        BY <4>1, <4>3, <3>4 DEF Holds
      <4> QED
        BY <4>2, <4>3
    <3>8. ASSUME damage \cap MatchKinds = {}
          PROVE  Holds(fed, UNION {Rows(build[x].rows) : x \in {y \in Builds : Past(y)}})'
      <4>1. SUFFICES ASSUME NEW c \in Rows(fed'), vtx'[c] # fed'[c]
                     PROVE  \E x \in Builds : Past(x)' /\ c \in Rows(build'[x].rows)
        BY DEF Holds
      <4>2. c \in Rows(build[b].rows)
        BY <4>1, <3>8, <3>6, <3>4 DEF Holds
      <4> QED
        BY <4>2, <3>4, <2>1 DEF Inner
    <3> QED
      BY <3>3, <3>5, <3>7, <3>8, <2>1 DEF MatchInv
  <2> QED
    BY <1>6, <2>2, <2>3 DEF LoadKA
<1>7. ASSUME NEW b \in Builds, WriteSidecar(b) PROVE HasVertexInv' /\ MatchInv'
  <2>1. Inner(b) /\ UNCHANGED <<damage, healing>>
    <3>1. Inner(b)
      BY <1>7, <1>0, InnerIs DEF InnerStep
    <3> QED
      BY <1>7, <3>1 DEF WriteSidecar, ghostVars
  <2>2. Unmended' = Unmended
    BY <2>1 DEF Unmended
  <2> DEFINE r == build[b]
  <2>3. fed' = Overlay(r.prev, r.rows, {c \in Rows(r.rows) : r.prev[c] # r.rows[c]})
    BY <1>7 DEF WriteSidecar
  <2>4. \A c \in Rows(fed') :
            \/ c \in Rows(r.rows) /\ fed'[c] = r.rows[c]
            \/ c \in Rows(r.prev) \ Rows(r.rows) /\ fed'[c] = r.prev[c]
    BY <2>3 DEF Overlay, Rows
  <2>5. build'[b].prev = Nothing
    BY <1>7, <1>0, WriteSidecarFields
  <2>6. \A x \in Builds : build'[x].rows = build[x].rows /\ (build'[x].prev = build[x].prev \/ build'[x].prev = Nothing)
    BY <2>1, <2>5 DEF Inner
  <2>7. /\ \A x \in Builds : Past(x)' <=> Past(x)
        /\ \A x \in Builds \ {b} : build'[x] = build[x]
        /\ Past(b) /\ vtx' = vtx
    BY <2>1 DEF Inner, Past
  <2>8. Rows(fed') \subseteq Rows(r.rows) \cup Rows(r.prev)
    BY <2>4 DEF Rows
  <2>9. HasVertexInv'
    <3>1. ASSUME "cleared" \notin Unmended PROVE Rows(fed') \subseteq Rows(vtx')
      BY <3>1, <2>7, <2>8, <1>0 DEF HasVertexInv
    <3>2. ASSUME "cleared" \notin Unmended, NEW x \in Builds, Past(x)'
          PROVE  Rows(build'[x].rows) \cup Rows(build'[x].prev) \subseteq Rows(vtx')
      <4>1. Rows(build[x].rows) \cup Rows(build[x].prev) \subseteq Rows(vtx)
        BY <3>2, <2>7, <1>0 DEF HasVertexInv
      <4> QED
        BY <4>1, <2>6, <2>7, RowsIn
    <3> QED
      BY <3>1, <3>2, <2>1, <2>2 DEF HasVertexInv, Unmended
  <2>10. ASSUME Unmended \cap MatchKinds = {} PROVE Holds(fed, {})'
    <3>1. Holds(r.rows, {}) /\ Holds(r.prev, Rows(r.rows))
      BY <2>10, <2>7, <1>0 DEF MatchInv
    <3> QED
      BY <3>1, <2>4, <2>7 DEF Holds
  <2>11. ASSUME Unmended \cap MatchKinds = {}, NEW x \in Builds, Past(x)'
        PROVE  Holds(build[x].rows, {})' /\ Holds(build[x].prev, Rows(build[x].rows))'
    <3>1. Holds(build[x].rows, {}) /\ Holds(build[x].prev, Rows(build[x].rows))
      BY <2>11, <2>7, <1>0 DEF MatchInv
    <3> QED
      BY <3>1, <2>6, <2>7, RowsIn DEF Holds
  <2>12. ASSUME damage \cap MatchKinds = {}
         PROVE  Holds(fed, UNION {Rows(build[x].rows) : x \in {y \in Builds : Past(y)}})'
    <3>1. Holds(fed, {})'
      BY <2>12, <2>10 DEF Unmended
    <3> QED
      BY <3>1 DEF Holds
  <2> QED
    BY <2>1, <2>2, <2>9, <2>10, <2>11, <2>12 DEF MatchInv
<1>8. ASSUME NEW b \in Builds, MarkMapped(b) PROVE HasVertexInv' /\ MatchInv'
  <2>1. Inner(b) /\ UNCHANGED <<damage, healing>>
    <3>1. Inner(b)
      BY <1>8, <1>0, InnerIs DEF InnerStep
    <3> QED
      BY <1>8, <3>1 DEF MarkMapped, ghostVars
  <2>2. Unmended' = Unmended
    BY <2>1 DEF Unmended
  <2> DEFINE r == build[b]
  <2>3. fed' = r.rows /\ Goto(b, IF build[b].ka = {} THEN "finish" ELSE "entities")
    BY <1>8 DEF MarkMapped
  <2>4. \A c \in Rows(fed') :
            \/ c \in Rows(r.rows) /\ fed'[c] = r.rows[c]
            \/ c \in Rows(r.prev) \ Rows(r.rows) /\ fed'[c] = r.prev[c]
    BY <2>3 DEF Rows
  <2>5. build'[b].prev = build[b].prev
    BY <2>3, <1>0, GotoFields
  <2>6. \A x \in Builds : build'[x].rows = build[x].rows /\ (build'[x].prev = build[x].prev \/ build'[x].prev = Nothing)
    BY <2>1, <2>5 DEF Inner
  <2>7. /\ \A x \in Builds : Past(x)' <=> Past(x)
        /\ \A x \in Builds \ {b} : build'[x] = build[x]
        /\ Past(b) /\ vtx' = vtx
    BY <2>1 DEF Inner, Past
  <2>8. Rows(fed') \subseteq Rows(r.rows) \cup Rows(r.prev)
    BY <2>4 DEF Rows
  <2>9. HasVertexInv'
    <3>1. ASSUME "cleared" \notin Unmended PROVE Rows(fed') \subseteq Rows(vtx')
      BY <3>1, <2>7, <2>8, <1>0 DEF HasVertexInv
    <3>2. ASSUME "cleared" \notin Unmended, NEW x \in Builds, Past(x)'
          PROVE  Rows(build'[x].rows) \cup Rows(build'[x].prev) \subseteq Rows(vtx')
      <4>1. Rows(build[x].rows) \cup Rows(build[x].prev) \subseteq Rows(vtx)
        BY <3>2, <2>7, <1>0 DEF HasVertexInv
      <4> QED
        BY <4>1, <2>6, <2>7, RowsIn
    <3> QED
      BY <3>1, <3>2, <2>1, <2>2 DEF HasVertexInv, Unmended
  <2>10. ASSUME Unmended \cap MatchKinds = {} PROVE Holds(fed, {})'
    <3>1. Holds(r.rows, {}) /\ Holds(r.prev, Rows(r.rows))
      BY <2>10, <2>7, <1>0 DEF MatchInv
    <3> QED
      BY <3>1, <2>4, <2>7 DEF Holds
  <2>11. ASSUME Unmended \cap MatchKinds = {}, NEW x \in Builds, Past(x)'
        PROVE  Holds(build[x].rows, {})' /\ Holds(build[x].prev, Rows(build[x].rows))'
    <3>1. Holds(build[x].rows, {}) /\ Holds(build[x].prev, Rows(build[x].rows))
      BY <2>11, <2>7, <1>0 DEF MatchInv
    <3> QED
      BY <3>1, <2>6, <2>7, RowsIn DEF Holds
  <2>12. ASSUME damage \cap MatchKinds = {}
         PROVE  Holds(fed, UNION {Rows(build[x].rows) : x \in {y \in Builds : Past(y)}})'
    <3>1. Holds(fed, {})'
      BY <2>12, <2>10 DEF Unmended
    <3> QED
      BY <3>1 DEF Holds
  <2> QED
    BY <2>1, <2>2, <2>9, <2>10, <2>11, <2>12 DEF MatchInv
<1>9. ASSUME NEW b \in Builds, SidecarWriteFails(b) PROVE HasVertexInv' /\ MatchInv'
  <2>1. damage' = damage \cup {"stale"} /\ healing' = {} /\ UNCHANGED <<vtx, fed>>
    BY <1>9 DEF SidecarWriteFails, Damaged, diskVars, graphVars
  <2>2. MatchInv'
    BY <2>1, CutVoidsMatch DEF MatchKinds
  <2>3. Goto(b, IF build[b].ka = {} THEN "finish" ELSE "entities")
    BY <1>9 DEF SidecarWriteFails
  <2>4. \A x \in Builds : build'[x].rows = build[x].rows /\ build'[x].prev = build[x].prev
    BY <2>3, <1>0, GotoFields
  <2>5. Inner(b)
    BY <1>9, <1>0, InnerIs DEF InnerStep
  <2>6. \A x \in Builds : Past(x)' <=> Past(x)
    BY <2>5 DEF Inner, Past
  <2>7. Unmended' = damage \cup {"stale"} /\ Unmended \subseteq damage
    BY <2>1 DEF Unmended
  <2>8. ASSUME "cleared" \notin Unmended', NEW x \in Builds, Past(x)'
        PROVE  Rows(build'[x].rows) \cup Rows(build'[x].prev) \subseteq Rows(vtx')
    BY <2>8, <2>1, <2>4, <2>6, <2>7, <1>0 DEF HasVertexInv
  <2> QED
    BY <2>1, <2>2, <2>7, <2>8, <1>0 DEF HasVertexInv
<1>10. ASSUME NEW b \in Builds, GraphGone(b) PROVE HasVertexInv' /\ MatchInv'
  <2>1. End(b, "failed") /\ Damaged(Cut(b)) /\ UNCHANGED fed
    BY <1>10 DEF GraphGone, diskVars
  <2>2. Rows(vtx) \subseteq Rows(vtx')
    BY <1>10 DEF GraphGone, graphVars
  <2>3. build'[b].pc = "failed" /\ \A x \in Builds \ {b} : build'[x] = build[x]
    BY <2>1, <1>0, EndFields
  <2>4. damage \subseteq damage' /\ healing' = {} /\ "cut" \in damage'
    BY <2>1, CutKinds DEF Damaged
  <2>5. MatchInv'
    BY <2>4, CutVoidsMatch DEF MatchKinds
  <2> QED
    BY <2>1, <2>2, <2>3, <2>4, <2>5, <1>0, VerticesGrow
       DEF PastPcs, DatasetPcs, MapPcs, InsertPcs
<1>11. ASSUME NEW b \in Builds, BuildFails(b) PROVE HasVertexInv' /\ MatchInv'
  <2>1. End(b, "failed") /\ Damaged(Cut(b)) /\ UNCHANGED fed
    BY <1>11 DEF BuildFails, diskVars
  <2>2. Rows(vtx) \subseteq Rows(vtx')
    <3>1. PartWritten(b)
      BY <1>11 DEF BuildFails
    <3> QED
      BY <3>1, <1>0, PartVertices
  <2>3. build'[b].pc = "failed" /\ \A x \in Builds \ {b} : build'[x] = build[x]
    BY <2>1, <1>0, EndFields
  <2>4. damage \subseteq damage' /\ healing' = {} /\ "cut" \in damage'
    BY <2>1, CutKinds DEF Damaged
  <2>5. MatchInv'
    BY <2>4, CutVoidsMatch DEF MatchKinds
  <2> QED
    BY <2>1, <2>2, <2>3, <2>4, <2>5, <1>0, VerticesGrow
       DEF PastPcs, DatasetPcs, MapPcs, InsertPcs
<1>12. ASSUME NEW b \in Builds, TimeoutBuild(b) PROVE HasVertexInv' /\ MatchInv'
  <2>1. End(b, "failed") /\ Damaged(Cut(b)) /\ UNCHANGED fed
    BY <1>12 DEF TimeoutBuild, diskVars
  <2>2. Rows(vtx) \subseteq Rows(vtx')
    <3>1. PartWritten(b)
      BY <1>12 DEF TimeoutBuild
    <3> QED
      BY <3>1, <1>0, PartVertices
  <2>3. build'[b].pc = "failed" /\ \A x \in Builds \ {b} : build'[x] = build[x]
    BY <2>1, <1>0, EndFields
  <2>4. damage \subseteq damage' /\ healing' = {} /\ "cut" \in damage'
    BY <2>1, CutKinds DEF Damaged
  <2>5. MatchInv'
    BY <2>4, CutVoidsMatch DEF MatchKinds
  <2> QED
    BY <2>1, <2>2, <2>3, <2>4, <2>5, <1>0, VerticesGrow
       DEF PastPcs, DatasetPcs, MapPcs, InsertPcs
<1>13. ASSUME NEW b \in Builds, FinishBuild(b) PROVE HasVertexInv' /\ MatchInv'
  <2>1. /\ build[b].pc = "finish" /\ UNCHANGED <<vtx, fed>>
        /\ damage' = (IF build[b].incremental THEN damage ELSE damage \ healing)
        /\ healing' = (IF build[b].incremental THEN healing ELSE {})
    BY <1>13 DEF FinishBuild, diskVars, graphVars
  <2>2. build'[b].pc = "snapshot" /\ \A x \in Builds \ {b} : build'[x] = build[x]
    BY <1>13, <1>0, SnapFields
  <2>3. Running(b) /\ Past(b) /\ build[b].pc \in InsertPcs
    BY <2>1, PastRuns DEF Past, PastPcs, InsertPcs
  <2>4. build[b].incremental => healing = {}
    BY <2>3, <1>0, HealsAlone DEF Healer
  <2>5. healing' = {} /\ Unmended' = Unmended /\ damage' = Unmended
    BY <2>1, <2>4 DEF Unmended
  <2>6. ~Past(b)' /\ build'[b].pc \notin InsertPcs
    <3>1. ~Past(b)'
      BY <2>2, PastRunsNext DEF Ended
    <3> QED
      BY <3>1 DEF Past, PastPcs
  <2>7. HasVertexInv'
    BY <2>1, <2>2, <2>3, <2>5, <2>6, <1>0 DEF HasVertexInv, Past
  <2>8. ASSUME Unmended \cap MatchKinds = {}, NEW x \in Builds, Past(x)'
        PROVE  /\ Holds(build[x].rows, {})' /\ Holds(build[x].prev, Rows(build[x].rows))'
               /\ build'[x].pc \in InsertPcs => Holds(fed, {})'
    <3>1. x # b /\ Past(x) /\ build'[x] = build[x]
      BY <2>8, <2>6, <2>2 DEF Past
    <3>2. /\ Holds(build[x].rows, {}) /\ Holds(build[x].prev, Rows(build[x].rows))
          /\ build[x].pc \in InsertPcs => Holds(fed, {})
      BY <2>8, <3>1, <1>0 DEF MatchInv
    <3> QED
      BY <3>1, <3>2, <2>1 DEF Holds
  <2>9. ASSUME Unmended \cap MatchKinds = {}
        PROVE  Holds(fed, UNION {Rows(build[x].rows) : x \in {y \in Builds : Past(y)}})'
    <3>1. Holds(fed, {})
      BY <2>9, <2>3, <1>0 DEF MatchInv
    <3> QED
      BY <3>1, <2>1 DEF Holds
  <2> QED
    BY <2>5, <2>7, <2>8, <2>9 DEF MatchInv
<1>18. ASSUME NEW b \in Builds, LetGo(b) PROVE HasVertexInv' /\ MatchInv'
  <2>1. /\ UNCHANGED <<vtx, fed, damage, healing>>
        /\ \A x \in Builds \ {b} : build'[x] = build[x]
        /\ build'[b].pc \in {"completed", "stuck"} /\ build[b].pc = "snapshot"
        /\ \A x \in Builds : Past(x)' <=> Past(x)
    BY <1>18, <1>0, LetGoIs
  <2>2. ~Past(b)
    BY <2>1, PastRuns
  <2> QED
    BY <2>1, <2>2, <1>0, NeutralMarks DEF Neutral
<1>14. ASSUME NEW w \in Workers, Crash(w) PROVE HasVertexInv' /\ MatchInv'
  <2> DEFINE mine == {b \in Builds : build[b].w = w /\ build[b].pc \notin {"none"} \cup Ended}
  <2>1. \A x \in Builds : (x \in mine => build'[x].pc = "gone") /\ (x \notin mine => build'[x] = build[x])
    <3>1. SUFFICES ASSUME NEW x \in Builds
                   PROVE  (x \in mine => build'[x].pc = "gone") /\ (x \notin mine => build'[x] = build[x])
      OBVIOUS
    <3>2. build'[x] = IF x \in mine THEN [Idle EXCEPT !.pc = "gone"] ELSE build[x]
      BY <1>14 DEF Crash
    <3> QED
      BY <3>2 DEF Idle
  <2>2. fed' = fed
    BY <1>14 DEF Crash
  <2>3. CASE \E b \in mine : Running(b)
    <3>1. PICK b \in mine : PartWritten(b) /\ Damaged(Cut(b))
      BY <1>14, <2>3 DEF Crash
    <3>2. damage \subseteq damage' /\ healing' = {} /\ "cut" \in damage'
      BY <3>1, CutKinds DEF Damaged
    <3>3. Rows(vtx) \subseteq Rows(vtx')
      BY <3>1, <1>0, PartVertices
    <3>4. MatchInv'
      BY <3>2, CutVoidsMatch DEF MatchKinds
    <3> QED
      BY <2>1, <2>2, <3>2, <3>3, <3>4, <1>0, VerticesGrow
         DEF PastPcs, DatasetPcs, MapPcs, InsertPcs
  <2>4. CASE ~\E b \in mine : Running(b)
    <3>1. UNCHANGED <<vtx, damage, healing>>
      BY <1>14, <2>4 DEF Crash, graphVars
    <3>2. ASSUME NEW x \in mine PROVE ~Past(x) /\ ~Past(x)'
      BY <2>1, <2>4, PastRuns, PastRunsNext DEF Ended
    <3> QED
      BY <3>1, <3>2, <2>1, <2>2, <1>0, NeutralMarks DEF Neutral, Past
  <2> QED
    BY <2>3, <2>4
<1>15. ASSUME ClearGraph PROVE HasVertexInv' /\ MatchInv'
  <2>1. healing' = {} /\ "cleared" \in damage'
    BY <1>15 DEF ClearGraph, Damaged
  <2>2. MatchInv'
    BY <2>1, CutVoidsMatch DEF MatchKinds
  <2> QED
    BY <2>1, <2>2 DEF HasVertexInv, Unmended
<1>16.
      \/ UNCHANGED <<vtx, fed, build>> /\ damage \subseteq damage' /\ healing' \subseteq healing
      \/ \E b \in Builds : BuildStep(b) \/ BuildFault(b)
      \/ \E w \in Workers, i \in BOOLEAN : KgBuild(w, i)
      \/ \E w \in Workers : Crash(w)
      \/ ClearGraph
  <2>1. ASSUME NEW z \in zombies, ZombieDump(z)
        PROVE  UNCHANGED <<vtx, fed, build>> /\ damage \subseteq damage' /\ healing' \subseteq healing
    BY <2>1 DEF ZombieDump, RacedUnless, Damaged, graphVars
  <2>2. ASSUME NEW w \in Workers, NEW v \in DOMAIN dirs, RollbackStart(w, v)
        PROVE  UNCHANGED <<vtx, fed, build>> /\ damage \subseteq damage' /\ healing' \subseteq healing
    BY <2>2 DEF RollbackStart, Damaged, graphVars, diskVars
  <2>3. ASSUME NEW w \in Workers, NEW j \in PruneKeeps, PruneOp(w, j)
        PROVE  UNCHANGED <<vtx, fed, build>> /\ damage \subseteq damage' /\ healing' \subseteq healing
    BY <2>3 DEF PruneOp, Damaged, graphVars, diskVars
  <2>4. ASSUME OpStep
        PROVE  UNCHANGED <<vtx, fed, build>> /\ damage \subseteq damage' /\ healing' \subseteq healing
    BY <2>4 DEF OpStep, RollbackList, RollbackRestore, PruneOpList, Damaged, graphVars, diskVars,
       ghostVars
  <2>5. ASSUME NEW c \in Chunks, NEW t \in Texts \cup {NoText}, EditTable(c, t)
        PROVE  UNCHANGED <<vtx, fed, build>> /\ damage \subseteq damage' /\ healing' \subseteq healing
    BY <2>5 DEF EditTable, graphVars, diskVars, ghostVars
  <2>6. ASSUME Done
        PROVE  UNCHANGED <<vtx, fed, build>> /\ damage \subseteq damage' /\ healing' \subseteq healing
    BY <2>6 DEF Done, vars, graphVars, diskVars, ghostVars
  <2> QED
    BY <2>1, <2>2, <2>3, <2>4, <2>5, <2>6 DEF Next
<1>17. ASSUME NEW b \in Builds, BuildStep(b) \/ BuildFault(b) PROVE HasVertexInv' /\ MatchInv'
  <2>1.
        \/ Unmarking(b) \/ AcquireLock(b) \/ AddVertices(b) \/ LoadKA(b)
        \/ WriteSidecar(b) \/ MarkMapped(b) \/ SidecarWriteFails(b)
        \/ GraphGone(b) \/ BuildFails(b) \/ TimeoutBuild(b)
        \/ FinishBuild(b) \/ LetGo(b)
    BY <1>17 DEF BuildStep, BuildFault, Unmarking, LetGo
  <2> QED
    BY <2>1, <1>1, <1>4, <1>5, <1>6, <1>7, <1>8, <1>9, <1>10, <1>11, <1>12, <1>13,
       <1>18
<1> QED
  BY <1>16, <1>17, <1>2, <1>3, <1>14, <1>15

\* Who writes alone goes on doing so, or the ghost of the archived dump is dropped.
LEMMA ExclusiveStep ==
    ASSUME BaseTypes, ListedExist, ControlInv, Next, Exclusive, before' # NoDump
    PROVE  Exclusive'
<1>0. /\ build \in [Builds -> BuildStates] /\ \A x \in Builds : Shape(x) /\ BaseTypes
      /\ Exclusive
  BY DEF BaseTypes, ControlInv
<1>1. ASSUME NEW b \in Builds, InnerStep(b) PROVE Exclusive'
  <2>1. Inner(b)
    BY <1>1, <1>0, InnerIs
  <2>2. \A x \in Builds : Running(x)' => Running(x)
    BY <2>1, PastRuns DEF Inner, Running
  <2> QED
    BY <2>1, <2>2, <1>0, FewerWriters DEF Inner
<1>2. ASSUME NEW b \in Builds, AcquireLock(b) PROVE Exclusive'
  <2>1. /\ build[b].pc = "queued" /\ Goto(b, "vertices") /\ UNCHANGED <<op, zombies>>
        /\ Alone(b)
    BY <1>2 DEF AcquireLock, RacedUnless
  <2>2. \A x \in Builds \ {b} : build'[x] = build[x]
    BY <2>1, <1>0, GotoFields
  <2>3. Alone(b)'
    BY <2>1, <2>2 DEF Alone, Running
  <2> QED
    BY <2>3, OneWriter
<1>3. ASSUME NEW b \in Builds, AddVertices(b) PROVE Exclusive'
  <2>1. build[b].pc = "vertices" /\ UNCHANGED <<op, zombies>>
    BY <1>3 DEF AddVertices
  <2>2. \A x \in Builds \ {b} : build'[x] = build[x]
    <3>1. CASE Rows(build[b].rows) = {}
      <4>1. End(b, "completed")
        BY <1>3, <3>1 DEF AddVertices
      <4> QED
        BY <4>1, <1>0, EndFields
    <3>2. CASE Rows(build[b].rows) # {}
      BY <3>2, <1>3, <1>0, AddVerticesFields
    <3> QED
      BY <3>1, <3>2
  <2>3. \A x \in Builds : Running(x)' => Running(x)
    BY <2>1, <2>2, PastRuns DEF Running
  <2> QED
    BY <2>1, <2>3, <1>0, FewerWriters
<1>4. ASSUME NEW b \in Builds, NEW st \in Ended, End(b, st), UNCHANGED <<op, zombies>>
      PROVE  Exclusive'
  <2>1. build'[b].pc = st /\ \A x \in Builds \ {b} : build'[x] = build[x]
    BY <1>4, <1>0, EndFields
  <2>2. \A x \in Builds : Running(x)' => Running(x)
    BY <2>1 DEF Running
  <2> QED
    BY <1>4, <2>2, <1>0, FewerWriters
<1>5. ASSUME NEW b \in Builds, TimeoutBuild(b) PROVE Exclusive'
  <2>1. End(b, "failed") /\ UNCHANGED op /\ build[b].pc \in Awaiting
    BY <1>5 DEF TimeoutBuild
  <2>2. build'[b].pc = "failed" /\ \A x \in Builds \ {b} : build'[x] = build[x]
    BY <2>1, <1>0, EndFields
  <2>3. Running(b)
    BY <2>1 DEF Awaiting, Running, Ended
  <2>4. op.pc = "idle" /\ \A x \in Builds \ {b} : ~Running(x)
    BY <1>0, <2>3 DEF Exclusive, Alone
  <2>5. op'.pc = "idle" /\ \A x \in Builds : ~Running(x)'
    BY <2>4, <2>1, <2>2 DEF Running, Ended
  <2> QED
    BY <2>5 DEF Exclusive
<1>6. ASSUME NEW w \in Workers, Crash(w) PROVE Exclusive'
  <2>1. \A x \in Builds : build'[x] = build[x] \/ build'[x].pc = "gone"
    BY <1>6, <1>0, CrashFields
  <2>2. \A x \in Builds : Running(x)' => Running(x)
    BY <2>1 DEF Running, Ended
  <2>3. op' \in {op, NoOp} /\ zombies' \subseteq zombies
    BY <1>6 DEF Crash
  <2> QED
    BY <2>2, <2>3, <1>0, FewerWriters DEF NoOp
<1>7. ASSUME build' = build, op'.pc # "idle" => op.pc # "idle", zombies' \subseteq zombies
      PROVE  Exclusive'
  <2>1. \A x \in Builds : Running(x)' => Running(x)
    BY <1>7 DEF Running
  <2> QED
    BY <1>7, <2>1, <1>0, FewerWriters
<1>8. ASSUME NoWriter, UNCHANGED <<build, zombies>> PROVE Exclusive'
  BY <1>8 DEF Exclusive, NoWriter, Quiet, Running
<1>9. ASSUME NEW w \in Workers, NEW i \in BOOLEAN, KgBuild(w, i) PROVE Exclusive'
  <2>1. UNCHANGED <<op, zombies>>
    BY <1>9 DEF KgBuild
  <2>2. PICK b \in Builds : /\ build[b].pc = "none"
                            /\ Becomes(b, [Idle EXCEPT !.pc = "queued", !.w = w,
                                           !.incremental = i, !.rows = table])
    BY <1>9 DEF KgBuild
  <2>3. build'[b].pc = "queued" /\ \A x \in Builds \ {b} : build'[x] = build[x]
    BY <2>2, <1>0, QueueFields
  <2>4. \A x \in Builds : Running(x)' => Running(x)
    BY <2>3 DEF Running
  <2> QED
    BY <2>1, <2>4, <1>0, FewerWriters
<1>10.
      \/ build' = build /\ (op'.pc # "idle" => op.pc # "idle") /\ zombies' \subseteq zombies
      \/ NoWriter /\ UNCHANGED <<build, zombies>>
      \/ \E b \in Builds : BuildStep(b) \/ BuildFault(b)
      \/ \E w \in Workers, i \in BOOLEAN : KgBuild(w, i)
      \/ \E w \in Workers : Crash(w)
  <2>1. ASSUME NEW z \in zombies, ZombieDump(z) PROVE FALSE
    BY <2>1 DEF ZombieDump, RacedUnless
  <2>2. ASSUME NEW w \in Workers, NEW v \in DOMAIN dirs, RollbackStart(w, v)
        PROVE  NoWriter /\ UNCHANGED <<build, zombies>>
    BY <2>2 DEF RollbackStart
  <2>3. ASSUME NEW w \in Workers, NEW j \in PruneKeeps, PruneOp(w, j)
        PROVE  NoWriter /\ UNCHANGED <<build, zombies>>
    BY <2>3 DEF PruneOp
  <2>4. ASSUME OpStep
        PROVE  build' = build /\ (op'.pc # "idle" => op.pc # "idle") /\ zombies' \subseteq zombies
    BY <2>4 DEF OpStep, RollbackList, RollbackRestore, PruneOpList, NoOp
  <2>5. ASSUME NEW c \in Chunks, NEW t \in Texts \cup {NoText}, EditTable(c, t)
        PROVE  UNCHANGED <<build, op, zombies>>
    BY <2>5 DEF EditTable
  <2>6. ASSUME Done \/ ClearGraph
        PROVE  UNCHANGED <<build, op, zombies>>
    BY <2>6 DEF Done, vars, ClearGraph
  <2> QED
    BY <2>1, <2>2, <2>3, <2>4, <2>5, <2>6 DEF Next
<1>11. ASSUME NEW b \in Builds, BuildStep(b) \/ BuildFault(b) PROVE Exclusive'
  <2>1.
        \/ InnerStep(b) \/ AcquireLock(b) \/ AddVertices(b) \/ TimeoutBuild(b)
        \/ GraphGone(b) \/ BuildFails(b)
        \/ FinishBuild(b) \/ LetGo(b)
    BY <1>11 DEF BuildStep, BuildFault, InnerStep, LetGo
  <2>2. ASSUME GraphGone(b) \/ BuildFails(b)
        PROVE  End(b, "failed") /\ UNCHANGED <<op, zombies>>
    BY <2>2 DEF GraphGone, BuildFails
  <2>3. ASSUME FinishBuild(b) PROVE Exclusive'
    <3>1. UNCHANGED <<op, zombies>>
      BY <2>3 DEF FinishBuild
    <3>2. build'[b].pc = "snapshot" /\ \A x \in Builds \ {b} : build'[x] = build[x]
      BY <2>3, <1>0, SnapFields
    <3>3. \A x \in Builds : Running(x)' => Running(x)
      BY <3>2 DEF Running
    <3> QED
      BY <3>1, <3>3, <1>0, FewerWriters
  <2>4. ASSUME LetGo(b) PROVE Exclusive'
    <3>1. UNCHANGED <<op, zombies>> /\ \A x \in Builds : Running(x)' => Running(x)
      BY <2>4, <1>0, LetGoIs
    <3> QED
      BY <3>1, <1>0, FewerWriters
  <2> QED
    BY <2>1, <2>2, <2>3, <2>4, <1>1, <1>2, <1>3, <1>4, <1>5 DEF Ended
<1> QED
  BY <1>10, <1>11, <1>6, <1>7, <1>8, <1>9

\* Who runs where writers are exclusive is the only one.
LEMMA OnlyWriter ==
    ASSUME Exclusive
    PROVE  /\ \A b \in Builds : Running(b) =>
                  op.pc = "idle" /\ zombies = {} /\ \A x \in Builds \ {b} : ~Running(x)
           /\ op.pc # "idle" \/ zombies # {} => \A x \in Builds : ~Running(x)
           /\ op.pc # "idle" => zombies = {}
  BY DEF Exclusive, Alone

\* Nothing is asked of a build that neither archives nor feeds.
LEMMA KeptFree ==
    ASSUME NEW x \in Builds,
           build'[x].pc \notin {"list", "prune", "trim", "load", "feed"}
    PROVE  KeptAt(build[x])'
  BY DEF KeptAt

\* A build that does not run claims nothing of the dump.
LEMMA KeptRests ==
    ASSUME NEW x \in Builds, ~Running(x), build'[x] = build[x]
    PROVE  KeptAt(build[x])'
<1>1. build'[x].pc \notin {"list", "prune", "trim", "load", "feed"}
  BY DEF Running, Ended
<1> QED
  BY <1>1, KeptFree

\* Where no file changes, only the states of the builds matter.
LEMMA KeptStays ==
    ASSUME KeptInv, UNCHANGED <<data, dirs, manifest, op, zombies, before>>,
           before' # NoDump => Exclusive',
           \A x \in Builds : \/ build'[x] = build[x]
                             \/ build'[x].pc \notin {"list", "prune", "trim", "load", "feed"}
                             \/ build'[x].pc = "feed" /\ build[x].pc \in {"load", "feed"}
    PROVE  KeptInv'
<1>1. ASSUME before # NoDump, NEW x \in Builds PROVE KeptAt(build[x])'
  <2>1. KeptAt(build[x])
    BY <1>1 DEF KeptInv
  <2>2. CASE build'[x] = build[x]
    BY <2>1, <2>2 DEF KeptAt, LastIs
  <2>3. CASE build'[x].pc \notin {"list", "prune", "trim", "load", "feed"}
    BY <2>3, KeptFree
  <2>4. CASE build'[x].pc = "feed" /\ build[x].pc \in {"load", "feed"}
    BY <2>1, <2>4 DEF KeptAt, LastIs
  <2> QED
    BY <2>2, <2>3, <2>4
<1> QED
  BY <1>1 DEF KeptInv, LastIs

\* A build that writes alone: only it, the dump and the manifest are left to look at.
LEMMA KeptAlone ==
    ASSUME NEW b \in Builds, Exclusive, Exclusive', Running(b), UNCHANGED <<op, zombies>>,
           \A x \in Builds \ {b} : build'[x] = build[x],
           data' # NoDump \/ before' = NoDump,
           before' = data' \/ LastIs(manifest, before)', KeptAt(build[b])'
    PROVE  KeptInv'
<1>1. /\ op'.pc = "idle" /\ zombies' = {} /\ \A x \in Builds \ {b} : ~Running(x)
  BY OnlyWriter
<1>2. \A x \in Builds : KeptAt(build[x])'
  BY <1>1, KeptRests
<1> QED
  BY <1>1, <1>2 DEF KeptInv

\* An endpoint that writes alone.
LEMMA KeptNobody ==
    ASSUME Exclusive', \A x \in Builds : ~Running(x), build' = build, zombies' = {},
           data' # NoDump \/ before' = NoDump,
           before' = data' \/ LastIs(manifest, before)',
           op'.pc = "list" => before' = data' /\ op'.v \in DOMAIN dirs' /\ dirs'[op'.v] = before',
           op'.pc = "restore" => LastIs(manifest, before)',
           op'.pc = "trim" => before' = data' \/ LastIs(op.seen, before)'
    PROVE  KeptInv'
<1>1. \A x \in Builds : KeptAt(build[x])'
  BY KeptRests
<1> QED
  BY <1>1 DEF KeptInv

\* Without a dump to keep there is nothing to show.
LEMMA KeptVoid ==
    ASSUME before' = NoDump
    PROVE  KeptInv'
  BY DEF KeptInv

\* The newest version stays the newest when older ones are removed.
LEMMA NewestKept ==
    ASSUME manifest \in Seq(Nat), dirs \in Seq(Files), NEW n \in Nat, NEW kept, NEW dump,
           kept = manifest \/ (n > 0 /\ kept = Newest(manifest, n)),
           dirs' = Without(kept), manifest' = manifest, LastIs(manifest, dump)
    PROVE  /\ LastIs(manifest, dump)'
           /\ kept # <<>> /\ kept[Len(kept)] \in DOMAIN dirs' /\ dirs'[kept[Len(kept)]] = dump
<1> DEFINE l == manifest[Len(manifest)]
<1>1. manifest # <<>> /\ l \in DOMAIN dirs /\ dirs[l] = dump
  BY DEF LastIs
<1>2. kept \in Seq(Nat) /\ kept # <<>> /\ kept[Len(kept)] = l
  BY <1>1, NewestIs
<1>3. l \in ToSet(kept)
  BY <1>2 DEF ToSet
<1>4. DOMAIN dirs' = DOMAIN dirs /\ dirs'[l] = dirs[l]
  BY <1>1, <1>3, WithoutIs
<1> QED
  BY <1>1, <1>2, <1>4 DEF LastIs

\* Every action keeps the dump that was archived last.
LEMMA KeptStep ==
    ASSUME BaseTypes, BaseTypes', ListedExist, ControlInv, KeptInv, Next
    PROVE  KeptInv'
<1>0. /\ build \in [Builds -> BuildStates] /\ \A x \in Builds : Shape(x) /\ BaseTypes
      /\ data \in Files /\ dirs \in Seq(Files) /\ manifest \in Seq(Nat) /\ KeptInv
      /\ op \in OpStates /\ zombies \subseteq [w : Workers, ka : SUBSET Names]
  BY DEF BaseTypes, ControlInv
<1>e. before # NoDump /\ before' # NoDump => Exclusive /\ Exclusive'
  BY ExclusiveStep DEF KeptInv
<1>n. \A S \in SUBSET Names : S # NoDump
  BY BuildConstants
<1>1. ASSUME NEW b \in Builds, NEW p, Goto(b, p), p \notin {"list", "prune", "trim", "load",
             "feed"}, UNCHANGED <<data, dirs, manifest, op, zombies, before>>
      PROVE  KeptInv'
  <2>1. build'[b].pc = p /\ \A x \in Builds \ {b} : build'[x] = build[x]
    BY <1>1, <1>0, GotoFields
  <2> QED
    BY <1>1, <2>1, <1>0, <1>e, KeptStays
<1>2. ASSUME NEW b \in Builds, NEW st \in Ended, End(b, st), UNCHANGED <<data, dirs, manifest,
             op, zombies, before>>
      PROVE  KeptInv'
  <2>1. build'[b].pc = st /\ \A x \in Builds \ {b} : build'[x] = build[x]
    BY <1>2, <1>0, EndFields
  <2> QED
    BY <1>2, <2>1, <1>0, <1>e, KeptStays DEF Ended
<1>3. ASSUME UNCHANGED build, UNCHANGED <<data, dirs, manifest, op, zombies, before>>
      PROVE  KeptInv'
  BY <1>3, <1>0, <1>e, KeptStays
<1>4. ASSUME NEW b \in Builds, AcquireLock(b) PROVE KeptInv'
  <2>1. /\ Goto(b, "vertices") /\ before' = (IF Alone(b) THEN before ELSE NoDump)
        /\ UNCHANGED <<data, dirs, manifest, op, zombies>>
    BY <1>4 DEF AcquireLock, RacedUnless, diskVars, versionVars
  <2> QED
    BY <2>1, <1>1, KeptVoid
<1>5. ASSUME NEW w \in Workers, NEW i \in BOOLEAN, KgBuild(w, i) PROVE KeptInv'
  <2>1. UNCHANGED <<data, dirs, manifest, op, zombies, before>>
    BY <1>5 DEF KgBuild, diskVars, versionVars, ghostVars
  <2>2. PICK b \in Builds : Becomes(b, [Idle EXCEPT !.pc = "queued", !.w = w,
                                        !.incremental = i, !.rows = table])
    BY <1>5 DEF KgBuild
  <2>3. build'[b].pc = "queued" /\ \A x \in Builds \ {b} : build'[x] = build[x]
    BY <2>2, <1>0, QueueFields
  <2> QED
    BY <2>1, <2>3, <1>0, <1>e, KeptStays
<1>6. ASSUME NEW b \in Builds, AddVertices(b) PROVE KeptInv'
  <2>1. UNCHANGED <<data, dirs, manifest, op, zombies, before>>
    BY <1>6 DEF AddVertices, diskVars, versionVars
  <2>2. CASE Rows(build[b].rows) = {}
    <3>1. End(b, "completed")
      BY <1>6, <2>2 DEF AddVertices
    <3> QED
      BY <3>1, <2>1, <1>2 DEF Ended
  <2>3. CASE Rows(build[b].rows) # {}
    <3>1. /\ build'[b].pc \in {"map", "archive"}
          /\ \A x \in Builds \ {b} : build'[x] = build[x]
      BY <2>3, <1>6, <1>0, AddVerticesFields
    <3> QED
      BY <3>1, <2>1, <1>0, <1>e, KeptStays
  <2> QED
    BY <2>2, <2>3
<1>7. ASSUME NEW b \in Builds, ArchiveCopy(b) PROVE KeptInv'
  <2>1. UNCHANGED <<data, manifest, op, zombies>> /\ build[b].pc = "archive"
    BY <1>7 DEF ArchiveCopy, diskVars
  <2>2. CASE data = NoDump
    <3>1. before = NoDump /\ before' = before
      BY <1>7, <2>2, <1>0 DEF ArchiveCopy, KeptInv
    <3> QED
      BY <3>1, KeptVoid
  <2>3. CASE data # NoDump /\ ~Alone(b)
    <3>1. before' = NoDump
      BY <1>7, <2>3 DEF ArchiveCopy
    <3> QED
      BY <3>1, KeptVoid
  <2>4. CASE data # NoDump /\ Alone(b)
    <3>1. dirs' = Append(dirs, data) /\ before' = data
      BY <1>7, <2>4 DEF ArchiveCopy
    <3>2. /\ \A x \in Builds \ {b} : build'[x] = build[x]
          /\ build'[b].pc = "list" /\ build'[b].v = Len(dirs) + 1
      BY <2>4, <1>7, <1>0, ArchiveCopyFields
    <3>3. Alone(b)'
      BY <2>1, <2>4, <3>2 DEF Alone, Running
    <3>4. Exclusive'
      BY <3>3, OneWriter
    <3>5. Len(dirs) + 1 \in DOMAIN dirs' /\ dirs'[Len(dirs) + 1] = data
      <4>1. /\ DOMAIN Append(dirs, data) = 1 .. Len(dirs) + 1
            /\ Append(dirs, data)[Len(dirs) + 1] = data
        BY <1>0, AppendIs
      <4>2. Len(dirs) \in Nat
        BY <1>0
      <4> QED
        BY <4>1, <4>2, <3>1
    <3>6. KeptAt(build[b])'
      BY <3>1, <3>2, <3>5, <2>1 DEF KeptAt
    <3>7. op'.pc = "idle" /\ zombies' = {} /\ \A x \in Builds \ {b} : ~Running(x)
      BY <2>1, <2>4 DEF Alone
    <3>8. \A x \in Builds : KeptAt(build[x])'
      BY <3>2, <3>6, <3>7, KeptRests
    <3> QED
      BY <3>1, <3>4, <3>7, <3>8, <2>1, <2>4 DEF KeptInv
  <2> QED
    BY <2>2, <2>3, <2>4
<1>8. ASSUME NEW b \in Builds, ArchiveList(b) PROVE KeptInv'
  <2>1. /\ build[b].pc = "list"
        /\ manifest' = Append(build[b].seen, build[b].v) /\ UNCHANGED <<before, op, zombies>>
    BY <1>8 DEF ArchiveList, diskVars, versionVars, ghostVars
  <2>2. CASE before = NoDump
    BY <2>1, <2>2, KeptVoid
  <2>3. CASE before # NoDump
    <3>1. Exclusive /\ Exclusive' /\ KeptAt(build[b]) /\ data # NoDump
      BY <2>1, <2>3, <1>0, <1>e DEF KeptInv
    <3>2. Running(b)
      BY <2>1 DEF Running, Ended
    <3>3. /\ \A x \in Builds \ {b} : build'[x] = build[x]
          /\ build'[b].pc = "prune"
      BY <1>8, <1>0, ArchiveListFields
    <3>4. (before' = data' \/ LastIs(manifest, before)') /\ KeptAt(build[b])' /\ data' # NoDump
      <4>1. before = data /\ build[b].v \in DOMAIN dirs /\ dirs[build[b].v] = before
        BY <2>1, <3>1 DEF KeptAt
      <4>2. build[b].seen \in Seq(Nat) /\ build[b].v \in Nat
        BY <1>0, ZenonT(30) DEF BuildStates
      <4>3. manifest' # <<>> /\ manifest'[Len(manifest')] = build[b].v
        BY <4>2, <2>1, AppendIs
      <4>4. UNCHANGED <<data, dirs>>
        BY <1>8 DEF ArchiveList, diskVars
      <4>5. LastIs(manifest, before)'
        BY <4>1, <4>3, <4>4, <2>1 DEF LastIs
      <4> QED
        BY <4>1, <4>4, <4>5, <3>1, <3>3, <2>1 DEF KeptAt
    <3> QED
      BY <2>1, <3>1, <3>2, <3>3, <3>4, KeptAlone
  <2> QED
    BY <2>2, <2>3
<1>9. ASSUME NEW b \in Builds, VersioningFails(b) PROVE KeptInv'
  <2>1. CASE before' = NoDump
    BY <2>1, KeptVoid
  <2>2. CASE before' # NoDump
    <3>1. /\ build[b].pc = "trim" /\ before' = before
          /\ UNCHANGED <<data, dirs, manifest, op, zombies>>
      BY <1>9, <2>2 DEF VersioningFails, diskVars
    <3>2. Exclusive /\ Exclusive' /\ KeptAt(build[b]) /\ data # NoDump
      BY <2>2, <3>1, <1>0, <1>e DEF KeptInv
    <3>3. Running(b)
      BY <3>1 DEF Running, Ended
    <3>4. (\A x \in Builds \ {b} : build'[x] = build[x]) /\ build'[b].pc = "load"
      BY <1>9, <1>0, VersioningFailsFields
    <3>5. (before' = data' \/ LastIs(manifest, before)') /\ KeptAt(build[b])'
      BY <3>1, <3>2, <3>4 DEF KeptAt, LastIs
    <3> QED
      BY <3>1, <3>2, <3>3, <3>4, <3>5, KeptAlone
  <2> QED
    BY <2>1, <2>2
<1>10. ASSUME NEW b \in Builds, PruneDirs(b) PROVE KeptInv'
  <2>1. build[b].pc = "prune" /\ UNCHANGED <<before, op, zombies>>
    BY <1>10 DEF PruneDirs, diskVars, versionVars, ghostVars
  <2>2. CASE before = NoDump
    BY <2>1, <2>2, KeptVoid
  <2>3. CASE before # NoDump
    <3>1. Exclusive /\ Exclusive' /\ KeptAt(build[b]) /\ data # NoDump
      BY <2>1, <2>3, <1>0, <1>e DEF KeptInv
    <3>2. Running(b)
      BY <2>1 DEF Running, Ended
    <3>3. /\ \A x \in Builds \ {b} : build'[x] = build[x]
          /\ build'[b].pc \in {"load", "trim"}
          /\ build'[b].seen = (IF KeepVersions = 0 THEN manifest ELSE Newest(manifest, KeepVersions))
      BY <1>10, <1>0, PruneDirsFields
    <3>4. (before' = data' \/ LastIs(manifest, before)') /\ KeptAt(build[b])' /\ data' # NoDump
      <4> DEFINE kept == IF KeepVersions = 0 THEN manifest ELSE Newest(manifest, KeepVersions)
      <4>1. before = data /\ LastIs(manifest, before)
        BY <2>1, <3>1 DEF KeptAt
      <4>2. UNCHANGED <<data, manifest>> /\ dirs' = Without(kept)
        BY <1>10 DEF PruneDirs, diskVars
      <4>3. KeepVersions \in Nat /\ (kept = manifest \/ (KeepVersions > 0 /\ kept = Newest(manifest, KeepVersions)))
        BY BuildConstants
      <4> HIDE DEF kept
      <4>4. /\ LastIs(manifest, before)'
            /\ kept # <<>> /\ kept[Len(kept)] \in DOMAIN dirs' /\ dirs'[kept[Len(kept)]] = before
        BY <4>1, <4>2, <4>3, <2>1, <1>0, NewestKept
      <4>5. build'[b].seen = kept
        BY <3>3 DEF kept
      <4> QED
        BY <4>1, <4>2, <4>4, <4>5, <3>1, <3>3, <2>1 DEF KeptAt, LastIs
    <3> QED
      BY <2>1, <3>1, <3>2, <3>3, <3>4, KeptAlone
  <2> QED
    BY <2>2, <2>3
<1>11. ASSUME NEW b \in Builds, PruneList(b) PROVE KeptInv'
  <2>1. build[b].pc = "trim" /\ manifest' = build[b].seen /\ UNCHANGED <<before, op, zombies>>
    BY <1>11 DEF PruneList, diskVars, versionVars, ghostVars
  <2>2. CASE before = NoDump
    BY <2>1, <2>2, KeptVoid
  <2>3. CASE before # NoDump
    <3>1. Exclusive /\ Exclusive' /\ KeptAt(build[b]) /\ data # NoDump
      BY <2>1, <2>3, <1>0, <1>e DEF KeptInv
    <3>2. Running(b)
      BY <2>1 DEF Running, Ended
    <3>3. (\A x \in Builds \ {b} : build'[x] = build[x]) /\ build'[b].pc = "load"
      BY <1>11, <1>0, PruneListFields
    <3>4. (before' = data' \/ LastIs(manifest, before)') /\ KeptAt(build[b])' /\ data' # NoDump
      <4>1. LastIs(build[b].seen, before) /\ UNCHANGED <<data, dirs>>
        BY <1>11, <2>1, <3>1 DEF KeptAt, PruneList, diskVars
      <4>2. LastIs(manifest, before)'
        BY <4>1, <2>1 DEF LastIs
      <4> QED
        BY <4>1, <4>2, <3>1, <3>3 DEF KeptAt
    <3> QED
      BY <2>1, <3>1, <3>2, <3>3, <3>4, KeptAlone
  <2> QED
    BY <2>2, <2>3
<1>12. ASSUME NEW b \in Builds, LoadKA(b) PROVE KeptInv'
  <2>1. UNCHANGED <<data, dirs, manifest, op, zombies, before>> /\ build[b].pc = "load"
    BY <1>12 DEF LoadKA, diskVars, versionVars, ghostVars
  <2>2. build'[b].pc = "feed" /\ \A x \in Builds \ {b} : build'[x] = build[x]
    <3>1. CASE Becomes(b, [build[b] EXCEPT !.pc = "feed", !.ka = data, !.todo = Unmarked(b),
                                           !.prev = fed])
      BY <3>1, <1>0, LoadFields
    <3>2. CASE Becomes(b, [build[b] EXCEPT !.pc = "feed", !.todo = Rows(build[b].rows)])
      BY <3>2, <1>0, FreshFields
    <3> QED
      BY <1>12, <3>1, <3>2 DEF LoadKA
  <2> QED
    BY <2>1, <2>2, <1>0, <1>e, KeptStays
<1>13. ASSUME NEW b \in Builds, FeedChunk(b) PROVE KeptInv'
  <2>1. build[b].pc = "feed" /\ UNCHANGED <<manifest, dirs>> /\ UNCHANGED <<before, op, zombies>>
    BY <1>13 DEF FeedChunk, diskVars, versionVars, ghostVars
  <2>2. CASE before = NoDump
    BY <2>1, <2>2, KeptVoid
  <2>3. CASE before # NoDump
    <3>1. Exclusive /\ Exclusive' /\ KeptAt(build[b]) /\ data # NoDump
      BY <2>1, <2>3, <1>0, <1>e DEF KeptInv
    <3>2. Running(b)
      BY <2>1 DEF Running, Ended
    <3>3. (\A x \in Builds \ {b} : build'[x] = build[x]) /\ build'[b].pc = "feed"
      <4>1. build[b].pc = "feed" /\ build[b].todo # {}
        BY <1>13 DEF FeedChunk
      <4> QED
        BY <4>1, <1>13, <1>0, FeedChunkFields
    <3>4. (before' = data' \/ LastIs(manifest, before)') /\ KeptAt(build[b])' /\ data' # NoDump
      <4>1. LastIs(manifest, before)
        BY <2>1, <3>1 DEF KeptAt
      <4>2. LastIs(manifest, before)'
        BY <4>1, <2>1 DEF LastIs
      <4>3. data' # NoDump
        <5> DEFINE names == Yield[Min(build[b].todo)][build[b].rows[Min(build[b].todo)]]
        <5>1. build[b].todo # {} /\ (data' = data \/ data' = build[b].ka \cup names)
          BY <1>13 DEF FeedChunk
        <5>2. names \subseteq Names
          BY <5>1, <1>0, FedNames
        <5>3. build[b].ka \in SUBSET Names
          BY <1>0, ZenonT(30) DEF BuildStates
        <5> QED
          BY <5>1, <5>2, <5>3, <3>1, <1>n
      <4> QED
        BY <4>2, <4>3, <3>3 DEF KeptAt
    <3> QED
      BY <2>1, <3>1, <3>2, <3>3, <3>4, KeptAlone
  <2> QED
    BY <2>2, <2>3
<1>14. ASSUME NEW b \in Builds, FeedFails(b) PROVE KeptInv'
  <2>1. UNCHANGED <<data, dirs, manifest, op, zombies, before>> /\ build[b].pc = "feed"
    BY <1>14 DEF FeedFails, diskVars, versionVars
  <2>2. build'[b].pc = build[b].pc /\ \A x \in Builds \ {b} : build'[x] = build[x]
    BY <1>14, <1>0, FeedFailsFields
  <2> QED
    BY <2>1, <2>2, <1>0, <1>e, KeptStays
<1>15. ASSUME NEW b \in Builds, DumpKA(b) PROVE KeptInv'
  <2>1. build[b].pc = "feed" /\ UNCHANGED <<manifest, dirs>> /\ UNCHANGED <<before, op, zombies>>
    BY <1>15 DEF DumpKA, diskVars, versionVars, ghostVars
  <2>2. CASE before = NoDump
    BY <2>1, <2>2, KeptVoid
  <2>3. CASE before # NoDump
    <3>1. Exclusive /\ Exclusive' /\ KeptAt(build[b]) /\ data # NoDump
      BY <2>1, <2>3, <1>0, <1>e DEF KeptInv
    <3>2. Running(b)
      BY <2>1 DEF Running, Ended
    <3>3. (\A x \in Builds \ {b} : build'[x] = build[x]) /\ build'[b].pc = "sidecar"
      <4>1. Goto(b, "sidecar")
        BY <1>15 DEF DumpKA
      <4> QED
        BY <4>1, <1>0, GotoFields
    <3>4. (before' = data' \/ LastIs(manifest, before)') /\ KeptAt(build[b])' /\ data' # NoDump
      <4>1. LastIs(manifest, before)
        BY <2>1, <3>1 DEF KeptAt
      <4>2. LastIs(manifest, before)'
        BY <4>1, <2>1 DEF LastIs
      <4>3. data' # NoDump
        <5>1. data' = build[b].ka /\ build[b].ka \in SUBSET Names
          BY <1>15, <1>0 DEF DumpKA, BuildStates
        <5> QED
          BY <5>1, <1>n
      <4> QED
        BY <4>2, <4>3, <3>3 DEF KeptAt
    <3> QED
      BY <2>1, <3>1, <3>2, <3>3, <3>4, KeptAlone
  <2> QED
    BY <2>2, <2>3
<1>16. ASSUME NEW b \in Builds, WriteSidecar(b) PROVE KeptInv'
  <2>1. UNCHANGED <<data, dirs, manifest, op, zombies, before>>
    BY <1>16 DEF WriteSidecar, versionVars, ghostVars
  <2>2. /\ \A x \in Builds \ {b} : build'[x] = build[x]
        /\ build'[b].pc \in {"finish", "entities"}
    BY <1>16, <1>0, WriteSidecarFields
  <2> QED
    BY <2>1, <2>2, <1>0, <1>e, KeptStays
<1>17. ASSUME NEW b \in Builds, MapChunks(b) PROVE KeptInv'
  <2>1. UNCHANGED <<data, dirs, manifest, op, zombies, before>>
    BY <1>17 DEF MapChunks, diskVars, versionVars
  <2>2. PICK got : Becomes(b, [build[b] EXCEPT !.pc = "checkpoint", !.ka = NamesIn(got),
                                                !.owned = got])
    BY <1>17 DEF MapChunks
  <2>3. (\A x \in Builds \ {b} : build'[x] = build[x]) /\ build'[b].pc = "checkpoint"
    BY <2>2, <1>0, MapFields
  <2> QED
    BY <2>1, <2>3, <1>0, <1>e, KeptStays
<1>18. ASSUME NEW b \in Builds, TimeoutBuild(b) PROVE KeptInv'
  <2>1. /\ End(b, "failed") /\ UNCHANGED <<op, data, dirs, manifest, before>>
        /\ build[b].pc \in Awaiting
    BY <1>18 DEF TimeoutBuild, diskVars, versionVars
  <2>2. CASE before = NoDump
    BY <2>1, <2>2, KeptVoid
  <2>3. CASE before # NoDump
    <3>1. /\ Exclusive /\ Exclusive' /\ KeptAt(build[b]) /\ data # NoDump
          /\ before = data \/ LastIs(manifest, before)
      BY <2>1, <2>3, <1>0, <1>e DEF KeptInv
    <3>2. Running(b)
      BY <2>1 DEF Awaiting, Running, Ended
    <3>3. op'.pc = "idle" /\ zombies = {} /\ \A x \in Builds \ {b} : ~Running(x)
      BY <3>1, <3>2, <2>1, OnlyWriter
    <3>4. build'[b].pc = "failed" /\ \A x \in Builds \ {b} : build'[x] = build[x]
      BY <2>1, <1>0, EndFields
    <3>5. \A x \in Builds : KeptAt(build[x])'
      BY <3>3, <3>4, KeptRests, KeptFree
    <3>6. LastIs(manifest, before) => LastIs(manifest, before)'
      BY <2>1 DEF LastIs
    <3>7. zombies' # {} => build[b].pc = "feed"
      BY <1>18, <3>3 DEF TimeoutBuild
    <3>8. zombies' # {} => LastIs(manifest, before)'
      BY <3>1, <3>6, <3>7 DEF KeptAt
    <3> QED
      BY <3>1, <3>3, <3>5, <3>6, <3>8, <2>1 DEF KeptInv
  <2> QED
    BY <2>2, <2>3
<1>19. ASSUME NEW z \in zombies, ZombieDump(z) PROVE KeptInv'
  BY <1>19, KeptVoid DEF ZombieDump, RacedUnless
<1>20. ASSUME NEW w \in Workers, NEW v \in DOMAIN dirs, RollbackStart(w, v) PROVE KeptInv'
  <2>1. CASE ~NoWriter \/ data = NoDump
    <3>1. before' = NoDump
      BY <1>20, <2>1 DEF RollbackStart
    <3> QED
      BY <3>1, KeptVoid
  <2>2. CASE NoWriter /\ data # NoDump
    <3>1. /\ dirs' = Append(dirs, data) /\ op'.pc = "list" /\ op'.v = Len(dirs')
          /\ before' = data /\ UNCHANGED <<build, zombies, data>>
      BY <1>20, <2>2 DEF RollbackStart, diskVars
    <3>2. zombies = {} /\ \A x \in Builds : ~Running(x)
      BY <2>2 DEF NoWriter, Quiet
    <3>3. Exclusive'
      BY <3>1, <3>2 DEF Exclusive, Running
    <3>4. Len(dirs') \in DOMAIN dirs' /\ dirs'[Len(dirs')] = data
      <4>1. /\ DOMAIN Append(dirs, data) = 1 .. Len(dirs) + 1
            /\ Append(dirs, data)[Len(dirs) + 1] = data
            /\ Len(Append(dirs, data)) = Len(dirs) + 1
        BY <1>0, AppendIs
      <4>2. Len(dirs) \in Nat
        BY <1>0
      <4> QED
        BY <4>1, <4>2, <3>1
    <3> QED
      BY <2>2, <3>1, <3>2, <3>3, <3>4, KeptNobody
  <2> QED
    BY <2>1, <2>2
<1>21. ASSUME RollbackList PROVE KeptInv'
  <2>1. op.pc = "list" /\ UNCHANGED <<build, zombies, before>> /\ UNCHANGED <<data, dirs>>
        /\ manifest' = Append(op.seen, op.v) /\ op' = [op EXCEPT !.pc = "restore", !.seen = <<>>, !.v = 0]
    BY <1>21 DEF RollbackList, diskVars, versionVars, ghostVars
  <2>2. CASE before = NoDump
    BY <2>1, <2>2, KeptVoid
  <2>3. CASE before # NoDump
    <3>1. Exclusive /\ Exclusive' /\ data # NoDump
      BY <2>1, <2>3, <1>0, <1>e DEF KeptInv
    <3>2. zombies' = {} /\ \A x \in Builds : ~Running(x)
      BY <3>1, <2>1, OnlyWriter
    <3>3. LastIs(manifest, before)' /\ data' # NoDump /\ op'.pc = "restore"
      <4>1. op.v \in DOMAIN dirs /\ dirs[op.v] = before
        BY <2>1, <2>3, <1>0 DEF KeptInv
      <4>2. op.seen \in Seq(Nat) /\ op.v \in Nat
        BY <1>0 DEF OpStates
      <4>3. manifest' # <<>> /\ manifest'[Len(manifest')] = op.v
        BY <4>2, <2>1, AppendIs
      <4>4. op'.pc = "restore"
        BY <2>1, <1>0 DEF OpStates
      <4> QED
        BY <4>1, <4>3, <4>4, <3>1, <2>1 DEF LastIs
    <3> QED
      BY <2>1, <3>1, <3>2, <3>3, KeptNobody
  <2> QED
    BY <2>2, <2>3
<1>22. ASSUME RollbackRestore PROVE KeptInv'
  <2>1. op.pc = "restore" /\ UNCHANGED <<build, zombies, before>> /\ UNCHANGED <<dirs, manifest>>
        /\ op' = NoOp /\ data' = (IF dirs[op.target] = NoDump THEN data ELSE dirs[op.target])
    BY <1>22 DEF RollbackRestore, diskVars, versionVars, ghostVars
  <2>2. CASE before = NoDump
    BY <2>1, <2>2, KeptVoid
  <2>3. CASE before # NoDump
    <3>1. Exclusive /\ Exclusive' /\ data # NoDump
      BY <2>1, <2>3, <1>0, <1>e DEF KeptInv
    <3>2. zombies' = {} /\ \A x \in Builds : ~Running(x)
      BY <3>1, <2>1, OnlyWriter
    <3>3. LastIs(manifest, before)' /\ data' # NoDump /\ op'.pc = "idle"
      BY <2>1, <2>3, <3>1, <1>0 DEF KeptInv, LastIs, NoOp
    <3> QED
      BY <2>1, <3>1, <3>2, <3>3, KeptNobody
  <2> QED
    BY <2>2, <2>3
<1>23. ASSUME NEW w \in Workers, NEW j \in PruneKeeps, PruneOp(w, j) PROVE KeptInv'
  <2>1. /\ dirs' = Without(Newest(manifest, j)) /\ UNCHANGED <<data, manifest, build, zombies>>
        /\ op' = [NoOp EXCEPT !.pc = "trim", !.w = w, !.seen = Newest(manifest, j)]
        /\ before' = (IF NoWriter /\ j > 0 THEN before ELSE NoDump)
    BY <1>23 DEF PruneOp, diskVars
  <2>2. CASE before' = NoDump
    BY <2>2, KeptVoid
  <2>3. CASE before' # NoDump
    <3>1. before' = before /\ NoWriter /\ j > 0
      BY <2>1, <2>3
    <3>2. Exclusive' /\ data # NoDump /\ (before = data \/ LastIs(manifest, before))
      BY <2>3, <3>1, <1>0, <1>e DEF KeptInv
    <3>3. zombies = {} /\ \A x \in Builds : ~Running(x)
      BY <3>1 DEF NoWriter, Quiet
    <3>4. op'.pc = "trim" /\ op'.seen = Newest(manifest, j)
      BY <2>1 DEF NoOp
    <3>5. ASSUME LastIs(manifest, before)
          PROVE  LastIs(manifest, before)' /\ LastIs(op.seen, before)'
      <4>1. j \in Nat
        BY BuildConstants
      <4>2. /\ LastIs(manifest, before)'
            /\ LET kept == Newest(manifest, j) IN
               kept # <<>> /\ kept[Len(kept)] \in DOMAIN dirs' /\ dirs'[kept[Len(kept)]] = before
        <5>1. LastIs(manifest, before) /\ j > 0
          BY <3>1, <3>5
        <5> DEFINE kept == Newest(manifest, j)
        <5>2. kept = manifest \/ (j > 0 /\ kept = Newest(manifest, j))
          BY <5>1
        <5> HIDE DEF kept
        <5>3. dirs' = Without(kept) /\ manifest' = manifest
          BY <2>1 DEF kept
        <5>4. /\ \A d : LastIs(manifest, d) => LastIs(manifest, d)'
              /\ kept # <<>> /\ kept[Len(kept)] \in DOMAIN dirs' /\ dirs'[kept[Len(kept)]] = before
          BY <5>1, <5>2, <5>3, <4>1, <1>0, NewestKept
        <5> QED
          BY <5>1, <5>4, <3>1 DEF kept, LastIs
      <4> QED
        BY <4>2, <3>4, <3>1 DEF LastIs
    <3> QED
      BY <2>1, <3>1, <3>2, <3>3, <3>4, <3>5, KeptNobody
  <2> QED
    BY <2>2, <2>3
<1>24. ASSUME PruneOpList PROVE KeptInv'
  <2>1. op.pc = "trim" /\ UNCHANGED <<build, zombies, before>> /\ UNCHANGED <<data, dirs>>
        /\ manifest' = op.seen /\ op' = NoOp
    BY <1>24 DEF PruneOpList, diskVars, versionVars, ghostVars
  <2>2. CASE before = NoDump
    BY <2>1, <2>2, KeptVoid
  <2>3. CASE before # NoDump
    <3>1. Exclusive /\ Exclusive' /\ data # NoDump
      BY <2>1, <2>3, <1>0, <1>e DEF KeptInv
    <3>2. zombies' = {} /\ \A x \in Builds : ~Running(x)
      BY <3>1, <2>1, OnlyWriter
    <3>3. (before' = data' \/ LastIs(manifest, before)') /\ data' # NoDump /\ op'.pc = "idle"
      BY <2>1, <2>3, <3>1, <1>0 DEF KeptInv, LastIs, NoOp
    <3> QED
      BY <2>1, <3>1, <3>2, <3>3, KeptNobody
  <2> QED
    BY <2>2, <2>3
<1>25. ASSUME NEW w \in Workers, Crash(w) PROVE KeptInv'
  <2> DEFINE mine == {b \in Builds : build[b].w = w /\ build[b].pc \notin {"none"} \cup Ended}
             writing == \/ \E b \in mine : build[b].pc = "feed"
                        \/ op.pc = "restore" /\ op.w = w
                        \/ \E z \in zombies : z.w = w
             listing == \/ \E b \in mine : build[b].pc \in {"list", "trim"}
                        \/ op.pc \in {"list", "trim"} /\ op.w = w
  <2>1. /\ data' \in {data} \cup (IF writing THEN {Torn} ELSE {})
        /\ manifest' \in {manifest} \cup (IF listing THEN {<<>>} ELSE {})
        /\ before' = (IF op.pc = "trim" /\ op.w = w THEN NoDump ELSE before)
        /\ op' = (IF op.w = w THEN NoOp ELSE op)
        /\ zombies' \subseteq zombies /\ dirs' = dirs
    BY <1>25 DEF Crash
  <2>2. \A x \in Builds : (x \in mine => build'[x].pc = "gone") /\ (x \notin mine => build'[x] = build[x])
    <3>1. SUFFICES ASSUME NEW x \in Builds
                   PROVE  (x \in mine => build'[x].pc = "gone") /\ (x \notin mine => build'[x] = build[x])
      OBVIOUS
    <3>2. build'[x] = IF x \in mine THEN [Idle EXCEPT !.pc = "gone"] ELSE build[x]
      BY <1>25 DEF Crash
    <3> QED
      BY <3>2 DEF Idle
  <2>3. CASE before' = NoDump
    BY <2>3, KeptVoid
  <2>4. CASE before' # NoDump
    <3>1. before' = before /\ before # NoDump /\ ~(op.pc = "trim" /\ op.w = w)
      BY <2>1, <2>4
    <3>2. Exclusive /\ Exclusive' /\ data # NoDump
      BY <3>1, <1>0, <1>e DEF KeptInv
    <3>3. data' # NoDump
      BY <3>2, <2>1, BuildConstants
    <3>4. \A b \in mine : build[b].pc \in {"feed", "list", "trim"} => Running(b)
      BY DEF Running, Ended
    <3>5. writing => ~listing
      <4>1. ASSUME NEW b \in mine, build[b].pc = "feed" PROVE ~listing
        <5>1. op.pc = "idle" /\ \A x \in Builds \ {b} : ~Running(x)
          BY <4>1, <3>4, <3>2, OnlyWriter
        <5> QED
          BY <5>1, <4>1, <3>4
      <4>2. ASSUME op.pc = "restore" \/ zombies # {} PROVE ~listing
        <5>1. (\A x \in Builds : ~Running(x)) /\ (zombies # {} => op.pc = "idle")
          BY <4>2, <3>2, OnlyWriter
        <5> QED
          BY <5>1, <4>2, <3>4
      <4> QED
        BY <4>1, <4>2
    <3>6. writing => LastIs(manifest, before)
      <4>1. ASSUME NEW b \in mine, build[b].pc = "feed" PROVE LastIs(manifest, before)
        BY <4>1, <3>1, <1>0 DEF KeptInv, KeptAt
      <4>2. ASSUME op.pc = "restore" \/ zombies # {} PROVE LastIs(manifest, before)
        BY <4>2, <3>1, <1>0 DEF KeptInv
      <4> QED
        BY <4>1, <4>2
    <3>7. listing => before = data
      <4>1. ASSUME NEW b \in mine, build[b].pc \in {"list", "trim"} PROVE before = data
        BY <4>1, <3>1, <1>0 DEF KeptInv, KeptAt
      <4>2. ASSUME op.pc = "list" PROVE before = data
        BY <4>2, <3>1, <1>0 DEF KeptInv
      <4> QED
        BY <4>1, <4>2, <3>1
    <3>8. manifest' = manifest /\ LastIs(manifest, before) => LastIs(manifest, before)'
      BY <3>1, <2>1 DEF LastIs
    <3>9. before' = data' \/ LastIs(manifest, before)'
      <4>1. before = data \/ LastIs(manifest, before)
        BY <3>1, <1>0 DEF KeptInv
      <4> HIDE DEF writing, listing
      <4>2. CASE writing
        BY <4>2, <3>5, <3>6, <3>8, <2>1
      <4>3. CASE ~writing
        BY <4>1, <4>3, <3>1, <3>7, <3>8, <2>1
      <4> QED
        BY <4>2, <4>3
    <3>10. ASSUME \A b \in mine : ~Running(b), op.pc = "idle" \/ op.w # w PROVE ~listing
      BY <3>10, <3>4
    <3>11. ASSUME \A b \in mine : ~Running(b), op.pc = "idle" \/ op.w # w, zombies = {}
           PROVE  UNCHANGED <<data, manifest>>
      BY <3>10, <3>11, <3>4, <2>1
    <3>12. ASSUME NEW x \in Builds PROVE KeptAt(build[x])'
      <4>1. CASE x \in mine
        BY <4>1, <2>2, KeptFree
      <4>2. CASE x \notin mine /\ ~Running(x)
        BY <4>2, <2>2, KeptRests
      <4>3. CASE x \notin mine /\ Running(x)
        <5>1. op.pc = "idle" /\ zombies = {} /\ \A b \in mine : ~Running(b)
          BY <4>3, <3>2, OnlyWriter
        <5>2. UNCHANGED <<data, manifest>>
          BY <5>1, <3>11
        <5>3. KeptAt(build[x]) /\ build'[x] = build[x]
          BY <4>3, <3>1, <2>2, <1>0 DEF KeptInv
        <5> QED
          BY <5>2, <5>3, <3>1, <2>1 DEF KeptAt, LastIs
      <4> QED
        BY <4>1, <4>2, <4>3
    <3>13. ASSUME op'.pc # "idle"
           PROVE  /\ op' = op /\ UNCHANGED <<data, manifest>>
      <4>1. op' = op /\ op.w # w /\ op.pc # "idle"
        BY <3>13, <2>1 DEF NoOp
      <4>2. zombies = {} /\ \A b \in mine : ~Running(b)
        BY <4>1, <3>2, OnlyWriter
      <4> QED
        BY <4>1, <4>2, <3>11
    <3>14. zombies' # {} => LastIs(manifest, before)'
      <4>1. SUFFICES ASSUME zombies # {} PROVE LastIs(manifest, before)'
        BY <2>1
      <4>2. LastIs(manifest, before) /\ op.pc = "idle" /\ \A b \in mine : ~Running(b)
        BY <4>1, <3>1, <3>2, <1>0, OnlyWriter DEF KeptInv
      <4>3. manifest' = manifest
        BY <4>2, <3>10, <2>1
      <4> QED
        BY <4>2, <4>3, <3>8
    <3>15. /\ op'.pc = "list" => before' = data' /\ op'.v \in DOMAIN dirs' /\ dirs'[op'.v] = before'
           /\ op'.pc = "restore" => LastIs(manifest, before)'
           /\ op'.pc = "trim" => before' = data' \/ LastIs(op.seen, before)'
      <4>1. SUFFICES ASSUME op'.pc # "idle"
                     PROVE  /\ op'.pc = "list" => before' = data' /\ op'.v \in DOMAIN dirs' /\ dirs'[op'.v] = before'
                            /\ op'.pc = "restore" => LastIs(manifest, before)'
                            /\ op'.pc = "trim" => before' = data' \/ LastIs(op.seen, before)'
        OBVIOUS
      <4>2. op' = op /\ UNCHANGED <<data, manifest>>
        BY <4>1, <3>13
      <4> QED
        BY <4>2, <3>1, <2>1, <1>0 DEF KeptInv, LastIs
    <3> QED
      BY <3>1, <3>2, <3>3, <3>9, <3>12, <3>14, <3>15 DEF KeptInv
  <2> QED
    BY <2>3, <2>4
<1>26. ASSUME NEW b \in Builds, BuildStep(b) \/ BuildFault(b) PROVE KeptInv'
  <2>1. CASE FeedHangs(b)
    <3>1. Goto(b, "hung") /\ UNCHANGED <<data, dirs, manifest, op, zombies, before>>
      BY <2>1 DEF FeedHangs, diskVars, versionVars, ghostVars
    <3> QED
      BY <3>1, <1>1
  <2>2. CASE WriteCheckpoint(b)
    <3>1. Goto(b, "mark") /\ UNCHANGED <<data, dirs, manifest, op, zombies, before>>
      BY <2>2 DEF WriteCheckpoint, diskVars, versionVars, ghostVars
    <3> QED
      BY <3>1, <1>1
  <2>3. CASE InsertEntities(b)
    <3>1. Goto(b, "references") /\ UNCHANGED <<data, dirs, manifest, op, zombies, before>>
      BY <2>3 DEF InsertEntities, diskVars, versionVars, ghostVars
    <3> QED
      BY <3>1, <1>1
  <2>4. CASE InsertReferences(b)
    <3>1. Goto(b, "finish") /\ UNCHANGED <<data, dirs, manifest, op, zombies, before>>
      BY <2>4 DEF InsertReferences, diskVars, versionVars, ghostVars
    <3> QED
      BY <3>1, <1>1
  <2>5. CASE MarkMapped(b)
    <3>1. Goto(b, IF build[b].ka = {} THEN "finish" ELSE "entities") /\ UNCHANGED <<data, dirs, manifest, op, zombies, before>>
      BY <2>5 DEF MarkMapped, diskVars, versionVars, ghostVars
    <3> QED
      BY <3>1, <1>1
  <2>6. CASE SidecarWriteFails(b)
    <3>1. Goto(b, IF build[b].ka = {} THEN "finish" ELSE "entities") /\ UNCHANGED <<data, dirs, manifest, op, zombies, before>>
      BY <2>6 DEF SidecarWriteFails, diskVars, versionVars, ghostVars
    <3> QED
      BY <3>1, <1>1
  <2>7. CASE GraphGone(b)
    <3>1. End(b, "failed") /\ UNCHANGED <<data, dirs, manifest, op, zombies, before>>
      BY <2>7 DEF GraphGone, diskVars, versionVars
    <3> QED
      BY <3>1, <1>2 DEF Ended
  <2>8. CASE BuildFails(b)
    <3>1. End(b, "failed") /\ UNCHANGED <<data, dirs, manifest, op, zombies, before>>
      BY <2>8 DEF BuildFails, diskVars, versionVars
    <3> QED
      BY <3>1, <1>2 DEF Ended
  <2>9. CASE FinishBuild(b)
    <3>1. UNCHANGED <<data, dirs, manifest, op, zombies, before>>
      BY <2>9 DEF FinishBuild, diskVars, versionVars
    <3>2. build'[b].pc = "snapshot" /\ \A x \in Builds \ {b} : build'[x] = build[x]
      BY <2>9, <1>0, SnapFields
    <3> QED
      BY <3>1, <3>2, <1>0, <1>e, KeptStays
  <2>10. CASE LetGo(b)
    <3>1. /\ UNCHANGED <<data, dirs, manifest, op, zombies, before>>
          /\ build'[b].pc \in {"completed", "stuck"}
          /\ \A x \in Builds \ {b} : build'[x] = build[x]
      BY <2>10, <1>0, LetGoIs
    <3> QED
      BY <3>1, <1>0, <1>e, KeptStays
  <2> QED
    BY <1>26, <2>1, <2>2, <2>3, <2>4, <2>5, <2>6, <2>7, <2>8, <2>9, <2>10, <1>4, <1>6,
       <1>7, <1>8, <1>9, <1>10, <1>11, <1>12, <1>13, <1>14, <1>15, <1>16, <1>17,
       <1>18, <1>19, <1>20, <1>21, <1>22, <1>23, <1>24, <1>25 DEF BuildStep,
       BuildFault, LetGo
<1>27.
      \/ UNCHANGED build /\ UNCHANGED <<data, dirs, manifest, op, zombies, before>>
      \/ \E b \in Builds : BuildStep(b) \/ BuildFault(b)
      \/ \E w \in Workers, i \in BOOLEAN : KgBuild(w, i)
      \/ \E z \in zombies : ZombieDump(z)
      \/ \E w \in Workers : Crash(w)
      \/ \E w \in Workers, v \in DOMAIN dirs : RollbackStart(w, v)
      \/ \E w \in Workers, j \in PruneKeeps : PruneOp(w, j)
      \/ OpStep
  BY DEF Next, Done, EditTable, ClearGraph, vars, diskVars, versionVars, ghostVars
<1> QED
  BY <1>3, <1>5, <1>19, <1>20, <1>21, <1>22, <1>23, <1>24, <1>25, <1>26, <1>27 DEF
     OpStep

\* Where a build has collected names, and where nothing is on its way to the graph.
Busy == {"feed", "hung", "sidecar", "checkpoint", "mark"} \cup InsertPcs
Resting == \A b \in Builds : build[b].pc \notin {"feed", "hung", "sidecar"} \cup InsertPcs

\* A mention is by a chunk that is there, and the text of every such chunk yields its own.
LEMMA MentionIs ==
    ASSUME NEW f
    PROVE  /\ \A m \in Mentions(f) : m[1] \in Rows(f) /\ m[2] \in Yield[m[1]][f[m[1]]]
                                     /\ m \in Chunks \X Names
           /\ \A c \in Rows(f) : \A n \in Names : n \in Yield[c][f[c]] => <<c, n>> \in Mentions(f)
<1>1. ASSUME NEW m \in Mentions(f)
      PROVE  m[1] \in Rows(f) /\ m[2] \in Yield[m[1]][f[m[1]]] /\ m \in Chunks \X Names
  BY <1>1 DEF Mentions, Rows
<1>2. ASSUME NEW c \in Rows(f), NEW n \in Names, n \in Yield[c][f[c]]
      PROVE  <<c, n>> \in Mentions(f)
  BY <1>2 DEF Mentions, Rows
<1> QED
  BY <1>1, <1>2

\* Mentions of one table that another has too give it their names.
LEMMA NamesMono ==
    ASSUME NEW S, NEW T, S \subseteq T
    PROVE  NamesIn(S) \subseteq NamesIn(T)
  BY DEF NamesIn

\* Only a build that feeds has chunks left to feed.
LEMMA PendingNone ==
    ASSUME NEW b \in Builds, Shape(b), build[b].pc \notin {"feed", "hung"}
    PROVE  Pending(b) = {}
  BY NamesOf DEF Shape, Pending

\* What is left to feed after one chunk.
LEMMA PendingLess ==
    ASSUME NEW b \in Builds, NEW c, build'[b].rows = build[b].rows,
           build'[b].todo = build[b].todo \ {c}
    PROVE  Pending(b) \subseteq Pending(b)' \cup Yield[c][build[b].rows[c]]
<1>1. SUFFICES ASSUME NEW n \in Pending(b), n \notin Yield[c][build[b].rows[c]]
               PROVE  n \in Pending(b)'
  OBVIOUS
<1>2. PICK m \in Mentions(build[b].rows) : m[1] \in build[b].todo /\ m[2] = n
  BY DEF Pending, NamesIn
<1>3. m[1] # c
  BY <1>1, <1>2, MentionIs
<1>4. m \in Mentions(build'[b].rows) /\ m[1] \in build'[b].todo
  BY <1>2, <1>3
<1> QED
  BY <1>2, <1>4 DEF Pending, NamesIn

\* A build that does not run has collected nothing.
LEMMA RestsBlank ==
    ASSUME NEW x \in Builds, ~Running(x), build'[x] = build[x]
    PROVE  build'[x].pc \notin Busy
  BY DEF Running, Ended, Busy, InsertPcs

\* Collected names stay collected while entities are only added.
LEMMA CollectedStays ==
    ASSUME NEW x \in Builds, Collected(x), build'[x] = build[x],
           Inserted \subseteq Inserted', ent \subseteq ent'
    PROVE  Collected(x)'
<1>1. Pending(x)' = Pending(x)
  BY DEF Pending
<1> QED
  BY <1>1 DEF Collected

\* What a build has collected stays so when entities are added.
LEMMA CollectedSame ==
    ASSUME NEW b \in Builds, Collected(b), build[b].pc \in Busy,
           build'[b].rows = build[b].rows, build'[b].ka = build[b].ka,
           build'[b].todo = build[b].todo, Inserted \subseteq Inserted',
           build'[b].pc \in {"references", "finish"} => build'[b].ka \subseteq ent'
    PROVE  Collected(b)'
<1>1. Pending(b)' = Pending(b)
  BY DEF Pending
<1>2. NamesIn(Mentions(build[b].rows)) \subseteq build[b].ka \cup Inserted \cup Pending(b)
  BY DEF Collected, Busy
<1> QED
  BY <1>1, <1>2 DEF Collected

\* A build that has not begun to collect owes nothing.
LEMMA CollectedBlank ==
    ASSUME NEW x \in Builds, build'[x].pc \notin Busy
    PROVE  Collected(x)'
  BY DEF Collected, Busy, InsertPcs

\* Nor does it carry anything.
LEMMA CarriesBlank ==
    ASSUME NEW x \in Builds, Shape(x)', build'[x].pc \notin Busy
    PROVE  Carries(x)'
<1>1. Collected(x)'
  BY CollectedBlank
<1>2. build'[x].prev = Nothing /\ NamesIn(Mentions(Nothing)) = {}
  BY RowsIn, NamesOf DEF Shape, Busy
<1>3. build'[x].pc \notin InsertPcs /\ build'[x].pc # "sidecar"
  BY DEF Busy
<1> QED
  BY <1>1, <1>2, <1>3 DEF Carries

\* A step of another build keeps what this one carries.
LEMMA CarriesStays ==
    ASSUME NEW x \in Builds, Carries(x), build'[x] = build[x], minChunks' = minChunks,
           fed' = fed, Loadable' => Loadable /\ data' = data,
           Inserted \subseteq Inserted', ent \subseteq ent'
    PROVE  Carries(x)'
<1>1. Collected(x)'
  BY CollectedStays DEF Carries
<1>2. NamesIn(Mentions(build'[x].prev)) \subseteq build'[x].ka \cup Inserted'
  BY DEF Carries
<1>3. ASSUME build'[x].pc \in InsertPcs, Loadable'
      PROVE  /\ NamesIn(Mentions(fed')) \subseteq data' \cup Inserted' \cup build'[x].ka
             /\ ~MapReduced(build[x].rows)' => build'[x].ka \subseteq data'
  BY <1>3 DEF Carries, MapReduced
<1>4. build'[x].pc = "sidecar" /\ Loadable' => build'[x].ka \subseteq data'
  BY DEF Carries
<1> QED
  BY <1>1, <1>2, <1>3, <1>4 DEF Carries

\* A step of one build: what is left to look at is that build, and the marks once
\* nothing is on its way any more.
LEMMA EntityBuild ==
    ASSUME EntityInv, SoloInv, \A x \in Builds : Shape(x)', NEW b \in Builds,
           \A x \in Builds \ {b} : build'[x] = build[x], minChunks' = minChunks,
           ent \subseteq ent', Inserted \subseteq Inserted', Unmended \subseteq Unmended',
           UNCHANGED <<data, fed>> \/ Running(b),
           "cleared" \notin Unmended' /\ MapReduced(build[b].rows)' => Collected(b)',
           Unmended' \cap RetryKinds = {} => Carries(b)',
           damage' \cap RetryKinds = {} /\ Loadable' /\ Resting'
               => NamesIn(Mentions(fed')) \subseteq data' \cup Inserted'
    PROVE  EntityInv'
<1>1. ASSUME "cleared" \notin Unmended', NEW x \in Builds, MapReduced(build[x].rows)'
      PROVE  Collected(x)'
  <2>1. CASE x = b
    BY <1>1, <2>1
  <2>2. CASE x # b
    <3>1. Collected(x)
      BY <1>1, <2>2 DEF EntityInv, MapReduced
    <3> QED
      BY <3>1, <2>2, CollectedStays
  <2> QED
    BY <2>1, <2>2
<1>2. ASSUME Unmended' \cap RetryKinds = {}, NEW x \in Builds PROVE Carries(x)'
  <2>1. CASE x = b
    BY <1>2, <2>1
  <2>2. CASE x # b /\ Running(b)
    <3>1. ~Running(x)
      BY <1>2, <2>2 DEF SoloInv, Exclusive, Alone, RetryKinds
    <3> QED
      BY <3>1, <2>2, RestsBlank, CarriesBlank
  <2>3. CASE x # b /\ UNCHANGED <<data, fed>>
    <3>1. Carries(x)
      BY <1>2 DEF EntityInv
    <3>2. Loadable' => Loadable /\ data' = data
      BY <2>3 DEF Loadable
    <3> QED
      BY <3>1, <3>2, <2>3, CarriesStays
  <2> QED
    BY <2>1, <2>2, <2>3
<1> QED
  BY <1>1, <1>2 DEF EntityInv, Resting

\* ... of a build that has nothing on its way yet.
LEMMA EntityEarly ==
    ASSUME EntityInv, SoloInv, \A x \in Builds : Shape(x)', NEW b \in Builds,
           \A x \in Builds \ {b} : build'[x] = build[x], minChunks' = minChunks,
           ent' = ent, skipped' = skipped, damage \subseteq damage', healing' \subseteq healing,
           UNCHANGED <<data, fed>>,
           build[b].pc \notin Busy, build'[b].pc \notin Busy
    PROVE  EntityInv'
<1>1. Collected(b)' /\ Carries(b)'
  BY CollectedBlank, CarriesBlank
<1>2. Inserted' = Inserted /\ Unmended \subseteq Unmended' /\ (Loadable' => Loadable)
  BY DEF Inserted, Unmended, Loadable
<1>3. Resting' => Resting
  BY DEF Resting, Busy
<1>4. damage' \cap RetryKinds = {} /\ Loadable' /\ Resting'
          => NamesIn(Mentions(fed')) \subseteq data' \cup Inserted'
  BY <1>2, <1>3 DEF EntityInv, Resting
<1> QED
  BY <1>1, <1>2, <1>4, EntityBuild

\* ... that ends early: what it has brought is in the dump, or the cut says so.
LEMMA EntityCut ==
    ASSUME BaseTypes, EntityInv, SoloInv, \A x \in Builds : Shape(x)', NEW b \in Builds,
           \A x \in Builds \ {b} : build'[x] = build[x], minChunks' = minChunks,
           ent \subseteq ent', skipped' = skipped, Damaged(Cut(b)), UNCHANGED <<data, fed>>,
           build[b].pc # "finish", build'[b].pc \notin Busy
    PROVE  EntityInv'
<1>1. Collected(b)' /\ Carries(b)'
  BY CollectedBlank, CarriesBlank
<1>2. /\ Inserted \subseteq Inserted' /\ (Loadable' <=> Loadable)
      /\ damage' = damage \cup Cut(b) /\ healing' = {}
  BY CutKinds DEF Inserted, Damaged, Loadable
<1>3. Unmended \subseteq Unmended'
  BY <1>2 DEF Unmended
<1>4. ASSUME damage' \cap RetryKinds = {}, Loadable', Resting'
      PROVE  NamesIn(Mentions(fed')) \subseteq data' \cup Inserted'
  <2>1. build[b].pc \notin {"feed", "hung", "sidecar"}
    BY <1>4, <1>2 DEF Cut, RetryKinds
  <2>2. CASE build[b].pc \in InsertPcs
    <3>1. ~MapReduced(build[b].rows)
      BY <2>2, <1>4, <1>2 DEF Cut, RetryKinds, InsertPcs
    <3>2. Carries(b)
      BY <1>4, <1>3, <1>2 DEF EntityInv, Unmended
    <3>3. NamesIn(Mentions(fed)) \subseteq data \cup Inserted \cup build[b].ka /\ build[b].ka \subseteq data
      BY <3>1, <3>2, <2>2, <1>4, <1>2 DEF Carries
    <3> QED
      BY <3>3, <1>2
  <2>3. CASE build[b].pc \notin InsertPcs
    <3>1. Resting
      BY <2>1, <2>3, <1>4 DEF Resting
    <3> QED
      BY <3>1, <1>2, <1>4 DEF EntityInv, Resting
  <2> QED
    BY <2>2, <2>3
<1> QED
  BY <1>1, <1>2, <1>3, <1>4, EntityBuild

\* Dumps that damage voids the marks of: only what map-reduced builds collect is left.
LEMMA EntityVoid ==
    ASSUME EntityInv, minChunks' = minChunks, build' = build, ent' = ent, skipped' = skipped,
           damage \subseteq damage', healing' = {}, damage' \cap RetryKinds # {}
    PROVE  EntityInv'
<1>1. Unmended \subseteq Unmended' /\ Unmended' = damage' /\ Inserted' = Inserted
  BY DEF Unmended, Inserted
<1>2. ASSUME "cleared" \notin Unmended', NEW x \in Builds, MapReduced(build[x].rows)'
      PROVE  Collected(x)'
  <2>1. Collected(x)
    BY <1>1, <1>2 DEF EntityInv, MapReduced
  <2> QED
    BY <2>1, <1>1, CollectedStays
<1> QED
  BY <1>1, <1>2 DEF EntityInv

\* EntityInv stays when neither names nor files change.
LEMMA EntitySame ==
    ASSUME EntityInv, UNCHANGED <<minChunks, build, ent, skipped, data, fed>>,
           damage \subseteq damage', healing' \subseteq healing
    PROVE  EntityInv'
<1>1. Unmended \subseteq Unmended' /\ Inserted' = Inserted /\ (Loadable' <=> Loadable)
  BY DEF Unmended, Inserted, Loadable
<1>2. ASSUME "cleared" \notin Unmended', NEW x \in Builds, MapReduced(build[x].rows)'
      PROVE  Collected(x)'
  <2>1. Collected(x)
    BY <1>1, <1>2 DEF EntityInv, MapReduced
  <2> QED
    BY <2>1, <1>1, CollectedStays
<1>3. ASSUME Unmended' \cap RetryKinds = {}, NEW x \in Builds PROVE Carries(x)'
  <2>1. Carries(x)
    BY <1>1, <1>3 DEF EntityInv
  <2> QED
    BY <2>1, <1>1, CarriesStays
<1> QED
  BY <1>1, <1>2, <1>3 DEF EntityInv

\* Every action keeps the names of the marks within reach of an incremental build.
LEMMA EntityStep ==
    ASSUME BaseTypes, BaseTypes', ListedExist, ControlInv, ControlInv', EntityInv, Next
    PROVE  EntityInv'
<1>0. /\ build \in [Builds -> BuildStates] /\ BaseTypes /\ EntityInv /\ HealInv /\ SoloInv
      /\ (\A x \in Builds : Shape(x)) /\ (\A x \in Builds : Shape(x)')
      /\ healing \subseteq damage
  BY DEF BaseTypes, ControlInv
<1>1. ASSUME UNCHANGED <<minChunks, build, ent, skipped, data, fed>>, damage \subseteq damage',
             healing' \subseteq healing
      PROVE EntityInv'
  BY <1>1, <1>0, EntitySame
<1>2. ASSUME NEW w \in Workers, NEW i \in BOOLEAN, KgBuild(w, i) PROVE EntityInv'
  <2>1. UNCHANGED <<minChunks, ent, skipped, data, fed, damage, healing>>
    BY <1>2 DEF KgBuild, diskVars, graphVars, ghostVars
  <2>2. PICK b \in Builds : /\ build[b].pc = "none"
                            /\ Becomes(b, [Idle EXCEPT !.pc = "queued", !.w = w,
                                           !.incremental = i, !.rows = table])
    BY <1>2 DEF KgBuild
  <2>3. build'[b].pc = "queued" /\ \A x \in Builds \ {b} : build'[x] = build[x]
    BY <2>2, <1>0, QueueFields
  <2>4. build[b].pc \notin Busy /\ build'[b].pc \notin Busy
    BY <2>2, <2>3 DEF Busy, InsertPcs
  <2> QED
    BY <2>1, <2>3, <2>4, <1>0, EntityEarly
<1>3. ASSUME NEW b \in Builds, AcquireLock(b) PROVE EntityInv'
  <2>1. UNCHANGED <<minChunks, ent, skipped, data, fed>> /\ damage \subseteq damage' /\ healing' \subseteq healing
    BY <1>3 DEF AcquireLock, RacedUnless, Damaged, diskVars, graphVars, ghostVars
  <2>2. build[b].pc = "queued" /\ build'[b].pc = "vertices" /\ \A x \in Builds \ {b} : build'[x] = build[x]
    <3>1. build[b].pc = "queued" /\ Goto(b, "vertices")
      BY <1>3 DEF AcquireLock
    <3> QED
      BY <3>1, <1>0, GotoFields
  <2>3. build[b].pc \notin Busy /\ build'[b].pc \notin Busy
    BY <2>2 DEF Busy, InsertPcs
  <2> QED
    BY <2>1, <2>2, <2>3, <1>0, EntityEarly
<1>4. ASSUME NEW b \in Builds, VersioningFails(b) PROVE EntityInv'
  <2>1. UNCHANGED <<minChunks, ent, skipped, data, fed>> /\ damage \subseteq damage' /\ healing' \subseteq healing
    BY <1>4 DEF VersioningFails, diskVars, graphVars
  <2>2. build[b].pc \in {"archive", "list", "trim"} /\ build'[b].pc = "load"
        /\ \A x \in Builds \ {b} : build'[x] = build[x]
    <3>1. build[b].pc \in {"archive", "list", "trim"}
      BY <1>4 DEF VersioningFails
    <3> QED
      BY <3>1, <1>4, <1>0, VersioningFailsFields
  <2>3. build[b].pc \notin Busy /\ build'[b].pc \notin Busy
    BY <2>2 DEF Busy, InsertPcs
  <2> QED
    BY <2>1, <2>2, <2>3, <1>0, EntityEarly
<1>5. ASSUME NEW b \in Builds, ArchiveList(b) PROVE EntityInv'
  <2>1. UNCHANGED <<minChunks, ent, skipped, data, fed>> /\ damage \subseteq damage' /\ healing' \subseteq healing
    BY <1>5 DEF ArchiveList, RacedUnless, Damaged, diskVars, graphVars, ghostVars
  <2>2. build[b].pc = "list" /\ build'[b].pc = "prune" /\ \A x \in Builds \ {b} : build'[x] = build[x]
    <3>1. build[b].pc = "list"
      BY <1>5 DEF ArchiveList
    <3> QED
      BY <3>1, <1>5, <1>0, ArchiveListFields
  <2>3. build[b].pc \notin Busy /\ build'[b].pc \notin Busy
    BY <2>2 DEF Busy, InsertPcs
  <2> QED
    BY <2>1, <2>2, <2>3, <1>0, EntityEarly
<1>6. ASSUME NEW b \in Builds, PruneDirs(b) PROVE EntityInv'
  <2>1. UNCHANGED <<minChunks, ent, skipped, data, fed>> /\ damage \subseteq damage' /\ healing' \subseteq healing
    BY <1>6 DEF PruneDirs, RacedUnless, Damaged, diskVars, graphVars, ghostVars
  <2>2. build[b].pc = "prune" /\ build'[b].pc \in {"load", "trim"} /\ \A x \in Builds \ {b} : build'[x] = build[x]
    <3>1. build[b].pc = "prune"
      BY <1>6 DEF PruneDirs
    <3> QED
      BY <3>1, <1>6, <1>0, PruneDirsFields
  <2>3. build[b].pc \notin Busy /\ build'[b].pc \notin Busy
    BY <2>2 DEF Busy, InsertPcs
  <2> QED
    BY <2>1, <2>2, <2>3, <1>0, EntityEarly
<1>7. ASSUME NEW b \in Builds, PruneList(b) PROVE EntityInv'
  <2>1. UNCHANGED <<minChunks, ent, skipped, data, fed>> /\ damage \subseteq damage' /\ healing' \subseteq healing
    BY <1>7 DEF PruneList, RacedUnless, Damaged, diskVars, graphVars, ghostVars
  <2>2. build[b].pc = "trim" /\ build'[b].pc = "load" /\ \A x \in Builds \ {b} : build'[x] = build[x]
    <3>1. build[b].pc = "trim"
      BY <1>7 DEF PruneList
    <3> QED
      BY <3>1, <1>7, <1>0, PruneListFields
  <2>3. build[b].pc \notin Busy /\ build'[b].pc \notin Busy
    BY <2>2 DEF Busy, InsertPcs
  <2> QED
    BY <2>1, <2>2, <2>3, <1>0, EntityEarly
<1>8. ASSUME NEW b \in Builds, ArchiveCopy(b) PROVE EntityInv'
  <2>1. UNCHANGED <<minChunks, ent, skipped, data, fed>> /\ damage \subseteq damage' /\ healing' \subseteq healing
    BY <1>8 DEF ArchiveCopy, RacedUnless, Damaged, diskVars, graphVars, ghostVars
  <2>2. build[b].pc = "archive" /\ build'[b].pc \in {"prune", "list"} /\ \A x \in Builds \ {b} : build'[x] = build[x]
    <3>1. build[b].pc = "archive"
      BY <1>8 DEF ArchiveCopy
    <3>2. CASE data = NoDump
      <4>1. Goto(b, "prune")
        BY <1>8, <3>2 DEF ArchiveCopy
      <4> QED
        BY <3>1, <4>1, <1>0, GotoFields
    <3>3. CASE data # NoDump
      BY <3>1, <3>3, <1>8, <1>0, ArchiveCopyFields
    <3> QED
      BY <3>2, <3>3
  <2>3. build[b].pc \notin Busy /\ build'[b].pc \notin Busy
    BY <2>2 DEF Busy, InsertPcs
  <2> QED
    BY <2>1, <2>2, <2>3, <1>0, EntityEarly
<1>9. ASSUME NEW b \in Builds, AddVertices(b) PROVE EntityInv'
  <2>1. /\ UNCHANGED <<minChunks, ent, skipped, data, fed, damage>>
        /\ build[b].pc = "vertices"
    BY <1>9 DEF AddVertices, diskVars
  <2>2. Running(b) /\ ~Past(b)
    BY <2>1, PastRuns
  <2>3. healing = {}
    BY <2>2, <1>0, HealsAlone DEF Healer
  <2>4. build'[b].pc \in {"completed", "map", "archive"} /\ \A x \in Builds \ {b} : build'[x] = build[x]
    <3>1. CASE Rows(build[b].rows) = {}
      <4>1. End(b, "completed")
        BY <1>9, <3>1 DEF AddVertices
      <4> QED
        BY <4>1, <1>0, EndFields
    <3>2. CASE Rows(build[b].rows) # {}
      BY <3>2, <1>9, <1>0, AddVerticesFields
    <3> QED
      BY <3>1, <3>2
  <2>5. build[b].pc \notin Busy /\ build'[b].pc \notin Busy
    BY <2>1, <2>4 DEF Busy, InsertPcs
  <2>6. CASE healing' = {}
    BY <2>1, <2>3, <2>4, <2>5, <2>6, <1>0, EntityEarly
  <2>7. CASE healing' # {}
    <3>1. Alone(b)
      BY <1>9, <2>3, <2>7 DEF AddVertices
    <3>2. \A x \in Builds : build'[x].pc \notin Busy
      BY <3>1, <2>4, <2>5, RestsBlank DEF Alone
    <3>3. \A x \in Builds : Collected(x)' /\ Carries(x)'
      BY <3>2, <1>0, CollectedBlank, CarriesBlank
    <3>4. Resting' => Resting
      BY <2>4, <2>5 DEF Resting, Busy
    <3>5. Inserted' = Inserted /\ (Loadable' <=> Loadable)
      BY <2>1 DEF Inserted, Loadable
    <3>6. damage' \cap RetryKinds = {} /\ Loadable' /\ Resting'
              => NamesIn(Mentions(fed')) \subseteq data' \cup Inserted'
      BY <3>4, <3>5, <2>1, <1>0 DEF EntityInv, Resting
    <3> QED
      BY <3>3, <3>6 DEF EntityInv, Resting
  <2> QED
    BY <2>6, <2>7
<1>10. ASSUME NEW b \in Builds, LoadKA(b) PROVE EntityInv'
  <2> DEFINE r == build[b]
             s == build'[b]
  <2>1. r.pc = "load" /\ UNCHANGED <<ent, skipped, data, fed>> /\ UNCHANGED <<minChunks, damage, healing>>
    BY <1>10 DEF LoadKA, diskVars, graphVars, ghostVars
  <2>2. /\ \A x \in Builds \ {b} : build'[x] = build[x]
        /\ s.pc = "feed" /\ s.rows = r.rows
        /\ \/ s.ka = r.ka /\ s.prev = r.prev /\ s.todo = Rows(r.rows)
           \/ r.incremental /\ Loadable /\ s.ka = data /\ s.prev = fed /\ s.todo = Unmarked(b)
    <3>1. CASE r.incremental /\ Loadable /\ Becomes(b, [r EXCEPT !.pc = "feed", !.ka = data, !.todo = Unmarked(b), !.prev = fed])
      BY <3>1, <1>0, LoadFields
    <3>2. CASE Becomes(b, [r EXCEPT !.pc = "feed", !.todo = Rows(r.rows)])
      BY <3>2, <1>0, FreshFields
    <3> QED
      BY <1>10, <3>1, <3>2 DEF LoadKA
  <2>3. Unmended' = Unmended /\ Running(b)
    BY <2>1 DEF Unmended, Running, Ended
  <2>5. ent \subseteq ent' /\ Inserted \subseteq Inserted'
    BY <1>10, <2>1 DEF Inserted
  <2>6. ~MapReduced(build[b].rows)'
    <3>1. ~MapReduced(r.rows)
      BY <2>1, <1>0 DEF Shape, DatasetPcs
    <3> QED
      BY <3>1, <2>1, <2>2 DEF MapReduced

  <2>7. ASSUME Unmended' \cap RetryKinds = {} PROVE Carries(b)'
    <3>1. /\ NamesIn(Mentions(r.rows)) \subseteq s.ka \cup Inserted' \cup Pending(b)'
          /\ NamesIn(Mentions(s.prev)) \subseteq s.ka \cup Inserted'
      <4>1. CASE s.ka = r.ka /\ s.prev = r.prev /\ s.todo = Rows(r.rows)
        <5>1. NamesIn(Mentions(r.rows)) \subseteq Pending(b)'
          <6>1. \A m \in Mentions(s.rows) : m[1] \in s.todo
            BY <4>1, <2>2, MentionIs
          <6> QED
            BY <6>1, <2>2, NamesMono DEF Pending
        <5>2. NamesIn(Mentions(s.prev)) = {}
          BY <4>1, <2>1, <1>0, RowsIn, NamesOf DEF Shape, InsertPcs
        <5> QED
          BY <5>1, <5>2
      <4>2. CASE r.incremental /\ Loadable /\ s.ka = data /\ s.prev = fed /\ s.todo = Unmarked(b)
        <5>1. healing = {}
          BY <4>2, <2>3, <1>0, HealsAlone DEF Healer
        <5>2. damage \cap RetryKinds = {} /\ "raced" \notin Unmended
          BY <5>1, <2>7, <2>3 DEF Unmended, RetryKinds
        <5>3. \A x \in Builds \ {b} : ~Running(x)
          BY <5>2, <2>3, <1>0 DEF SoloInv, Exclusive, Alone
        <5>4. Resting
          BY <5>3, <2>1 DEF Resting, Running, Ended, InsertPcs
        <5>5. NamesIn(Mentions(fed)) \subseteq data \cup Inserted
          BY <5>2, <5>4, <4>2, <1>0 DEF EntityInv, Resting
        <5>6. NamesIn(Mentions(r.rows)) \subseteq NamesIn(Mentions(fed)) \cup Pending(b)'
          <6>1. SUFFICES ASSUME NEW n \in NamesIn(Mentions(r.rows)), n \notin Pending(b)'
                         PROVE  n \in NamesIn(Mentions(fed))
            OBVIOUS
          <6>2. PICK m \in Mentions(r.rows) : m[2] = n
            BY <6>1 DEF NamesIn
          <6>3. m[1] \notin Unmarked(b)
            BY <6>1, <6>2, <4>2, <2>2 DEF Pending, NamesIn
          <6>4. m[1] \in Rows(r.rows) /\ fed[m[1]] = r.rows[m[1]]
            BY <6>2, <6>3, MentionIs DEF Unmarked
          <6>5. m \in Mentions(fed)
            BY <6>2, <6>4 DEF Mentions
          <6> QED
            BY <6>2, <6>5 DEF NamesIn
        <5> QED
          BY <5>5, <5>6, <4>2, <2>5
      <4> QED
        BY <4>1, <4>2, <2>2
    <3>2. Collected(b)'
      BY <3>1, <2>2 DEF Collected, InsertPcs
    <3> QED
      BY <3>1, <3>2, <2>2 DEF Carries, InsertPcs
  <2>8. ~Resting'
    BY <2>2, <2>1 DEF Resting, InsertPcs
  <2> QED
    BY <2>1, <2>2, <2>3, <2>5, <2>6, <2>7, <2>8, <1>0, EntityBuild
<1>11. ASSUME NEW b \in Builds, FeedChunk(b) PROVE EntityInv'
  <2> DEFINE r == build[b]
             s == build'[b]
  <2>1. r.pc = "feed" /\ UNCHANGED <<ent, skipped, fed>> /\ UNCHANGED <<minChunks, damage, healing>>
    BY <1>11 DEF FeedChunk, diskVars, graphVars, ghostVars
  <2>2. /\ \A x \in Builds \ {b} : build'[x] = build[x]
        /\ s.pc = "feed" /\ s.rows = r.rows /\ s.prev = r.prev
        /\ s.todo = r.todo \ {Min(r.todo)}
        /\ s.ka = r.ka \cup Yield[Min(r.todo)][r.rows[Min(r.todo)]]
    BY <1>11, <2>1, <1>0, FeedChunkFields
  <2>3. Unmended' = Unmended /\ Running(b)
    BY <2>1 DEF Unmended, Running, Ended
  <2>5. ent \subseteq ent' /\ Inserted \subseteq Inserted'
    BY <1>11, <2>1 DEF Inserted
  <2>6. ~MapReduced(build[b].rows)'
    <3>1. ~MapReduced(r.rows)
      BY <2>1, <1>0 DEF Shape, DatasetPcs
    <3> QED
      BY <3>1, <2>1, <2>2 DEF MapReduced

  <2>7. ASSUME Unmended' \cap RetryKinds = {} PROVE Carries(b)'
    <3>1. Carries(b)
      BY <2>7, <2>3, <1>0 DEF EntityInv
    <3>2. /\ NamesIn(Mentions(r.rows)) \subseteq r.ka \cup Inserted \cup Pending(b)
          /\ NamesIn(Mentions(r.prev)) \subseteq r.ka \cup Inserted
      BY <3>1, <2>1 DEF Carries, Collected
    <3>3. Pending(b) \subseteq Pending(b)' \cup Yield[Min(r.todo)][r.rows[Min(r.todo)]]
      BY <2>2, PendingLess
    <3>4. Yield[Min(r.todo)][r.rows[Min(r.todo)]] \subseteq s.ka \cup Inserted'
      BY <2>2
    <3>5. NamesIn(Mentions(s.rows)) \subseteq s.ka \cup Inserted' \cup Pending(b)'
      BY <3>2, <3>3, <3>4, <2>2, <2>5
    <3>6. Collected(b)'
      BY <3>5, <2>1, <2>2 DEF Collected, InsertPcs
    <3> QED
      BY <3>2, <3>6, <2>1, <2>2, <2>5 DEF Carries, InsertPcs
  <2>8. ~Resting'
    BY <2>2, <2>1 DEF Resting, InsertPcs
  <2> QED
    BY <2>1, <2>2, <2>3, <2>5, <2>6, <2>7, <2>8, <1>0, EntityBuild
<1>12. ASSUME NEW b \in Builds, FeedFails(b) PROVE EntityInv'
  <2> DEFINE r == build[b]
             s == build'[b]
  <2>1. r.pc = "feed" /\ UNCHANGED <<ent, fed, data>>
        /\ skipped' = skipped \cup (Yield[Min(r.todo)][r.rows[Min(r.todo)]] \ r.ka) /\ UNCHANGED <<minChunks, damage, healing>>
    BY <1>12 DEF FeedFails, diskVars, graphVars, ghostVars
  <2>2. /\ \A x \in Builds \ {b} : build'[x] = build[x]
        /\ s.pc = "feed" /\ s.rows = r.rows /\ s.prev = r.prev
        /\ s.todo = r.todo \ {Min(r.todo)}
        /\ s.ka = r.ka
    BY <1>12, <2>1, <1>0, FeedFailsFields
  <2>3. Unmended' = Unmended /\ Running(b)
    BY <2>1 DEF Unmended, Running, Ended
  <2>5. ent \subseteq ent' /\ Inserted \subseteq Inserted'
    BY <2>1 DEF Inserted
  <2>6. ~MapReduced(build[b].rows)'
    <3>1. ~MapReduced(r.rows)
      BY <2>1, <1>0 DEF Shape, DatasetPcs
    <3> QED
      BY <3>1, <2>1, <2>2 DEF MapReduced

  <2>7. ASSUME Unmended' \cap RetryKinds = {} PROVE Carries(b)'
    <3>1. Carries(b)
      BY <2>7, <2>3, <1>0 DEF EntityInv
    <3>2. /\ NamesIn(Mentions(r.rows)) \subseteq r.ka \cup Inserted \cup Pending(b)
          /\ NamesIn(Mentions(r.prev)) \subseteq r.ka \cup Inserted
      BY <3>1, <2>1 DEF Carries, Collected
    <3>3. Pending(b) \subseteq Pending(b)' \cup Yield[Min(r.todo)][r.rows[Min(r.todo)]]
      BY <2>2, PendingLess
    <3>4. Yield[Min(r.todo)][r.rows[Min(r.todo)]] \subseteq s.ka \cup Inserted'
      BY <2>1, <2>2 DEF Inserted
    <3>5. NamesIn(Mentions(s.rows)) \subseteq s.ka \cup Inserted' \cup Pending(b)'
      BY <3>2, <3>3, <3>4, <2>2, <2>5
    <3>6. Collected(b)'
      BY <3>5, <2>1, <2>2 DEF Collected, InsertPcs
    <3> QED
      BY <3>2, <3>6, <2>1, <2>2, <2>5 DEF Carries, InsertPcs
  <2>8. ~Resting'
    BY <2>2, <2>1 DEF Resting, InsertPcs
  <2> QED
    BY <2>1, <2>2, <2>3, <2>5, <2>6, <2>7, <2>8, <1>0, EntityBuild
<1>13. ASSUME NEW b \in Builds, FeedHangs(b) PROVE EntityInv'
  <2> DEFINE r == build[b]
             s == build'[b]
  <2>1. r.pc = "feed" /\ UNCHANGED <<ent, skipped, data, fed>> /\ UNCHANGED <<minChunks, damage, healing>>
    BY <1>13 DEF FeedHangs, diskVars, graphVars, ghostVars
  <2>2. /\ \A x \in Builds \ {b} : build'[x] = build[x]
        /\ s.rows = r.rows /\ s.prev = r.prev /\ s.todo = r.todo /\ s.ka = r.ka
        /\ s.pc = "hung"
    <3>1. build[b].pc = "feed" /\ Goto(b, "hung")
      BY <1>13 DEF FeedHangs
    <3> QED
      BY <3>1, <1>0, GotoFields
  <2>3. Unmended' = Unmended /\ Running(b)
    BY <2>1 DEF Unmended, Running, Ended
  <2>5. ent \subseteq ent' /\ Inserted \subseteq Inserted'
    BY <1>13, <2>1 DEF Inserted
  <2>6. ~MapReduced(build[b].rows)'
    <3>1. ~MapReduced(r.rows)
      BY <2>1, <1>0 DEF Shape, DatasetPcs
    <3> QED
      BY <3>1, <2>1, <2>2 DEF MapReduced
  <2>7. ASSUME Unmended' \cap RetryKinds = {} PROVE Carries(b)'
    <3>1. Carries(b)
      BY <2>7, <2>3, <1>0 DEF EntityInv
    <3>2. Collected(b)'
      <4>1. Collected(b) /\ r.pc \in Busy
        BY <3>1, <2>1 DEF Carries, Busy, InsertPcs
      <4>2. s.pc \in {"references", "finish"} => s.ka \subseteq ent'
        BY <2>2
      <4> QED
        BY <4>1, <4>2, <2>2, <2>5, CollectedSame
    <3>3. NamesIn(Mentions(s.prev)) \subseteq s.ka \cup Inserted'
      BY <3>1, <2>2, <2>5 DEF Carries
    <3> QED
      BY <3>2, <3>3, <2>2 DEF Carries, InsertPcs
  <2>8. ~Resting'
    BY <2>2, <2>1 DEF Resting, InsertPcs
  <2> QED
    BY <2>1, <2>2, <2>3, <2>5, <2>6, <2>7, <2>8, <1>0, EntityBuild
<1>14. ASSUME NEW b \in Builds, DumpKA(b) PROVE EntityInv'
  <2> DEFINE r == build[b]
             s == build'[b]
  <2>1. r.pc = "feed" /\ UNCHANGED <<ent, skipped, fed>> /\ data' = r.ka /\ UNCHANGED <<minChunks, damage, healing>>
    BY <1>14 DEF DumpKA, diskVars, graphVars, ghostVars
  <2>2. /\ \A x \in Builds \ {b} : build'[x] = build[x]
        /\ s.rows = r.rows /\ s.prev = r.prev /\ s.todo = r.todo /\ s.ka = r.ka
        /\ s.pc = "sidecar"
    <3>1. build[b].pc = "feed" /\ build[b].todo = {} /\ Goto(b, "sidecar")
      BY <1>14 DEF DumpKA
    <3> QED
      BY <3>1, <1>0, GotoFields
  <2>3. Unmended' = Unmended /\ Running(b)
    BY <2>1 DEF Unmended, Running, Ended
  <2>5. ent \subseteq ent' /\ Inserted \subseteq Inserted'
    BY <1>14, <2>1 DEF Inserted
  <2>6. ~MapReduced(build[b].rows)'
    <3>1. ~MapReduced(r.rows)
      BY <2>1, <1>0 DEF Shape, DatasetPcs
    <3> QED
      BY <3>1, <2>1, <2>2 DEF MapReduced
  <2>7. ASSUME Unmended' \cap RetryKinds = {} PROVE Carries(b)'
    <3>1. Carries(b)
      BY <2>7, <2>3, <1>0 DEF EntityInv
    <3>2. Collected(b)'
      <4>1. Collected(b) /\ r.pc \in Busy
        BY <3>1, <2>1 DEF Carries, Busy, InsertPcs
      <4>2. s.pc \in {"references", "finish"} => s.ka \subseteq ent'
        BY <2>2
      <4> QED
        BY <4>1, <4>2, <2>2, <2>5, CollectedSame
    <3>3. NamesIn(Mentions(s.prev)) \subseteq s.ka \cup Inserted'
      BY <3>1, <2>2, <2>5 DEF Carries
    <3> QED
      BY <3>2, <3>3, <2>1, <2>2 DEF Carries, InsertPcs
  <2>8. ~Resting'
    BY <2>2, <2>1 DEF Resting, InsertPcs
  <2> QED
    BY <2>1, <2>2, <2>3, <2>5, <2>6, <2>7, <2>8, <1>0, EntityBuild
<1>15. ASSUME NEW b \in Builds, WriteSidecar(b) PROVE EntityInv'
  <2> DEFINE r == build[b]
             s == build'[b]
  <2>1. r.pc = "sidecar" /\ UNCHANGED <<ent, skipped, data>>
        /\ fed' = Overlay(r.prev, r.rows, {c \in Rows(r.rows) : r.prev[c] # r.rows[c]}) /\ UNCHANGED <<minChunks, damage, healing>>
    BY <1>15 DEF WriteSidecar, diskVars, graphVars, ghostVars
  <2>2. /\ \A x \in Builds \ {b} : build'[x] = build[x]
        /\ s.rows = r.rows /\ s.prev = Nothing /\ s.todo = r.todo /\ s.ka = r.ka
        /\ s.pc = (IF r.ka = {} THEN "finish" ELSE "entities")
    BY <1>15, <1>0, WriteSidecarFields
  <2>3. Unmended' = Unmended /\ Running(b)
    BY <2>1 DEF Unmended, Running, Ended
  <2>5. ent \subseteq ent' /\ Inserted \subseteq Inserted'
    BY <2>1 DEF Inserted
  <2>6. ~MapReduced(build[b].rows)'
    <3>1. ~MapReduced(r.rows)
      BY <2>1, <1>0 DEF Shape, DatasetPcs
    <3> QED
      BY <3>1, <2>1, <2>2 DEF MapReduced
  <2>7. ASSUME Unmended' \cap RetryKinds = {} PROVE Carries(b)'
    <3>1. Carries(b)
      BY <2>7, <2>3, <1>0 DEF EntityInv
    <3>2. Collected(b)'
      <4>1. Collected(b) /\ r.pc \in Busy
        BY <3>1, <2>1 DEF Carries, Busy, InsertPcs
      <4>2. s.pc \in {"references", "finish"} => s.ka \subseteq ent'
        BY <2>2
      <4> QED
        BY <4>1, <4>2, <2>2, <2>5, CollectedSame
    <3>3. NamesIn(Mentions(s.prev)) \subseteq s.ka \cup Inserted'
      BY <2>2, RowsIn, NamesOf
    <3>4. NamesIn(Mentions(r.rows)) \cup NamesIn(Mentions(r.prev)) \subseteq r.ka \cup Inserted
      <4>1. Pending(b) = {}
        BY <2>1, <1>0, PendingNone
      <4> QED
        BY <4>1, <3>1, <2>1 DEF Carries, Collected
    <3>5. NamesIn(Mentions(fed')) \subseteq NamesIn(Mentions(r.rows)) \cup NamesIn(Mentions(r.prev))
      <4>1. \A c \in Rows(fed') :
                \/ c \in Rows(r.rows) /\ fed'[c] = r.rows[c]
                \/ c \in Rows(r.prev) /\ fed'[c] = r.prev[c]
        BY <2>1 DEF Overlay, Rows
      <4>2. Mentions(fed') \subseteq Mentions(r.rows) \cup Mentions(r.prev)
        BY <4>1 DEF Mentions, Rows
      <4> QED
        BY <4>2 DEF NamesIn
    <3>6. Loadable' => r.ka \subseteq data'
      BY <3>1, <2>1 DEF Carries, Loadable
    <3> QED
      BY <3>2, <3>3, <3>4, <3>5, <3>6, <2>2, <2>5 DEF Carries
  <2>8. ~Resting'
    BY <2>2, <2>1 DEF Resting, InsertPcs
  <2> QED
    BY <2>1, <2>2, <2>3, <2>5, <2>6, <2>7, <2>8, <1>0, EntityBuild
<1>16. ASSUME NEW b \in Builds, MapChunks(b) PROVE EntityInv'
  <2> DEFINE r == build[b]
             s == build'[b]
  <2>1. r.pc = "map" /\ UNCHANGED <<ent, data, fed>> /\ UNCHANGED <<minChunks, damage, healing>>
    BY <1>16 DEF MapChunks, diskVars, graphVars, ghostVars
  <2>a. PICK got : /\ Becomes(b, [r EXCEPT !.pc = "checkpoint", !.ka = NamesIn(got),
                                            !.owned = got])
                   /\ skipped' = skipped \cup (NamesIn(Mentions(r.rows)) \ NamesIn(got))
    BY <1>16 DEF MapChunks
  <2>2. /\ \A x \in Builds \ {b} : build'[x] = build[x]
        /\ s.pc = "checkpoint" /\ s.rows = r.rows /\ s.prev = r.prev /\ s.ka = NamesIn(got)
    BY <2>a, <1>0, MapFields, ZenonT(30)
  <2>3. Unmended' = Unmended /\ Running(b)
    BY <2>1 DEF Unmended, Running, Ended
  <2>5. ent \subseteq ent' /\ Inserted \subseteq Inserted'
    BY <2>a, <2>1 DEF Inserted
  <2>6. Collected(b)'
    <3>1. NamesIn(Mentions(s.rows)) \subseteq s.ka \cup Inserted'
      BY <2>a, <2>2 DEF Inserted
    <3> QED
      BY <3>1, <2>2 DEF Collected, InsertPcs
  <2>7. Carries(b)'
    <3>1. NamesIn(Mentions(s.prev)) = {}
      BY <2>1, <2>2, <1>0, RowsIn, NamesOf DEF Shape, InsertPcs
    <3> QED
      BY <3>1, <2>2, <2>6 DEF Carries, InsertPcs
  <2>8. damage' \cap RetryKinds = {} /\ Loadable' /\ Resting'
            => NamesIn(Mentions(fed')) \subseteq data' \cup Inserted'
    <3>1. (Resting' => Resting) /\ (Loadable' <=> Loadable)
      BY <2>1, <2>2 DEF Resting, Loadable, InsertPcs
    <3> QED
      BY <3>1, <2>1, <2>5, <1>0 DEF EntityInv, Resting
  <2> QED
    BY <2>1, <2>2, <2>3, <2>5, <2>6, <2>7, <2>8, <1>0, EntityBuild
<1>17. ASSUME NEW b \in Builds, WriteCheckpoint(b) PROVE EntityInv'
  <2> DEFINE r == build[b]
             s == build'[b]
  <2>1. r.pc = "checkpoint" /\ UNCHANGED <<ent, skipped, data, fed>> /\ UNCHANGED <<minChunks, damage, healing>>
    BY <1>17 DEF WriteCheckpoint, diskVars, graphVars, ghostVars
  <2>2. /\ \A x \in Builds \ {b} : build'[x] = build[x]
        /\ s.rows = r.rows /\ s.prev = r.prev /\ s.todo = r.todo /\ s.ka = r.ka
        /\ s.pc = "mark"
    <3>1. build[b].pc = "checkpoint" /\ Goto(b, "mark")
      BY <1>17 DEF WriteCheckpoint
    <3> QED
      BY <3>1, <1>0, GotoFields
  <2>3. Unmended' = Unmended /\ Running(b)
    BY <2>1 DEF Unmended, Running, Ended
  <2>5. ent \subseteq ent' /\ Inserted \subseteq Inserted'
    BY <1>17, <2>1 DEF Inserted
  <2>6. ASSUME "cleared" \notin Unmended', MapReduced(build[b].rows)' PROVE Collected(b)'
    <3>1. Collected(b) /\ r.pc \in Busy
      BY <2>6, <2>1, <2>2, <2>3, <1>0 DEF EntityInv, MapReduced, Busy, InsertPcs
    <3>2. s.pc \in {"references", "finish"} => s.ka \subseteq ent'
      BY <2>2
    <3> QED
      BY <3>1, <3>2, <2>2, <2>5, CollectedSame
  <2>7. ASSUME Unmended' \cap RetryKinds = {} PROVE Carries(b)'
    <3>1. Carries(b)
      BY <2>7, <2>3, <1>0 DEF EntityInv
    <3>2. Collected(b)'
      <4>1. Collected(b) /\ r.pc \in Busy
        BY <3>1, <2>1 DEF Carries, Busy, InsertPcs
      <4>2. s.pc \in {"references", "finish"} => s.ka \subseteq ent'
        BY <2>2
      <4> QED
        BY <4>1, <4>2, <2>2, <2>5, CollectedSame
    <3>3. NamesIn(Mentions(s.prev)) \subseteq s.ka \cup Inserted'
      BY <3>1, <2>2, <2>5 DEF Carries
    <3> QED
      BY <3>2, <3>3, <2>2 DEF Carries, InsertPcs
  <2>8. damage' \cap RetryKinds = {} /\ Loadable' /\ Resting'
            => NamesIn(Mentions(fed')) \subseteq data' \cup Inserted'
    <3>1. (Resting' => Resting) /\ (Loadable' <=> Loadable)
      BY <2>1, <2>2 DEF Resting, Loadable, InsertPcs
    <3> QED
      BY <3>1, <2>1, <2>5, <1>0 DEF EntityInv, Resting
  <2> QED
    BY <2>1, <2>2, <2>3, <2>5, <2>6, <2>7, <2>8, <1>0, EntityBuild
<1>18. ASSUME NEW b \in Builds, MarkMapped(b) PROVE EntityInv'
  <2> DEFINE r == build[b]
             s == build'[b]
  <2>1. r.pc = "mark" /\ UNCHANGED <<ent, skipped, data>> /\ fed' = r.rows /\ UNCHANGED <<minChunks, damage, healing>>
    BY <1>18 DEF MarkMapped, diskVars, graphVars, ghostVars
  <2>2. /\ \A x \in Builds \ {b} : build'[x] = build[x]
        /\ s.rows = r.rows /\ s.prev = r.prev /\ s.todo = r.todo /\ s.ka = r.ka
        /\ s.pc = (IF r.ka = {} THEN "finish" ELSE "entities")
    <3>1. build[b].pc = "mark"
        /\ Goto(b, IF build[b].ka = {} THEN "finish" ELSE "entities")
      BY <1>18 DEF MarkMapped
    <3> QED
      BY <3>1, <1>0, GotoFields
  <2>3. Unmended' = Unmended /\ Running(b)
    BY <2>1 DEF Unmended, Running, Ended
  <2>5. ent \subseteq ent' /\ Inserted \subseteq Inserted'
    BY <1>18, <2>1 DEF Inserted
  <2>6. ASSUME "cleared" \notin Unmended', MapReduced(build[b].rows)' PROVE Collected(b)'
    <3>1. Collected(b) /\ r.pc \in Busy
      BY <2>6, <2>1, <2>2, <2>3, <1>0 DEF EntityInv, MapReduced, Busy, InsertPcs
    <3>2. s.pc \in {"references", "finish"} => s.ka \subseteq ent'
      BY <2>2
    <3> QED
      BY <3>1, <3>2, <2>2, <2>5, CollectedSame
  <2>7. ASSUME Unmended' \cap RetryKinds = {} PROVE Carries(b)'
    <3>1. Carries(b)
      BY <2>7, <2>3, <1>0 DEF EntityInv
    <3>2. Collected(b)'
      <4>1. Collected(b) /\ r.pc \in Busy
        BY <3>1, <2>1 DEF Carries, Busy, InsertPcs
      <4>2. s.pc \in {"references", "finish"} => s.ka \subseteq ent'
        BY <2>2
      <4> QED
        BY <4>1, <4>2, <2>2, <2>5, CollectedSame
    <3>3. NamesIn(Mentions(s.prev)) \subseteq s.ka \cup Inserted'
      BY <3>1, <2>2, <2>5 DEF Carries
    <3>4. NamesIn(Mentions(fed')) \subseteq s.ka \cup Inserted'
      <4>1. Pending(b) = {}
        BY <2>1, <1>0, PendingNone
      <4> QED
        BY <4>1, <3>1, <2>1, <2>2, <2>5 DEF Carries, Collected
    <3>5. MapReduced(build[b].rows)'
      <4>1. MapReduced(r.rows)
        BY <2>1, <1>0 DEF Shape, MapPcs
      <4> QED
        BY <4>1, <2>1, <2>2 DEF MapReduced
    <3> QED
      BY <3>2, <3>3, <3>4, <3>5, <2>2 DEF Carries
  <2>8. ~Resting'
    BY <2>2, <2>1 DEF Resting, InsertPcs
  <2> QED
    BY <2>1, <2>2, <2>3, <2>5, <2>6, <2>7, <2>8, <1>0, EntityBuild
<1>19. ASSUME NEW b \in Builds, InsertEntities(b) PROVE EntityInv'
  <2> DEFINE r == build[b]
             s == build'[b]
  <2>1. r.pc = "entities" /\ UNCHANGED <<skipped, data, fed>> /\ ent' = ent \cup r.ka /\ UNCHANGED <<minChunks, damage, healing>>
    BY <1>19 DEF InsertEntities, diskVars, graphVars, ghostVars
  <2>2. /\ \A x \in Builds \ {b} : build'[x] = build[x]
        /\ s.rows = r.rows /\ s.prev = r.prev /\ s.todo = r.todo /\ s.ka = r.ka
        /\ s.pc = "references"
    <3>1. build[b].pc = "entities" /\ Goto(b, "references")
      BY <1>19 DEF InsertEntities
    <3> QED
      BY <3>1, <1>0, GotoFields
  <2>3. Unmended' = Unmended /\ Running(b)
    BY <2>1 DEF Unmended, Running, Ended
  <2>5. ent \subseteq ent' /\ Inserted \subseteq Inserted'
    BY <2>1 DEF Inserted
  <2>6. ASSUME "cleared" \notin Unmended', MapReduced(build[b].rows)' PROVE Collected(b)'
    <3>1. Collected(b) /\ r.pc \in Busy
      BY <2>6, <2>1, <2>2, <2>3, <1>0 DEF EntityInv, MapReduced, Busy, InsertPcs
    <3>2. s.pc \in {"references", "finish"} => s.ka \subseteq ent'
      BY <2>1, <2>2
    <3> QED
      BY <3>1, <3>2, <2>2, <2>5, CollectedSame
  <2>7. ASSUME Unmended' \cap RetryKinds = {} PROVE Carries(b)'
    <3>1. Carries(b)
      BY <2>7, <2>3, <1>0 DEF EntityInv
    <3>2. Collected(b)'
      <4>1. Collected(b) /\ r.pc \in Busy
        BY <3>1, <2>1 DEF Carries, Busy, InsertPcs
      <4>2. s.pc \in {"references", "finish"} => s.ka \subseteq ent'
        BY <2>1, <2>2
      <4> QED
        BY <4>1, <4>2, <2>2, <2>5, CollectedSame
    <3>3. NamesIn(Mentions(s.prev)) \subseteq s.ka \cup Inserted'
      BY <3>1, <2>2, <2>5 DEF Carries
    <3>4. /\ r.pc \in InsertPcs /\ (Loadable' <=> Loadable)
          /\ (MapReduced(build[b].rows)' <=> MapReduced(r.rows))
      BY <2>1, <2>2 DEF InsertPcs, Loadable, MapReduced
    <3>5. Loadable' => /\ NamesIn(Mentions(fed')) \subseteq data' \cup Inserted' \cup s.ka
                       /\ ~MapReduced(build[b].rows)' => s.ka \subseteq data'
      BY <3>1, <3>4, <2>1, <2>2, <2>5 DEF Carries
    <3> QED
      BY <3>2, <3>3, <3>5, <2>2 DEF Carries
  <2>8. ~Resting'
    BY <2>2, <2>1 DEF Resting, InsertPcs
  <2> QED
    BY <2>1, <2>2, <2>3, <2>5, <2>6, <2>7, <2>8, <1>0, EntityBuild
<1>20. ASSUME NEW b \in Builds, InsertReferences(b) PROVE EntityInv'
  <2> DEFINE r == build[b]
             s == build'[b]
  <2>1. r.pc = "references" /\ UNCHANGED <<ent, data, fed>> /\ Attached(References(b))
        /\ skipped' = skipped \ NamesIn(References(b)) /\ UNCHANGED <<minChunks, damage, healing>>
    BY <1>20 DEF InsertReferences, diskVars, graphVars, ghostVars
  <2>2. /\ \A x \in Builds \ {b} : build'[x] = build[x]
        /\ s.rows = r.rows /\ s.prev = r.prev /\ s.todo = r.todo /\ s.ka = r.ka
        /\ s.pc = "finish"
    <3>1. build[b].pc = "references" /\ Goto(b, "finish")
      BY <1>20 DEF InsertReferences
    <3> QED
      BY <3>1, <1>0, GotoFields
  <2>3. Unmended' = Unmended /\ Running(b)
    BY <2>1 DEF Unmended, Running, Ended
  <2>5. ent \subseteq ent' /\ Inserted \subseteq Inserted'
    <3>1. NamesIn(References(b)) \subseteq ent
      BY <2>1 DEF Attached, NamesIn
    <3> QED
      BY <3>1, <2>1 DEF Inserted
  <2>6. ASSUME "cleared" \notin Unmended', MapReduced(build[b].rows)' PROVE Collected(b)'
    <3>1. Collected(b) /\ r.pc \in Busy
      BY <2>6, <2>1, <2>2, <2>3, <1>0 DEF EntityInv, MapReduced, Busy, InsertPcs
    <3>2. s.pc \in {"references", "finish"} => s.ka \subseteq ent'
      BY <3>1, <2>1, <2>2 DEF Collected
    <3> QED
      BY <3>1, <3>2, <2>2, <2>5, CollectedSame
  <2>7. ASSUME Unmended' \cap RetryKinds = {} PROVE Carries(b)'
    <3>1. Carries(b)
      BY <2>7, <2>3, <1>0 DEF EntityInv
    <3>2. Collected(b)'
      <4>1. Collected(b) /\ r.pc \in Busy
        BY <3>1, <2>1 DEF Carries, Busy, InsertPcs
      <4>2. s.pc \in {"references", "finish"} => s.ka \subseteq ent'
        BY <4>1, <2>1, <2>2 DEF Collected
      <4> QED
        BY <4>1, <4>2, <2>2, <2>5, CollectedSame
    <3>3. NamesIn(Mentions(s.prev)) \subseteq s.ka \cup Inserted'
      BY <3>1, <2>2, <2>5 DEF Carries
    <3>4. /\ r.pc \in InsertPcs /\ (Loadable' <=> Loadable)
          /\ (MapReduced(build[b].rows)' <=> MapReduced(r.rows))
      BY <2>1, <2>2 DEF InsertPcs, Loadable, MapReduced
    <3>5. Loadable' => /\ NamesIn(Mentions(fed')) \subseteq data' \cup Inserted' \cup s.ka
                       /\ ~MapReduced(build[b].rows)' => s.ka \subseteq data'
      BY <3>1, <3>4, <2>1, <2>2, <2>5 DEF Carries
    <3> QED
      BY <3>2, <3>3, <3>5, <2>2 DEF Carries
  <2>8. ~Resting'
    BY <2>2, <2>1 DEF Resting, InsertPcs
  <2> QED
    BY <2>1, <2>2, <2>3, <2>5, <2>6, <2>7, <2>8, <1>0, EntityBuild
<1>21. ASSUME NEW b \in Builds, SidecarWriteFails(b) PROVE EntityInv'
  <2> DEFINE r == build[b]
             s == build'[b]
  <2>1. /\ UNCHANGED <<minChunks, ent, skipped, data, fed>>
        /\ damage' = damage \cup {"stale"} /\ healing' = {}
    BY <1>21 DEF SidecarWriteFails, Damaged, diskVars, graphVars
  <2>2. /\ \A x \in Builds \ {b} : build'[x] = build[x]
        /\ s.rows = r.rows /\ s.prev = r.prev /\ s.todo = r.todo /\ s.ka = r.ka
        /\ s.pc = (IF r.ka = {} THEN "finish" ELSE "entities")
    <3>1. build[b].pc \in {"sidecar", "checkpoint", "mark"}
        /\ Goto(b, IF build[b].ka = {} THEN "finish" ELSE "entities")
      BY <1>21 DEF SidecarWriteFails
    <3> QED
      BY <3>1, <1>0, GotoFields
  <2>3. /\ Unmended \subseteq Unmended' /\ "stale" \in Unmended' /\ "stale" \in RetryKinds
        /\ Inserted \subseteq Inserted'
    BY <2>1 DEF Unmended, RetryKinds, Inserted
  <2>4. r.pc \in Busy
    BY <1>21 DEF SidecarWriteFails, Busy
  <2>6. ASSUME "cleared" \notin Unmended', MapReduced(build[b].rows)' PROVE Collected(b)'
    <3>1. Collected(b)
      BY <2>6, <2>1, <2>2, <2>3, <1>0 DEF EntityInv, MapReduced
    <3>2. s.pc \in {"references", "finish"} => s.ka \subseteq ent'
      BY <2>2
    <3> QED
      BY <3>1, <3>2, <2>2, <2>3, <2>4, CollectedSame
  <2> QED
    BY <2>1, <2>2, <2>3, <2>6, <1>0, EntityBuild
<1>22. ASSUME NEW b \in Builds, GraphGone(b) PROVE EntityInv'
  <2>1. /\ UNCHANGED <<minChunks, skipped, data, fed>> /\ Damaged(Cut(b)) /\ End(b, "failed")
        /\ build[b].pc # "finish"
    BY <1>22 DEF GraphGone, diskVars, Awaiting
  <2>2. build'[b].pc = "failed" /\ \A x \in Builds \ {b} : build'[x] = build[x]
    BY <2>1, <1>0, EndFields
  <2>3. ent \subseteq ent'
    BY <1>22 DEF GraphGone, graphVars
  <2>4. build'[b].pc \notin Busy
    BY <2>2 DEF Busy, InsertPcs
  <2> QED
    BY <2>1, <2>2, <2>3, <2>4, <1>0, EntityCut
<1>23. ASSUME NEW b \in Builds, BuildFails(b) PROVE EntityInv'
  <2>1. /\ UNCHANGED <<minChunks, skipped, data, fed>> /\ Damaged(Cut(b)) /\ End(b, "failed") /\ PartWritten(b)
        /\ build[b].pc # "finish"
    BY <1>23 DEF BuildFails, diskVars, Awaiting
  <2>2. build'[b].pc = "failed" /\ \A x \in Builds \ {b} : build'[x] = build[x]
    BY <2>1, <1>0, EndFields
  <2>3. ent \subseteq ent'
    BY <2>1 DEF PartWritten
  <2>4. build'[b].pc \notin Busy
    BY <2>2 DEF Busy, InsertPcs
  <2> QED
    BY <2>1, <2>2, <2>3, <2>4, <1>0, EntityCut
<1>24. ASSUME NEW b \in Builds, TimeoutBuild(b) PROVE EntityInv'
  <2>1. /\ UNCHANGED <<minChunks, skipped, data, fed>> /\ Damaged(Cut(b)) /\ End(b, "failed") /\ PartWritten(b)
        /\ build[b].pc # "finish"
    BY <1>24 DEF TimeoutBuild, diskVars, Awaiting
  <2>2. build'[b].pc = "failed" /\ \A x \in Builds \ {b} : build'[x] = build[x]
    BY <2>1, <1>0, EndFields
  <2>3. ent \subseteq ent'
    BY <2>1 DEF PartWritten
  <2>4. build'[b].pc \notin Busy
    BY <2>2 DEF Busy, InsertPcs
  <2> QED
    BY <2>1, <2>2, <2>3, <2>4, <1>0, EntityCut
<1>25. ASSUME NEW b \in Builds, FinishBuild(b) PROVE EntityInv'
  <2>1. /\ build[b].pc = "finish" /\ UNCHANGED <<minChunks, ent, skipped, data, fed>>
        /\ damage' = (IF build[b].incremental THEN damage ELSE damage \ healing)
        /\ healing' = (IF build[b].incremental THEN healing ELSE {})
    BY <1>25 DEF FinishBuild, diskVars, graphVars
  <2>2. build'[b].pc = "snapshot" /\ \A x \in Builds \ {b} : build'[x] = build[x]
    BY <1>25, <1>0, SnapFields
  <2>3. Running(b) /\ build[b].pc \in InsertPcs
    BY <2>1 DEF Running, Ended, InsertPcs
  <2>4. build[b].incremental => healing = {}
    BY <2>3, <1>0, HealsAlone DEF Healer
  <2>5. Unmended' = Unmended /\ damage' = Unmended
    BY <2>1, <2>4 DEF Unmended
  <2>6. build'[b].pc \notin Busy
    BY <2>2 DEF Busy, InsertPcs
  <2>7. Collected(b)' /\ Carries(b)'
    BY <2>6, <1>0, CollectedBlank, CarriesBlank
  <2>8. Inserted' = Inserted /\ (Loadable' <=> Loadable)
    BY <2>1 DEF Inserted, Loadable
  <2>9. ASSUME damage' \cap RetryKinds = {}, Loadable'
        PROVE  NamesIn(Mentions(fed')) \subseteq data' \cup Inserted'
    <3>1. Carries(b)
      BY <2>5, <2>9, <1>0 DEF EntityInv
    <3>2. NamesIn(Mentions(fed)) \subseteq data \cup Inserted \cup build[b].ka
      BY <3>1, <2>3, <2>8, <2>9 DEF Carries
    <3>3. build[b].ka \subseteq Inserted
      BY <3>1, <2>1 DEF Carries, Collected, Inserted
    <3> QED
      BY <3>2, <3>3, <2>1, <2>8
  <2> QED
    BY <2>1, <2>2, <2>5, <2>7, <2>8, <2>9, <1>0, EntityBuild
<1>31. ASSUME NEW b \in Builds, LetGo(b) PROVE EntityInv'
  <2>1. /\ UNCHANGED <<minChunks, ent, skipped, data, fed, damage, healing>>
        /\ \A x \in Builds \ {b} : build'[x] = build[x]
        /\ build[b].pc = "snapshot" /\ build'[b].pc \in {"completed", "stuck"}
    BY <1>31, <1>0, LetGoIs
  <2>2. build[b].pc \notin Busy /\ build'[b].pc \notin Busy
    BY <2>1 DEF Busy, InsertPcs
  <2> QED
    BY <2>1, <2>2, <1>0, EntityEarly
<1>26. ASSUME NEW z \in zombies, ZombieDump(z) PROVE EntityInv'
  <2>1. /\ UNCHANGED <<minChunks, build, ent, skipped>>
        /\ damage' = damage \cup {"raced"} /\ healing' = {}
    BY <1>26 DEF ZombieDump, RacedUnless, Damaged, graphVars
  <2> QED
    BY <2>1, <1>0, EntityVoid DEF RetryKinds
<1>27. ASSUME RollbackRestore PROVE EntityInv'
  <2>1. /\ UNCHANGED <<minChunks, build, ent, skipped>>
        /\ damage \subseteq damage' /\ "rolledback" \in damage' /\ healing' = {}
    BY <1>27 DEF RollbackRestore, Damaged, graphVars
  <2> QED
    BY <2>1, <1>0, EntityVoid DEF RetryKinds
<1>28. ASSUME ClearGraph PROVE EntityInv'
  <2>1. healing' = {} /\ "cleared" \in damage'
    BY <1>28 DEF ClearGraph, Damaged
  <2> QED
    BY <2>1 DEF EntityInv, Unmended, RetryKinds
<1>29. ASSUME NEW w \in Workers, Crash(w) PROVE EntityInv'
  <2> DEFINE mine == {b \in Builds : build[b].w = w /\ build[b].pc \notin {"none"} \cup Ended}
  <2>1. \A x \in Builds : (x \in mine => build'[x].pc = "gone") /\ (x \notin mine => build'[x] = build[x])
    <3>1. SUFFICES ASSUME NEW x \in Builds
                   PROVE  (x \in mine => build'[x].pc = "gone") /\ (x \notin mine => build'[x] = build[x])
      OBVIOUS
    <3>2. build'[x] = IF x \in mine THEN [Idle EXCEPT !.pc = "gone"] ELSE build[x]
      BY <1>29 DEF Crash
    <3> QED
      BY <3>2 DEF Idle
  <2>2. UNCHANGED <<minChunks, fed, skipped>> /\ data' \in {data, Torn}
    BY <1>29 DEF Crash
  <2>3. Loadable' => Loadable /\ data' = data
    BY <2>2 DEF Loadable

  <2>4. CASE \E b \in mine : Running(b)
    <3>1. PICK b \in mine : Running(b) /\ PartWritten(b) /\ Damaged(Cut(b))
      BY <1>29, <2>4 DEF Crash
    <3>2. damage' = damage \cup Cut(b) /\ healing' = {}
      BY <3>1, CutKinds DEF Damaged
    <3>3. ent \subseteq ent' /\ Inserted \subseteq Inserted' /\ Unmended \subseteq Unmended'
      BY <3>1, <3>2, <2>2 DEF PartWritten, Inserted, Unmended
    <3>4. ASSUME "cleared" \notin Unmended', NEW x \in Builds, MapReduced(build[x].rows)'
          PROVE  Collected(x)'
      <4>1. CASE x \in mine
        BY <4>1, <2>1, CollectedBlank DEF Busy, InsertPcs
      <4>2. CASE x \notin mine
        <5>1. Collected(x)
          BY <4>2, <3>4, <3>3, <2>1, <2>2, <1>0 DEF EntityInv, MapReduced
        <5> QED
          BY <5>1, <4>2, <3>3, <2>1, CollectedStays
      <4> QED
        BY <4>1, <4>2
    <3>5. ASSUME Unmended' \cap RetryKinds = {}, NEW x \in Builds PROVE Carries(x)'
      <4>1. CASE x \in mine
        BY <4>1, <2>1, <1>0, CarriesBlank DEF Busy, InsertPcs
      <4>2. CASE x \notin mine
        <5>1. Carries(x)
          BY <3>5, <3>3, <1>0 DEF EntityInv
        <5> QED
          BY <5>1, <4>2, <3>3, <2>1, <2>2, <2>3, CarriesStays
      <4> QED
        BY <4>1, <4>2
    <3>6. ASSUME damage' \cap RetryKinds = {}, Loadable', Resting'
          PROVE  NamesIn(Mentions(fed')) \subseteq data' \cup Inserted'
      <4>1. Unmended \cap RetryKinds = {} /\ damage \cap RetryKinds = {} /\ "raced" \notin Unmended
        BY <3>6, <3>2 DEF Unmended, RetryKinds
      <4>2. \A x \in Builds \ {b} : ~Running(x)
        BY <4>1, <3>1, <1>0 DEF SoloInv, Exclusive, Alone
      <4>3. build[b].pc \notin {"feed", "hung", "sidecar"}
        BY <3>6, <3>2 DEF Cut, RetryKinds
      <4>4. Carries(b) /\ Loadable
        BY <4>1, <3>6, <2>3, <1>0 DEF EntityInv
      <4>5. CASE build[b].pc = "finish"
        <5>1. NamesIn(Mentions(fed)) \subseteq data \cup Inserted \cup build[b].ka /\ build[b].ka \subseteq Inserted
          BY <4>4, <4>5 DEF Carries, Collected, Inserted, InsertPcs
        <5> QED
          BY <5>1, <3>3, <3>6, <2>2, <2>3
      <4>6. CASE build[b].pc \in {"entities", "references"}
        <5>1. ~MapReduced(build[b].rows)
          BY <4>6, <3>6, <3>2 DEF Cut, RetryKinds
        <5>2. NamesIn(Mentions(fed)) \subseteq data \cup Inserted \cup build[b].ka /\ build[b].ka \subseteq data
          BY <4>4, <4>6, <5>1 DEF Carries, InsertPcs
        <5> QED
          BY <5>2, <3>3, <3>6, <2>2, <2>3
      <4>7. CASE build[b].pc \notin InsertPcs
        <5>1. Resting
          BY <4>2, <4>3, <4>7 DEF Resting, Running, Ended, InsertPcs
        <5>2. NamesIn(Mentions(fed)) \subseteq data \cup Inserted
          BY <5>1, <4>1, <4>4, <1>0 DEF EntityInv, Resting
        <5> QED
          BY <5>2, <3>3, <3>6, <2>2, <2>3
      <4> QED
        BY <4>5, <4>6, <4>7 DEF InsertPcs
    <3> QED
      BY <3>4, <3>5, <3>6 DEF EntityInv, Resting
  <2>5. CASE ~\E b \in mine : Running(b)
    <3>1. UNCHANGED <<ent, damage, healing>>
      BY <1>29, <2>5 DEF Crash, graphVars
    <3>2. Inserted' = Inserted /\ Unmended' = Unmended
      BY <3>1, <2>2 DEF Inserted, Unmended
    <3>3. ASSUME "cleared" \notin Unmended', NEW x \in Builds, MapReduced(build[x].rows)'
          PROVE  Collected(x)'
      <4>1. CASE x \in mine
        BY <4>1, <2>1, CollectedBlank DEF Busy, InsertPcs
      <4>2. CASE x \notin mine
        <5>1. Collected(x)
          BY <4>2, <3>3, <3>2, <2>1, <2>2, <1>0 DEF EntityInv, MapReduced
        <5> QED
          BY <5>1, <4>2, <3>1, <3>2, <2>1, CollectedStays
      <4> QED
        BY <4>1, <4>2
    <3>4. ASSUME Unmended' \cap RetryKinds = {}, NEW x \in Builds PROVE Carries(x)'
      <4>1. CASE x \in mine
        BY <4>1, <2>1, <1>0, CarriesBlank DEF Busy, InsertPcs
      <4>2. CASE x \notin mine
        <5>1. Carries(x)
          BY <3>4, <3>2, <1>0 DEF EntityInv
        <5> QED
          BY <5>1, <4>2, <3>1, <3>2, <2>1, <2>2, <2>3, CarriesStays
      <4> QED
        BY <4>1, <4>2
    <3>5. Resting' => Resting
      BY <2>1, <2>5 DEF Resting, Running, Ended, InsertPcs
    <3>6. damage' \cap RetryKinds = {} /\ Loadable' /\ Resting'
              => NamesIn(Mentions(fed')) \subseteq data' \cup Inserted'
      BY <3>1, <3>2, <3>5, <2>2, <2>3, <1>0 DEF EntityInv, Resting
    <3> QED
      BY <3>3, <3>4, <3>6 DEF EntityInv, Resting
  <2> QED
    BY <2>4, <2>5
<1>30.
      \/ UNCHANGED <<minChunks, build, ent, skipped, data, fed>> /\ damage \subseteq damage'
              /\ healing' \subseteq healing
      \/ \E b \in Builds : BuildStep(b) \/ BuildFault(b)
      \/ \E w \in Workers, i \in BOOLEAN : KgBuild(w, i)
      \/ \E z \in zombies : ZombieDump(z)
      \/ \E w \in Workers : Crash(w)
      \/ ClearGraph
      \/ RollbackRestore
  <2>1. ASSUME NEW w \in Workers, NEW v \in DOMAIN dirs, RollbackStart(w, v)
        PROVE  UNCHANGED <<minChunks, build, ent, skipped, data, fed>> /\ damage \subseteq damage'
              /\ healing' \subseteq healing
    BY <2>1 DEF RollbackStart, Damaged, graphVars, diskVars, ghostVars
  <2>2. ASSUME NEW w \in Workers, NEW j \in PruneKeeps, PruneOp(w, j)
        PROVE  UNCHANGED <<minChunks, build, ent, skipped, data, fed>> /\ damage \subseteq damage'
              /\ healing' \subseteq healing
    BY <2>2 DEF PruneOp, Damaged, graphVars, diskVars, ghostVars
  <2>3. ASSUME RollbackList \/ PruneOpList \/ Done
        PROVE  UNCHANGED <<minChunks, build, ent, skipped, data, fed>> /\ damage \subseteq damage'
              /\ healing' \subseteq healing
    BY <2>3 DEF RollbackList, PruneOpList, Done, vars, graphVars, diskVars, ghostVars
  <2>4. ASSUME NEW c \in Chunks, NEW t \in Texts \cup {NoText}, EditTable(c, t)
        PROVE  UNCHANGED <<minChunks, build, ent, skipped, data, fed>> /\ damage \subseteq damage'
              /\ healing' \subseteq healing
    BY <2>4 DEF EditTable, graphVars, diskVars, ghostVars
  <2> QED
    BY <2>1, <2>2, <2>3, <2>4 DEF Next, OpStep
<1> QED
  BY <1>30, <1>1, <1>2, <1>3, <1>4, <1>5, <1>6, <1>7, <1>8, <1>9, <1>10, <1>11, <1>12,
     <1>13, <1>14, <1>15, <1>16, <1>17, <1>18, <1>19, <1>20, <1>21, <1>22, <1>23,
     <1>24, <1>25, <1>26, <1>27, <1>28, <1>29, <1>31 DEF BuildStep, BuildFault, LetGo

\* A build that has ended, or has not begun, owes nothing.
LEMMA OwesNothing ==
    ASSUME NEW x \in Builds, Shape(x)', build'[x].pc \notin Busy, ~Past(x)'
    PROVE  Owes(x)'
<1>1. /\ build'[x].prev = Nothing /\ NamesIn(Mentions(Nothing)) = {} /\ build'[x].ka = {}
      /\ build'[x].owned = {}
  BY RowsIn, NamesOf DEF Shape, Busy
<1>2. build'[x].pc \notin {"finish", "sidecar"} \cup InsertPcs
  BY DEF Busy, InsertPcs
<1> QED
  BY <1>1, <1>2 DEF Owes, Busy

\* A build that does not run owes no reference.
LEMMA OwesRests ==
    ASSUME NEW x \in Builds, ~Running(x), build'[x] = build[x], Shape(x)'
    PROVE  Owes(x)' /\ build'[x].ka = {}
<1>1. build'[x].pc \notin Busy
  BY RestsBlank
<1>2. ~Past(x)'
  BY PastRuns DEF Past
<1> QED
  BY <1>1, <1>2, OwesNothing DEF Shape, Busy

\* A step of another build keeps what this one owes.
LEMMA OwesStays ==
    ASSUME NEW x \in Builds, Owes(x), build'[x] = build[x], minChunks' = minChunks,
           fed' = fed, Loadable' => Loadable /\ data' = data, Covered \subseteq Covered'
    PROVE  Owes(x)'
<1>1. Pending(x)' = Pending(x) /\ (Past(x)' <=> Past(x))
      /\ (MapReduced(build[x].rows)' <=> MapReduced(build[x].rows))
  BY DEF Pending, Past, MapReduced
<1>2. Past(x)' => \A m \in Mentions(build'[x].rows) : m[1] \in build'[x].new \/ m[2] \in Covered'
  BY <1>1 DEF Owes
<1>3. /\ build'[x].ka \subseteq Covered' \cup NamesIn(build'[x].owned)
      /\ build'[x].pc = "finish" => build'[x].ka \subseteq Covered'
      /\ NamesIn(Mentions(build'[x].prev)) \subseteq Covered'
      /\ build'[x].pc \in InsertPcs => NamesIn(Mentions(fed')) \subseteq build'[x].ka \cup Covered'
  BY DEF Owes
<1>4. build'[x].pc \in {"feed", "hung", "sidecar", "checkpoint", "mark"} \cup InsertPcs
          => NamesIn(Mentions(build'[x].rows)) \subseteq build'[x].ka \cup Covered' \cup Pending(x)'
  BY <1>1 DEF Owes
<1>5. build'[x].pc \in {"sidecar"} \cup InsertPcs /\ ~MapReduced(build[x].rows)' /\ Loadable'
          => data' \subseteq build'[x].ka \cup Covered'
  BY <1>1 DEF Owes
<1> QED
  BY <1>2, <1>3, <1>4, <1>5 DEF Owes

\* A step of one build.
LEMMA CoveredBuild ==
    ASSUME CoveredInv, SoloInv, \A x \in Builds : Shape(x)', NEW b \in Builds,
           \A x \in Builds \ {b} : build'[x] = build[x], minChunks' = minChunks,
           Covered \subseteq Covered', Unmended \subseteq Unmended',
           UNCHANGED <<data, fed>> \/ Running(b),
           Unmended' \subseteq {"stale"} => Owes(b)',
           damage' \subseteq {"stale"} =>
               /\ Loadable' => \A n \in data' : n \in Covered' \/ \E x \in Builds : n \in build'[x].ka
               /\ (\A x \in Builds : build'[x].pc \notin InsertPcs) => NamesIn(Mentions(fed')) \subseteq Covered'
    PROVE  CoveredInv'
<1>1. ASSUME Unmended' \subseteq {"stale"}, NEW x \in Builds PROVE Owes(x)'
  <2>1. CASE x = b
    BY <1>1, <2>1
  <2>2. CASE x # b /\ Running(b)
    <3>1. "raced" \notin Unmended
      BY <1>1
    <3>2. ~Running(x)
      BY <3>1, <2>2 DEF SoloInv, Exclusive, Alone
    <3> QED
      BY <3>2, <2>2, OwesRests
  <2>3. CASE x # b /\ UNCHANGED <<data, fed>>
    <3>1. Owes(x)
      BY <1>1 DEF CoveredInv
    <3>2. Loadable' => Loadable /\ data' = data
      BY <2>3 DEF Loadable
    <3> QED
      BY <3>1, <3>2, <2>3, OwesStays
  <2> QED
    BY <2>1, <2>2, <2>3
<1> QED
  BY <1>1 DEF CoveredInv

\* Only damage and the pending names of builds that are not there change.
LEMMA CoveredVoid ==
    ASSUME ~(damage' \subseteq {"stale"}), healing' = {}
    PROVE  CoveredInv'
  BY DEF CoveredInv, Unmended

\* CoveredInv stays when neither names nor files change.
LEMMA CoveredSame ==
    ASSUME CoveredInv, UNCHANGED <<minChunks, build, ref, skipped, data, fed>>,
           damage \subseteq damage', healing' \subseteq healing
    PROVE  CoveredInv'
<1>1. Unmended \subseteq Unmended' /\ Covered' = Covered /\ (Loadable' <=> Loadable)
  BY DEF Unmended, Covered, Loadable
<1>2. ASSUME Unmended' \subseteq {"stale"}, NEW x \in Builds PROVE Owes(x)'
  <2>1. Owes(x)
    BY <1>1, <1>2 DEF CoveredInv
  <2> QED
    BY <2>1, <1>1, OwesStays
<1> QED
  BY <1>1, <1>2 DEF CoveredInv

\* The dump and the marks where no file changes and no build drops names.
LEMMA FilesCovered ==
    ASSUME CoveredInv, damage \subseteq damage', UNCHANGED <<data, fed>>,
           Covered \subseteq Covered',
           \A x \in Builds : build[x].ka \subseteq build'[x].ka \cup Covered',
           \A x \in Builds : build[x].pc \in InsertPcs => build'[x].pc \in InsertPcs
    PROVE  damage' \subseteq {"stale"} =>
               /\ Loadable' => \A n \in data' : n \in Covered' \/ \E x \in Builds : n \in build'[x].ka
               /\ (\A x \in Builds : build'[x].pc \notin InsertPcs) => NamesIn(Mentions(fed')) \subseteq Covered'
<1>1. SUFFICES ASSUME damage \subseteq {"stale"}
               PROVE  /\ Loadable' => \A n \in data' : n \in Covered' \/ \E x \in Builds : n \in build'[x].ka
                      /\ (\A x \in Builds : build'[x].pc \notin InsertPcs) => NamesIn(Mentions(fed')) \subseteq Covered'
  OBVIOUS
<1>2. ASSUME Loadable', NEW f \in data'
      PROVE  f \in Covered' \/ \E x \in Builds : f \in build'[x].ka
  <2>1. f \in Covered \/ \E x \in Builds : f \in build[x].ka
    BY <1>1, <1>2 DEF CoveredInv, Loadable
  <2> QED
    BY <2>1
<1>3. ASSUME \A x \in Builds : build'[x].pc \notin InsertPcs
      PROVE  NamesIn(Mentions(fed')) \subseteq Covered'
  <2>1. NamesIn(Mentions(fed)) \subseteq Covered
    BY <1>1, <1>3 DEF CoveredInv
  <2> QED
    BY <2>1
<1> QED
  BY <1>2, <1>3

\* A build that has its vertices and has collected nothing yet.
LEMMA OwesEarly ==
    ASSUME NEW b \in Builds, Shape(b)', build'[b].pc \notin Busy,
           \A m \in Mentions(build'[b].rows) : m[1] \in build'[b].new \/ m[2] \in Covered'
    PROVE  Owes(b)'
<1>1. /\ build'[b].prev = Nothing /\ NamesIn(Mentions(Nothing)) = {} /\ build'[b].ka = {}
      /\ build'[b].owned = {}
  BY RowsIn, NamesOf DEF Shape, Busy
<1>2. build'[b].pc \notin {"finish", "sidecar"} \cup InsertPcs
  BY DEF Busy, InsertPcs
<1> QED
  BY <1>1, <1>2 DEF Owes, Busy

\* A build that goes on with what it has collected.
LEMMA OwesGoes ==
    ASSUME NEW b \in Builds, Owes(b), build[b].pc \in Busy, Past(b),
           build'[b].rows = build[b].rows, build'[b].new = build[b].new,
           build'[b].ka = build[b].ka, build'[b].owned = build[b].owned,
           build'[b].todo = build[b].todo, Covered \subseteq Covered',
           build'[b].prev = build[b].prev \/ build'[b].prev = Nothing,
           build'[b].pc = "finish" => build'[b].ka \subseteq Covered',
           build'[b].pc \in InsertPcs => NamesIn(Mentions(fed')) \subseteq build'[b].ka \cup Covered',
           build'[b].pc \in {"sidecar"} \cup InsertPcs /\ ~MapReduced(build[b].rows)' /\ Loadable'
               => data' \subseteq build'[b].ka \cup Covered'
    PROVE  Owes(b)'
<1>1. Pending(b)' = Pending(b)
  BY DEF Pending
<1>2. NamesIn(Mentions(build[b].rows)) \subseteq build[b].ka \cup Covered \cup Pending(b)
  BY DEF Owes, Busy
<1>3. \A m \in Mentions(build'[b].rows) : m[1] \in build'[b].new \/ m[2] \in Covered'
  BY DEF Owes
<1>4. /\ build'[b].ka \subseteq Covered' \cup NamesIn(build'[b].owned)
      /\ NamesIn(Mentions(build'[b].prev)) \subseteq Covered'
  BY RowsIn, NamesOf DEF Owes
<1> QED
  BY <1>1, <1>2, <1>3, <1>4 DEF Owes

\* Every action keeps references ahead of the marks, or owed by the build that marks.
LEMMA CoveredStep ==
    ASSUME BaseTypes, BaseTypes', ListedExist, ControlInv, ControlInv', CoveredInv, Next
    PROVE  CoveredInv'
<1>0. /\ build \in [Builds -> BuildStates] /\ BaseTypes /\ CoveredInv /\ HealInv /\ SoloInv
      /\ (\A x \in Builds : Shape(x)) /\ (\A x \in Builds : Shape(x)')
      /\ healing \subseteq damage
  BY DEF BaseTypes, ControlInv
<1>1. ASSUME UNCHANGED <<minChunks, build, ref, skipped, data, fed>>, damage \subseteq damage',
             healing' \subseteq healing
      PROVE CoveredInv'
  BY <1>1, <1>0, CoveredSame
<1>2. ASSUME NEW w \in Workers, NEW i \in BOOLEAN, KgBuild(w, i) PROVE CoveredInv'
  <2>1. UNCHANGED <<minChunks, ref, skipped, data, fed>> /\ damage \subseteq damage' /\ healing' \subseteq healing
    BY <1>2 DEF KgBuild, RacedUnless, Damaged, diskVars, graphVars, ghostVars
  <2>2. PICK b \in Builds : /\ build[b].pc = "none"
                            /\ Becomes(b, [Idle EXCEPT !.pc = "queued", !.w = w,
                                           !.incremental = i, !.rows = table])
    BY <1>2 DEF KgBuild
  <2>3. /\ build[b].pc = "none" /\ build'[b].pc = "queued"
        /\ \A x \in Builds \ {b} : build'[x] = build[x]
    BY <2>2, <1>0, QueueFields
  <2>5. build[b].pc \notin Busy /\ build'[b].pc \notin Busy /\ ~Past(b)'
    BY <2>3 DEF Busy, InsertPcs, Past, PastPcs, DatasetPcs, MapPcs
  <2>6. Owes(b)'
    BY <2>5, <1>0, OwesNothing
  <2>7. build[b].ka = {}
    BY <2>5, <1>0 DEF Shape, Busy
  <2>8. Covered' = Covered /\ Unmended \subseteq Unmended'
    BY <2>1 DEF Covered, Unmended
  <2>9. \A x \in Builds : build[x].pc \in InsertPcs => build'[x].pc \in InsertPcs
    BY <2>3, <2>5 DEF Busy
  <2>10. \A x \in Builds : build[x].ka \subseteq build'[x].ka \cup Covered'
    BY <2>3, <2>7
  <2>11. damage' \subseteq {"stale"} =>
            /\ Loadable' => \A n \in data' : n \in Covered' \/ \E x \in Builds : n \in build'[x].ka
            /\ (\A x \in Builds : build'[x].pc \notin InsertPcs) => NamesIn(Mentions(fed')) \subseteq Covered'
    BY <2>1, <2>8, <2>9, <2>10, <1>0, FilesCovered
  <2> QED
    BY <2>1, <2>3, <2>6, <2>8, <2>11, <1>0, CoveredBuild
<1>3. ASSUME NEW b \in Builds, AcquireLock(b) PROVE CoveredInv'
  <2>1. UNCHANGED <<minChunks, ref, skipped, data, fed>> /\ damage \subseteq damage' /\ healing' \subseteq healing
    BY <1>3 DEF AcquireLock, RacedUnless, Damaged, diskVars, graphVars, ghostVars
  <2>2. build[b].pc = "queued" /\ Goto(b, "vertices")
    BY <1>3 DEF AcquireLock
  <2>3. /\ build[b].pc = "queued" /\ build'[b].pc = "vertices"
        /\ \A x \in Builds \ {b} : build'[x] = build[x]
    BY <2>2, <1>0, GotoFields
  <2>5. build[b].pc \notin Busy /\ build'[b].pc \notin Busy /\ ~Past(b)'
    BY <2>3 DEF Busy, InsertPcs, Past, PastPcs, DatasetPcs, MapPcs
  <2>6. Owes(b)'
    BY <2>5, <1>0, OwesNothing
  <2>7. build[b].ka = {}
    BY <2>5, <1>0 DEF Shape, Busy
  <2>8. Covered' = Covered /\ Unmended \subseteq Unmended'
    BY <2>1 DEF Covered, Unmended
  <2>9. \A x \in Builds : build[x].pc \in InsertPcs => build'[x].pc \in InsertPcs
    BY <2>3, <2>5 DEF Busy
  <2>10. \A x \in Builds : build[x].ka \subseteq build'[x].ka \cup Covered'
    BY <2>3, <2>7
  <2>11. damage' \subseteq {"stale"} =>
            /\ Loadable' => \A n \in data' : n \in Covered' \/ \E x \in Builds : n \in build'[x].ka
            /\ (\A x \in Builds : build'[x].pc \notin InsertPcs) => NamesIn(Mentions(fed')) \subseteq Covered'
    BY <2>1, <2>8, <2>9, <2>10, <1>0, FilesCovered
  <2> QED
    BY <2>1, <2>3, <2>6, <2>8, <2>11, <1>0, CoveredBuild
<1>4. ASSUME NEW b \in Builds, AddVertices(b) PROVE CoveredInv'
  <2> DEFINE r == build[b]
             s == build'[b]
  <2>1. /\ UNCHANGED <<minChunks, ref, skipped, data, fed, damage>>
        /\ r.pc = "vertices"
    BY <1>4 DEF AddVertices, diskVars
  <2>2. Running(b) /\ ~Past(b)
    BY <2>1, PastRuns
  <2>3. healing = {}
    BY <2>2, <1>0, HealsAlone DEF Healer
  <2>4. Covered' = Covered
    BY <2>1 DEF Covered
  <2>5. /\ \A x \in Builds \ {b} : build'[x] = build[x]
        /\ \/ s.pc = "completed" /\ healing' = healing
           \/ /\ s.pc \in {"map", "archive"} /\ s.rows = r.rows /\ s.new = NewChunks(b)
              /\ healing' = (IF r.incremental \/ ~Alone(b) THEN healing ELSE MadeGood(r.rows))
    <3>1. CASE Rows(r.rows) = {}
      <4>1. End(b, "completed") /\ healing' = healing
        BY <1>4, <3>1 DEF AddVertices
      <4> QED
        BY <4>1, <1>0, EndFields
    <3>2. CASE Rows(r.rows) # {}
      <4>1. healing' = (IF r.incremental \/ ~Alone(b) THEN healing ELSE MadeGood(r.rows))
        BY <1>4, <3>2 DEF AddVertices
      <4> QED
        BY <4>1, <3>2, <1>4, <1>0, AddVerticesFields
    <3> QED
      BY <3>1, <3>2
  <2>6. r.pc \notin Busy /\ s.pc \notin Busy
    BY <2>1, <2>5 DEF Busy, InsertPcs
  <2>7. ASSUME Unmended' \subseteq {"stale"} PROVE Owes(b)'
    <3>1. CASE s.pc = "completed"
      <4>1. ~Past(b)'
        BY <3>1 DEF Past, PastPcs, DatasetPcs, MapPcs, InsertPcs
      <4> QED
        BY <4>1, <2>6, <1>0, OwesNothing
    <3>2. CASE s.rows = r.rows /\ s.new = NewChunks(b)
               /\ healing' = (IF r.incremental \/ ~Alone(b) THEN healing ELSE MadeGood(r.rows))
      <4>1. ASSUME NEW m \in Mentions(r.rows), m[1] \notin NewChunks(b) PROVE m[2] \in Covered
        <5>1. r.incremental /\ m \in Mentions(fed)
          <6>1. m[1] \in Rows(r.rows)
            BY MentionIs
          <6>2. r.incremental /\ fed[m[1]] = r.rows[m[1]]
            BY <4>1, <6>1 DEF NewChunks
          <6> QED
            BY <6>2 DEF Mentions
        <5>2. damage \subseteq {"stale"} /\ "raced" \notin Unmended
          BY <5>1, <3>2, <2>1, <2>3, <2>7 DEF Unmended
        <5>3. \A x \in Builds \ {b} : ~Running(x)
          BY <5>2, <2>2, <1>0 DEF SoloInv, Exclusive, Alone
        <5>4. \A x \in Builds : build[x].pc \notin InsertPcs
          BY <5>3, <2>1 DEF Running, Ended, InsertPcs
        <5>5. NamesIn(Mentions(fed)) \subseteq Covered
          BY <5>2, <5>4, <1>0 DEF CoveredInv
        <5> QED
          BY <5>1, <5>5 DEF NamesIn
      <4> QED
        BY <4>1, <3>2, <2>4, <2>6, <1>0, OwesEarly
    <3> QED
      BY <3>1, <3>2, <2>5
  <2>8. damage' \subseteq {"stale"} =>
            /\ Loadable' => \A n \in data' : n \in Covered' \/ \E x \in Builds : n \in build'[x].ka
            /\ (\A x \in Builds : build'[x].pc \notin InsertPcs) => NamesIn(Mentions(fed')) \subseteq Covered'
    <3>1. \A x \in Builds : build[x].pc \in InsertPcs => build'[x].pc \in InsertPcs
      BY <2>5, <2>6 DEF Busy
    <3>2. r.ka = {}
      BY <2>6, <1>0 DEF Shape, Busy
    <3>3. \A x \in Builds : build[x].ka \subseteq build'[x].ka \cup Covered'
      BY <2>5, <3>2
    <3> QED
      BY <3>1, <3>3, <2>1, <2>4, <1>0, FilesCovered
  <2>9. CASE healing' = {}
    <3>1. Unmended \subseteq Unmended'
      BY <2>1, <2>9 DEF Unmended
    <3> QED
      BY <3>1, <2>1, <2>4, <2>5, <2>7, <2>8, <1>0, CoveredBuild
  <2>10. CASE healing' # {}
    <3>1. Alone(b)
      BY <2>3, <2>5, <2>10
    <3>2. \A x \in Builds \ {b} : Owes(x)'
      BY <3>1, <2>5, <1>0, OwesRests DEF Alone
    <3> QED
      BY <3>2, <2>7, <2>8 DEF CoveredInv
  <2> QED
    BY <2>9, <2>10
<1>5. ASSUME NEW b \in Builds, VersioningFails(b) PROVE CoveredInv'
  <2> DEFINE r == build[b]
             s == build'[b]
  <2>1. /\ r.pc \in {"archive", "list", "trim"} /\ UNCHANGED <<ref, skipped, data, fed>>
        /\ UNCHANGED <<minChunks, damage, healing>>
    BY <1>5 DEF VersioningFails, diskVars, graphVars
  <2>2. /\ \A x \in Builds \ {b} : build'[x] = build[x]
        /\ s.pc = "load" /\ s.rows = r.rows /\ s.new = r.new /\ s.ka = r.ka
    BY <1>5, <1>0, VersioningFailsFields
  <2>3. Unmended' = Unmended /\ Running(b) /\ Past(b)
    BY <2>1 DEF Unmended, Running, Ended, Past, PastPcs, DatasetPcs, MapPcs, InsertPcs
  <2>4. Covered \subseteq Covered'
    BY <2>1 DEF Covered
  <2>7. ASSUME Unmended' \subseteq {"stale"} PROVE Owes(b)'
    <3>1. Owes(b)
      BY <2>7, <2>3, <1>0 DEF CoveredInv
    <3>2. \A m \in Mentions(s.rows) : m[1] \in s.new \/ m[2] \in Covered'
      BY <3>1, <2>2, <2>3, <2>4 DEF Owes
    <3>3. s.pc \notin Busy
      BY <2>2 DEF Busy, InsertPcs
    <3> QED
      BY <3>2, <3>3, <1>0, OwesEarly
  <2>8. damage' \subseteq {"stale"} =>
            /\ Loadable' => \A n \in data' : n \in Covered' \/ \E x \in Builds : n \in build'[x].ka
            /\ (\A x \in Builds : build'[x].pc \notin InsertPcs) => NamesIn(Mentions(fed')) \subseteq Covered'
    <3>1. \A x \in Builds : build[x].pc \in InsertPcs => build'[x].pc \in InsertPcs
      BY <2>1, <2>2 DEF InsertPcs
    <3>2. \A x \in Builds : build[x].ka \subseteq build'[x].ka \cup Covered'
      BY <2>2
    <3> QED
      BY <3>1, <3>2, <2>1, <2>4, <1>0, FilesCovered
  <2> QED
    BY <2>1, <2>2, <2>3, <2>4, <2>7, <2>8, <1>0, CoveredBuild
<1>6. ASSUME NEW b \in Builds, ArchiveList(b) PROVE CoveredInv'
  <2> DEFINE r == build[b]
             s == build'[b]
  <2>1. r.pc = "list" /\ UNCHANGED <<ref, skipped, data, fed>> /\ UNCHANGED <<minChunks, damage, healing>>
    BY <1>6 DEF ArchiveList, diskVars, graphVars, ghostVars
  <2>2. /\ \A x \in Builds \ {b} : build'[x] = build[x]
        /\ s.pc = "prune" /\ s.rows = r.rows /\ s.new = r.new /\ s.ka = r.ka
    <3>1. build[b].pc = "list"
      BY <1>6 DEF ArchiveList
    <3> QED
      BY <3>1, <1>6, <1>0, ArchiveListFields
  <2>3. Unmended' = Unmended /\ Running(b) /\ Past(b)
    BY <2>1 DEF Unmended, Running, Ended, Past, PastPcs, DatasetPcs, MapPcs, InsertPcs
  <2>4. Covered \subseteq Covered'
    BY <2>1 DEF Covered
  <2>7. ASSUME Unmended' \subseteq {"stale"} PROVE Owes(b)'
    <3>1. Owes(b)
      BY <2>7, <2>3, <1>0 DEF CoveredInv
    <3>2. \A m \in Mentions(s.rows) : m[1] \in s.new \/ m[2] \in Covered'
      BY <3>1, <2>2, <2>3, <2>4 DEF Owes
    <3>3. s.pc \notin Busy
      BY <2>2 DEF Busy, InsertPcs
    <3> QED
      BY <3>2, <3>3, <1>0, OwesEarly
  <2>8. damage' \subseteq {"stale"} =>
            /\ Loadable' => \A n \in data' : n \in Covered' \/ \E x \in Builds : n \in build'[x].ka
            /\ (\A x \in Builds : build'[x].pc \notin InsertPcs) => NamesIn(Mentions(fed')) \subseteq Covered'
    <3>1. \A x \in Builds : build[x].pc \in InsertPcs => build'[x].pc \in InsertPcs
      BY <2>1, <2>2 DEF InsertPcs
    <3>2. \A x \in Builds : build[x].ka \subseteq build'[x].ka \cup Covered'
      BY <2>2
    <3> QED
      BY <3>1, <3>2, <2>1, <2>4, <1>0, FilesCovered
  <2> QED
    BY <2>1, <2>2, <2>3, <2>4, <2>7, <2>8, <1>0, CoveredBuild
<1>7. ASSUME NEW b \in Builds, PruneDirs(b) PROVE CoveredInv'
  <2> DEFINE r == build[b]
             s == build'[b]
  <2>1. r.pc = "prune" /\ UNCHANGED <<ref, skipped, data, fed>> /\ UNCHANGED <<minChunks, damage, healing>>
    BY <1>7 DEF PruneDirs, diskVars, graphVars, ghostVars
  <2>2. /\ \A x \in Builds \ {b} : build'[x] = build[x]
        /\ s.pc \in {"load", "trim"} /\ s.rows = r.rows /\ s.new = r.new /\ s.ka = r.ka
    <3>1. build[b].pc = "prune"
      BY <1>7 DEF PruneDirs
    <3> QED
      BY <3>1, <1>7, <1>0, PruneDirsFields
  <2>3. Unmended' = Unmended /\ Running(b) /\ Past(b)
    BY <2>1 DEF Unmended, Running, Ended, Past, PastPcs, DatasetPcs, MapPcs, InsertPcs
  <2>4. Covered \subseteq Covered'
    BY <2>1 DEF Covered
  <2>7. ASSUME Unmended' \subseteq {"stale"} PROVE Owes(b)'
    <3>1. Owes(b)
      BY <2>7, <2>3, <1>0 DEF CoveredInv
    <3>2. \A m \in Mentions(s.rows) : m[1] \in s.new \/ m[2] \in Covered'
      BY <3>1, <2>2, <2>3, <2>4 DEF Owes
    <3>3. s.pc \notin Busy
      BY <2>2 DEF Busy, InsertPcs
    <3> QED
      BY <3>2, <3>3, <1>0, OwesEarly
  <2>8. damage' \subseteq {"stale"} =>
            /\ Loadable' => \A n \in data' : n \in Covered' \/ \E x \in Builds : n \in build'[x].ka
            /\ (\A x \in Builds : build'[x].pc \notin InsertPcs) => NamesIn(Mentions(fed')) \subseteq Covered'
    <3>1. \A x \in Builds : build[x].pc \in InsertPcs => build'[x].pc \in InsertPcs
      BY <2>1, <2>2 DEF InsertPcs
    <3>2. \A x \in Builds : build[x].ka \subseteq build'[x].ka \cup Covered'
      BY <2>2
    <3> QED
      BY <3>1, <3>2, <2>1, <2>4, <1>0, FilesCovered
  <2> QED
    BY <2>1, <2>2, <2>3, <2>4, <2>7, <2>8, <1>0, CoveredBuild
<1>8. ASSUME NEW b \in Builds, PruneList(b) PROVE CoveredInv'
  <2> DEFINE r == build[b]
             s == build'[b]
  <2>1. r.pc = "trim" /\ UNCHANGED <<ref, skipped, data, fed>> /\ UNCHANGED <<minChunks, damage, healing>>
    BY <1>8 DEF PruneList, diskVars, graphVars, ghostVars
  <2>2. /\ \A x \in Builds \ {b} : build'[x] = build[x]
        /\ s.pc = "load" /\ s.rows = r.rows /\ s.new = r.new /\ s.ka = r.ka
    <3>1. build[b].pc = "trim"
      BY <1>8 DEF PruneList
    <3> QED
      BY <3>1, <1>8, <1>0, PruneListFields
  <2>3. Unmended' = Unmended /\ Running(b) /\ Past(b)
    BY <2>1 DEF Unmended, Running, Ended, Past, PastPcs, DatasetPcs, MapPcs, InsertPcs
  <2>4. Covered \subseteq Covered'
    BY <2>1 DEF Covered
  <2>7. ASSUME Unmended' \subseteq {"stale"} PROVE Owes(b)'
    <3>1. Owes(b)
      BY <2>7, <2>3, <1>0 DEF CoveredInv
    <3>2. \A m \in Mentions(s.rows) : m[1] \in s.new \/ m[2] \in Covered'
      BY <3>1, <2>2, <2>3, <2>4 DEF Owes
    <3>3. s.pc \notin Busy
      BY <2>2 DEF Busy, InsertPcs
    <3> QED
      BY <3>2, <3>3, <1>0, OwesEarly
  <2>8. damage' \subseteq {"stale"} =>
            /\ Loadable' => \A n \in data' : n \in Covered' \/ \E x \in Builds : n \in build'[x].ka
            /\ (\A x \in Builds : build'[x].pc \notin InsertPcs) => NamesIn(Mentions(fed')) \subseteq Covered'
    <3>1. \A x \in Builds : build[x].pc \in InsertPcs => build'[x].pc \in InsertPcs
      BY <2>1, <2>2 DEF InsertPcs
    <3>2. \A x \in Builds : build[x].ka \subseteq build'[x].ka \cup Covered'
      BY <2>2
    <3> QED
      BY <3>1, <3>2, <2>1, <2>4, <1>0, FilesCovered
  <2> QED
    BY <2>1, <2>2, <2>3, <2>4, <2>7, <2>8, <1>0, CoveredBuild
<1>9. ASSUME NEW b \in Builds, ArchiveCopy(b) PROVE CoveredInv'
  <2> DEFINE r == build[b]
             s == build'[b]
  <2>1. r.pc = "archive" /\ UNCHANGED <<ref, skipped, data, fed>> /\ UNCHANGED <<minChunks, damage, healing>>
    BY <1>9 DEF ArchiveCopy, diskVars, graphVars, ghostVars
  <2>2. /\ \A x \in Builds \ {b} : build'[x] = build[x]
        /\ s.pc \in {"prune", "list"} /\ s.rows = r.rows /\ s.new = r.new /\ s.ka = r.ka
    <3>2. CASE data = NoDump
      <4>1. Goto(b, "prune")
        BY <1>9, <3>2 DEF ArchiveCopy
      <4> QED
        BY <4>1, <1>0, GotoFields
    <3>3. CASE data # NoDump
      BY <3>3, <1>9, <1>0, ArchiveCopyFields
    <3> QED
      BY <3>2, <3>3
  <2>3. Unmended' = Unmended /\ Running(b) /\ Past(b)
    BY <2>1 DEF Unmended, Running, Ended, Past, PastPcs, DatasetPcs, MapPcs, InsertPcs
  <2>4. Covered \subseteq Covered'
    BY <2>1 DEF Covered
  <2>7. ASSUME Unmended' \subseteq {"stale"} PROVE Owes(b)'
    <3>1. Owes(b)
      BY <2>7, <2>3, <1>0 DEF CoveredInv
    <3>2. \A m \in Mentions(s.rows) : m[1] \in s.new \/ m[2] \in Covered'
      BY <3>1, <2>2, <2>3, <2>4 DEF Owes
    <3>3. s.pc \notin Busy
      BY <2>2 DEF Busy, InsertPcs
    <3> QED
      BY <3>2, <3>3, <1>0, OwesEarly
  <2>8. damage' \subseteq {"stale"} =>
            /\ Loadable' => \A n \in data' : n \in Covered' \/ \E x \in Builds : n \in build'[x].ka
            /\ (\A x \in Builds : build'[x].pc \notin InsertPcs) => NamesIn(Mentions(fed')) \subseteq Covered'
    <3>1. \A x \in Builds : build[x].pc \in InsertPcs => build'[x].pc \in InsertPcs
      BY <2>1, <2>2 DEF InsertPcs
    <3>2. \A x \in Builds : build[x].ka \subseteq build'[x].ka \cup Covered'
      BY <2>2
    <3> QED
      BY <3>1, <3>2, <2>1, <2>4, <1>0, FilesCovered
  <2> QED
    BY <2>1, <2>2, <2>3, <2>4, <2>7, <2>8, <1>0, CoveredBuild
<1>10. ASSUME NEW b \in Builds, LoadKA(b) PROVE CoveredInv'
  <2> DEFINE r == build[b]
             s == build'[b]
  <2>1. r.pc = "load" /\ UNCHANGED <<ref, skipped, data, fed>> /\ UNCHANGED <<minChunks, damage, healing>>
    BY <1>10 DEF LoadKA, diskVars, graphVars, ghostVars
  <2>2. /\ \A x \in Builds \ {b} : build'[x] = build[x]
        /\ s.pc = "feed" /\ s.rows = r.rows /\ s.new = r.new /\ s.owned = r.owned
        /\ \/ s.ka = r.ka /\ s.prev = r.prev /\ s.todo = Rows(r.rows)
           \/ r.incremental /\ Loadable /\ s.ka = data /\ s.prev = fed /\ s.todo = Unmarked(b)
    <3>1. CASE r.incremental /\ Loadable /\ Becomes(b, [r EXCEPT !.pc = "feed", !.ka = data, !.todo = Unmarked(b), !.prev = fed])
      BY <3>1, <1>0, LoadFields
    <3>2. CASE Becomes(b, [r EXCEPT !.pc = "feed", !.todo = Rows(r.rows)])
      BY <3>2, <1>0, FreshFields
    <3> QED
      BY <1>10, <3>1, <3>2 DEF LoadKA
  <2>a. r.ka = {} /\ r.owned = {} /\ NamesIn(Mentions(r.prev)) = {}
    BY <2>1, <1>0, RowsIn, NamesOf DEF Shape, InsertPcs
  <2>3. Unmended' = Unmended /\ Running(b) /\ Past(b)
    BY <2>1 DEF Unmended, Running, Ended, Past, PastPcs, DatasetPcs, MapPcs, InsertPcs
  <2>4. Covered \subseteq Covered'
    BY <2>1 DEF Covered
  <2>7. ASSUME Unmended' \subseteq {"stale"} PROVE Owes(b)'
    <3>1. Owes(b)
      BY <2>7, <2>3, <1>0 DEF CoveredInv
    <3>2. \A m \in Mentions(s.rows) : m[1] \in s.new \/ m[2] \in Covered'
      BY <3>1, <2>2, <2>3, <2>4 DEF Owes
    <3>3. /\ NamesIn(Mentions(r.rows)) \subseteq Covered' \cup Pending(b)'
          /\ NamesIn(Mentions(s.prev)) \subseteq Covered' /\ s.ka \subseteq Covered'
      <4>1. CASE s.ka = r.ka /\ s.prev = r.prev /\ s.todo = Rows(r.rows)
        <5>1. NamesIn(Mentions(r.rows)) \subseteq Pending(b)'
          <6>1. \A m \in Mentions(s.rows) : m[1] \in s.todo
            BY <4>1, <2>2, MentionIs
          <6> QED
            BY <6>1, <2>2, NamesMono DEF Pending
        <5> QED
          BY <5>1, <4>1, <2>a
      <4>2. CASE r.incremental /\ Loadable /\ s.ka = data /\ s.prev = fed /\ s.todo = Unmarked(b)
        <5>1. healing = {}
          BY <4>2, <2>3, <1>0, HealsAlone DEF Healer
        <5>2. damage \subseteq {"stale"} /\ "raced" \notin Unmended
          BY <5>1, <2>7, <2>3 DEF Unmended
        <5>3. \A x \in Builds \ {b} : ~Running(x)
          BY <5>2, <2>3, <1>0 DEF SoloInv, Exclusive, Alone
        <5>4. \A x \in Builds : build[x].pc \notin InsertPcs
          BY <5>3, <2>1 DEF Running, Ended, InsertPcs
        <5>5. NamesIn(Mentions(fed)) \subseteq Covered
          BY <5>2, <5>4, <1>0 DEF CoveredInv
        <5>6. \A x \in Builds : build[x].ka = {}
          BY <5>3, <2>a, <1>0 DEF Running, Ended, Shape, InsertPcs
        <5>7. data \subseteq Covered
          BY <5>2, <5>6, <4>2, <1>0 DEF CoveredInv
        <5>8. NamesIn(Mentions(r.rows)) \subseteq NamesIn(Mentions(fed)) \cup Pending(b)'
          <6>1. SUFFICES ASSUME NEW n \in NamesIn(Mentions(r.rows)), n \notin Pending(b)'
                         PROVE  n \in NamesIn(Mentions(fed))
            OBVIOUS
          <6>2. PICK m \in Mentions(r.rows) : m[2] = n
            BY <6>1 DEF NamesIn
          <6>3. m[1] \notin Unmarked(b)
            BY <6>1, <6>2, <4>2, <2>2 DEF Pending, NamesIn
          <6>4. m[1] \in Rows(r.rows) /\ fed[m[1]] = r.rows[m[1]]
            BY <6>2, <6>3, MentionIs DEF Unmarked
          <6>5. m \in Mentions(fed)
            BY <6>2, <6>4 DEF Mentions
          <6> QED
            BY <6>2, <6>5 DEF NamesIn
        <5> QED
          BY <5>5, <5>7, <5>8, <4>2, <2>4
      <4> QED
        BY <4>1, <4>2, <2>2
    <3> QED
      BY <3>2, <3>3, <2>2, <2>a DEF Owes, InsertPcs
  <2>8. damage' \subseteq {"stale"} =>
            /\ Loadable' => \A n \in data' : n \in Covered' \/ \E x \in Builds : n \in build'[x].ka
            /\ (\A x \in Builds : build'[x].pc \notin InsertPcs) => NamesIn(Mentions(fed')) \subseteq Covered'
    <3>1. \A x \in Builds : build[x].pc \in InsertPcs => build'[x].pc \in InsertPcs
      BY <2>1, <2>2 DEF InsertPcs
    <3>2. \A x \in Builds : build[x].ka \subseteq build'[x].ka \cup Covered'
      BY <2>2, <2>a
    <3> QED
      BY <3>1, <3>2, <2>1, <2>4, <1>0, FilesCovered
  <2> QED
    BY <2>1, <2>2, <2>3, <2>4, <2>7, <2>8, <1>0, CoveredBuild
<1>11. ASSUME NEW b \in Builds, FeedChunk(b) PROVE CoveredInv'
  <2> DEFINE r == build[b]
             s == build'[b]
  <2>1. r.pc = "feed" /\ r.todo # {} /\ UNCHANGED <<ref, skipped, fed>>
        /\ data' \in {data, r.ka \cup Yield[Min(r.todo)][r.rows[Min(r.todo)]]}
        /\ UNCHANGED <<minChunks, damage, healing>>
    BY <1>11 DEF FeedChunk, diskVars, graphVars, ghostVars
  <2> DEFINE names == Yield[Min(r.todo)][r.rows[Min(r.todo)]]
  <2>2. /\ \A x \in Builds \ {b} : build'[x] = build[x]
        /\ s.pc = "feed" /\ s.rows = r.rows /\ s.prev = r.prev /\ s.new = r.new
        /\ s.todo = r.todo \ {Min(r.todo)}
        /\ s.ka = r.ka \cup names
        /\ s.owned = r.owned \cup ({Min(r.todo)} \X (names \ r.ka))
    BY <1>11, <2>1, <1>0, FeedChunkFields
  <2>3. Unmended' = Unmended /\ Running(b) /\ Past(b)
    BY <2>1 DEF Unmended, Running, Ended, Past, PastPcs, DatasetPcs, MapPcs, InsertPcs
  <2>4. Covered \subseteq Covered'
    BY <2>1 DEF Covered
  <2>7. ASSUME Unmended' \subseteq {"stale"} PROVE Owes(b)'
    <3>1. Owes(b)
      BY <2>7, <2>3, <1>0 DEF CoveredInv
    <3>2. Pending(b) \subseteq Pending(b)' \cup names
      BY <2>2, PendingLess
    <3>3. NamesIn(Mentions(r.rows)) \subseteq r.ka \cup Covered \cup Pending(b)
      BY <3>1, <2>1 DEF Owes
    <3>4. names \subseteq s.ka \cup Covered'
      BY <2>2
    <3>5. NamesIn(Mentions(s.rows)) \subseteq s.ka \cup Covered' \cup Pending(b)'
      BY <3>2, <3>3, <3>4, <2>2, <2>4
    <3>6. \A m \in Mentions(s.rows) : m[1] \in s.new \/ m[2] \in Covered'
      BY <3>1, <2>2, <2>3, <2>4 DEF Owes
    <3>7. s.ka \subseteq Covered' \cup NamesIn(s.owned) /\ NamesIn(Mentions(s.prev)) \subseteq Covered'
      <4>1. r.ka \subseteq Covered \cup NamesIn(r.owned) /\ NamesIn(Mentions(r.prev)) \subseteq Covered
        BY <3>1 DEF Owes
      <4>2. NamesIn(r.owned) \subseteq NamesIn(s.owned)
        BY <2>2, NamesMono
      <4>3. ASSUME NEW n \in names \ r.ka PROVE n \in NamesIn(s.owned)
        <5>1. <<Min(r.todo), n>> \in s.owned /\ <<Min(r.todo), n>>[2] = n
          BY <2>2, <4>3
        <5> QED
          BY <5>1 DEF NamesIn
      <4> HIDE DEF names
      <4> QED
        BY <4>1, <4>2, <4>3, <2>2, <2>4
    <3> QED
      BY <3>5, <3>6, <3>7, <2>2 DEF Owes, InsertPcs
  <2>8. damage' \subseteq {"stale"} =>
            /\ Loadable' => \A n \in data' : n \in Covered' \/ \E x \in Builds : n \in build'[x].ka
            /\ (\A x \in Builds : build'[x].pc \notin InsertPcs) => NamesIn(Mentions(fed')) \subseteq Covered'
    <3>1. SUFFICES ASSUME damage \subseteq {"stale"}
                   PROVE  /\ Loadable' => \A n \in data' : n \in Covered' \/ \E x \in Builds : n \in build'[x].ka
                          /\ (\A x \in Builds : build'[x].pc \notin InsertPcs) => NamesIn(Mentions(fed')) \subseteq Covered'
      BY <2>1
    <3>2. \A x \in Builds : build[x].ka \subseteq build'[x].ka
      BY <2>2
    <3>3. ASSUME Loadable', NEW g \in data'
          PROVE  g \in Covered' \/ \E x \in Builds : g \in build'[x].ka
      <4>1. CASE data' = data
        <5>1. g \in Covered \/ \E x \in Builds : g \in build[x].ka
          BY <4>1, <3>1, <3>3, <1>0 DEF CoveredInv, Loadable
        <5> QED
          BY <5>1, <3>2, <2>4
      <4>2. CASE data' = r.ka \cup names
        BY <4>2, <3>3, <2>2
      <4> QED
        BY <4>1, <4>2, <2>1
    <3>4. (\A x \in Builds : build'[x].pc \notin InsertPcs) => NamesIn(Mentions(fed')) \subseteq Covered'
      <4>1. (\A x \in Builds : build'[x].pc \notin InsertPcs) => \A x \in Builds : build[x].pc \notin InsertPcs
        BY <2>1, <2>2 DEF InsertPcs
      <4> QED
        BY <4>1, <3>1, <2>1, <2>4, <1>0 DEF CoveredInv
    <3> QED
      BY <3>3, <3>4
  <2> QED
    BY <2>1, <2>2, <2>3, <2>4, <2>7, <2>8, <1>0, CoveredBuild
<1>12. ASSUME NEW b \in Builds, FeedFails(b) PROVE CoveredInv'
  <2> DEFINE r == build[b]
             s == build'[b]
  <2>1. r.pc = "feed" /\ UNCHANGED <<ref, fed, data>>
        /\ skipped' = skipped \cup (Yield[Min(r.todo)][r.rows[Min(r.todo)]] \ r.ka)
        /\ UNCHANGED <<minChunks, damage, healing>>
    BY <1>12 DEF FeedFails, diskVars, graphVars, ghostVars
  <2> DEFINE names == Yield[Min(r.todo)][r.rows[Min(r.todo)]]
  <2>2. /\ \A x \in Builds \ {b} : build'[x] = build[x]
        /\ s.pc = "feed" /\ s.rows = r.rows /\ s.prev = r.prev /\ s.new = r.new
        /\ s.todo = r.todo \ {Min(r.todo)}
        /\ s.ka = r.ka /\ s.owned = r.owned
    BY <1>12, <2>1, <1>0, FeedFailsFields
  <2>3. Unmended' = Unmended /\ Running(b) /\ Past(b)
    BY <2>1 DEF Unmended, Running, Ended, Past, PastPcs, DatasetPcs, MapPcs, InsertPcs
  <2>4. Covered \subseteq Covered'
    BY <2>1 DEF Covered
  <2>7. ASSUME Unmended' \subseteq {"stale"} PROVE Owes(b)'
    <3>1. Owes(b)
      BY <2>7, <2>3, <1>0 DEF CoveredInv
    <3>2. Pending(b) \subseteq Pending(b)' \cup names
      BY <2>2, PendingLess
    <3>3. NamesIn(Mentions(r.rows)) \subseteq r.ka \cup Covered \cup Pending(b)
      BY <3>1, <2>1 DEF Owes
    <3>4. names \subseteq s.ka \cup Covered'
      BY <2>1, <2>2 DEF Covered
    <3>5. NamesIn(Mentions(s.rows)) \subseteq s.ka \cup Covered' \cup Pending(b)'
      BY <3>2, <3>3, <3>4, <2>2, <2>4
    <3>6. \A m \in Mentions(s.rows) : m[1] \in s.new \/ m[2] \in Covered'
      BY <3>1, <2>2, <2>3, <2>4 DEF Owes
    <3>7. s.ka \subseteq Covered' \cup NamesIn(s.owned) /\ NamesIn(Mentions(s.prev)) \subseteq Covered'
      BY <3>1, <2>2, <2>4 DEF Owes
    <3> QED
      BY <3>5, <3>6, <3>7, <2>2 DEF Owes, InsertPcs
  <2>8. damage' \subseteq {"stale"} =>
            /\ Loadable' => \A n \in data' : n \in Covered' \/ \E x \in Builds : n \in build'[x].ka
            /\ (\A x \in Builds : build'[x].pc \notin InsertPcs) => NamesIn(Mentions(fed')) \subseteq Covered'
    <3>1. \A x \in Builds : build[x].pc \in InsertPcs => build'[x].pc \in InsertPcs
      BY <2>1, <2>2 DEF InsertPcs
    <3>2. \A x \in Builds : build[x].ka \subseteq build'[x].ka \cup Covered'
      BY <2>2
    <3> QED
      BY <3>1, <3>2, <2>1, <2>4, <1>0, FilesCovered
  <2> QED
    BY <2>1, <2>2, <2>3, <2>4, <2>7, <2>8, <1>0, CoveredBuild
<1>13. ASSUME NEW b \in Builds, FeedHangs(b) PROVE CoveredInv'
  <2> DEFINE r == build[b]
             s == build'[b]
  <2>1. r.pc = "feed" /\ UNCHANGED <<ref, skipped, data, fed>> /\ UNCHANGED <<minChunks, damage, healing>>
    BY <1>13 DEF FeedHangs, diskVars, graphVars, ghostVars
  <2>2. /\ \A x \in Builds \ {b} : build'[x] = build[x]
        /\ s.rows = r.rows /\ s.prev = r.prev /\ s.todo = r.todo /\ s.ka = r.ka
        /\ s.new = r.new /\ s.owned = r.owned /\ s.pc = "hung"
    <3>1. build[b].pc = "feed" /\ Goto(b, "hung")
      BY <1>13 DEF FeedHangs
    <3> QED
      BY <3>1, <1>0, GotoFields
  <2>3. Unmended' = Unmended /\ Running(b) /\ Past(b)
    BY <2>1 DEF Unmended, Running, Ended, Past, PastPcs, DatasetPcs, MapPcs, InsertPcs
  <2>4. Covered \subseteq Covered'
    BY <2>1 DEF Covered
  <2>7. ASSUME Unmended' \subseteq {"stale"} PROVE Owes(b)'
    <3>1. Owes(b)
      BY <2>7, <2>3, <1>0 DEF CoveredInv
    <3>q. r.pc \in Busy
      BY <2>1 DEF Busy, InsertPcs
    <3>a. s.pc = "finish" => s.ka \subseteq Covered'
      BY <2>2
    <3>b. s.pc \in InsertPcs => NamesIn(Mentions(fed')) \subseteq s.ka \cup Covered'
      BY <2>2 DEF InsertPcs
    <3>c. s.pc \in {"sidecar"} \cup InsertPcs /\ ~MapReduced(build[b].rows)' /\ Loadable'
              => data' \subseteq s.ka \cup Covered'
      BY <2>2 DEF InsertPcs
    <3> QED
      BY <3>1, <3>q, <3>a, <3>b, <3>c, <2>2, <2>3, <2>4, OwesGoes
  <2>8. damage' \subseteq {"stale"} =>
            /\ Loadable' => \A n \in data' : n \in Covered' \/ \E x \in Builds : n \in build'[x].ka
            /\ (\A x \in Builds : build'[x].pc \notin InsertPcs) => NamesIn(Mentions(fed')) \subseteq Covered'
    <3>1. \A x \in Builds : build[x].pc \in InsertPcs => build'[x].pc \in InsertPcs
      BY <2>1, <2>2 DEF InsertPcs
    <3>2. \A x \in Builds : build[x].ka \subseteq build'[x].ka \cup Covered'
      BY <2>2
    <3> QED
      BY <3>1, <3>2, <2>1, <2>4, <1>0, FilesCovered
  <2> QED
    BY <2>1, <2>2, <2>3, <2>4, <2>7, <2>8, <1>0, CoveredBuild
<1>14. ASSUME NEW b \in Builds, DumpKA(b) PROVE CoveredInv'
  <2> DEFINE r == build[b]
             s == build'[b]
  <2>1. r.pc = "feed" /\ UNCHANGED <<ref, skipped, fed>> /\ data' = r.ka /\ UNCHANGED <<minChunks, damage, healing>>
    BY <1>14 DEF DumpKA, diskVars, graphVars, ghostVars
  <2>2. /\ \A x \in Builds \ {b} : build'[x] = build[x]
        /\ s.rows = r.rows /\ s.prev = r.prev /\ s.todo = r.todo /\ s.ka = r.ka
        /\ s.new = r.new /\ s.owned = r.owned /\ s.pc = "sidecar"
    <3>1. build[b].pc = "feed" /\ build[b].todo = {} /\ Goto(b, "sidecar")
      BY <1>14 DEF DumpKA
    <3> QED
      BY <3>1, <1>0, GotoFields
  <2>3. Unmended' = Unmended /\ Running(b) /\ Past(b)
    BY <2>1 DEF Unmended, Running, Ended, Past, PastPcs, DatasetPcs, MapPcs, InsertPcs
  <2>4. Covered \subseteq Covered'
    BY <2>1 DEF Covered
  <2>7. ASSUME Unmended' \subseteq {"stale"} PROVE Owes(b)'
    <3>1. Owes(b)
      BY <2>7, <2>3, <1>0 DEF CoveredInv
    <3>q. r.pc \in Busy
      BY <2>1 DEF Busy, InsertPcs
    <3>a. s.pc = "finish" => s.ka \subseteq Covered'
      BY <2>2
    <3>b. s.pc \in InsertPcs => NamesIn(Mentions(fed')) \subseteq s.ka \cup Covered'
      BY <2>2 DEF InsertPcs
    <3>c. s.pc \in {"sidecar"} \cup InsertPcs /\ ~MapReduced(build[b].rows)' /\ Loadable'
              => data' \subseteq s.ka \cup Covered'
      BY <2>1, <2>2
    <3> QED
      BY <3>1, <3>q, <3>a, <3>b, <3>c, <2>2, <2>3, <2>4, OwesGoes
  <2>8. damage' \subseteq {"stale"} =>
            /\ Loadable' => \A n \in data' : n \in Covered' \/ \E x \in Builds : n \in build'[x].ka
            /\ (\A x \in Builds : build'[x].pc \notin InsertPcs) => NamesIn(Mentions(fed')) \subseteq Covered'
    <3>1. \A g \in data' : g \in build'[b].ka
      BY <2>1, <2>2
    <3>2. (\A x \in Builds : build'[x].pc \notin InsertPcs) => \A x \in Builds : build[x].pc \notin InsertPcs
      BY <2>1, <2>2 DEF InsertPcs
    <3> QED
      BY <3>1, <3>2, <2>1, <2>4, <1>0 DEF CoveredInv
  <2> QED
    BY <2>1, <2>2, <2>3, <2>4, <2>7, <2>8, <1>0, CoveredBuild
<1>15. ASSUME NEW b \in Builds, WriteSidecar(b) PROVE CoveredInv'
  <2> DEFINE r == build[b]
             s == build'[b]
  <2>1. r.pc = "sidecar" /\ UNCHANGED <<ref, skipped, data>>
        /\ fed' = Overlay(r.prev, r.rows, {c \in Rows(r.rows) : r.prev[c] # r.rows[c]}) /\ UNCHANGED <<minChunks, damage, healing>>
    BY <1>15 DEF WriteSidecar, diskVars, graphVars, ghostVars
  <2>2. /\ \A x \in Builds \ {b} : build'[x] = build[x]
        /\ s.rows = r.rows /\ s.prev = Nothing /\ s.todo = r.todo /\ s.ka = r.ka
        /\ s.new = r.new /\ s.owned = r.owned /\ s.pc = (IF r.ka = {} THEN "finish" ELSE "entities")
    BY <1>15, <1>0, WriteSidecarFields
  <2>3. Unmended' = Unmended /\ Running(b) /\ Past(b)
    BY <2>1 DEF Unmended, Running, Ended, Past, PastPcs, DatasetPcs, MapPcs, InsertPcs
  <2>4. Covered \subseteq Covered'
    BY <2>1 DEF Covered
  <2>7. ASSUME Unmended' \subseteq {"stale"} PROVE Owes(b)'
    <3>1. Owes(b)
      BY <2>7, <2>3, <1>0 DEF CoveredInv
    <3>q. r.pc \in Busy
      BY <2>1 DEF Busy, InsertPcs
    <3>a. s.pc = "finish" => s.ka \subseteq Covered'
      BY <2>2
    <3>b. s.pc \in InsertPcs => NamesIn(Mentions(fed')) \subseteq s.ka \cup Covered'
      <4>1. Pending(b) = {}
        BY <2>1, <1>0, PendingNone
      <4>2. NamesIn(Mentions(r.rows)) \cup NamesIn(Mentions(r.prev)) \subseteq r.ka \cup Covered
        BY <4>1, <3>1, <2>1 DEF Owes
      <4>3. \A c \in Rows(fed') :
                \/ c \in Rows(r.rows) /\ fed'[c] = r.rows[c]
                \/ c \in Rows(r.prev) /\ fed'[c] = r.prev[c]
        BY <2>1 DEF Overlay, Rows
      <4>4. NamesIn(Mentions(fed')) \subseteq NamesIn(Mentions(r.rows)) \cup NamesIn(Mentions(r.prev))
        <5>1. Mentions(fed') \subseteq Mentions(r.rows) \cup Mentions(r.prev)
          BY <4>3 DEF Mentions, Rows
        <5> QED
          BY <5>1 DEF NamesIn
      <4> QED
        BY <4>2, <4>4, <2>2, <2>4
    <3>c. s.pc \in {"sidecar"} \cup InsertPcs /\ ~MapReduced(build[b].rows)' /\ Loadable'
              => data' \subseteq s.ka \cup Covered'
      <4>1. (MapReduced(build[b].rows)' <=> MapReduced(r.rows)) /\ (Loadable' <=> Loadable)
        BY <2>1, <2>2 DEF MapReduced, Loadable
      <4> QED
        BY <4>1, <3>1, <2>1, <2>2, <2>4 DEF Owes
    <3> QED
      BY <3>1, <3>q, <3>a, <3>b, <3>c, <2>2, <2>3, <2>4, OwesGoes
  <2>8. damage' \subseteq {"stale"} =>
            /\ Loadable' => \A n \in data' : n \in Covered' \/ \E x \in Builds : n \in build'[x].ka
            /\ (\A x \in Builds : build'[x].pc \notin InsertPcs) => NamesIn(Mentions(fed')) \subseteq Covered'
    <3>1. build'[b].pc \in InsertPcs
      BY <2>2 DEF InsertPcs
    <3>2. ASSUME damage \subseteq {"stale"}, Loadable', NEW g \in data'
          PROVE  g \in Covered' \/ \E x \in Builds : g \in build'[x].ka
      <4>1. g \in Covered \/ \E x \in Builds : g \in build[x].ka
        BY <3>2, <2>1, <1>0 DEF CoveredInv, Loadable
      <4>2. \A x \in Builds : build'[x].ka = build[x].ka
        BY <2>2
      <4> QED
        BY <4>1, <4>2, <2>4
    <3> QED
      BY <3>1, <3>2, <2>1
  <2> QED
    BY <2>1, <2>2, <2>3, <2>4, <2>7, <2>8, <1>0, CoveredBuild
<1>16. ASSUME NEW b \in Builds, MapChunks(b) PROVE CoveredInv'
  <2> DEFINE r == build[b]
             s == build'[b]
  <2>1. r.pc = "map" /\ UNCHANGED <<ref, data, fed>> /\ UNCHANGED <<minChunks, damage, healing>>
    BY <1>16 DEF MapChunks, diskVars, graphVars, ghostVars
  <2>a. PICK got : /\ Becomes(b, [r EXCEPT !.pc = "checkpoint", !.ka = NamesIn(got),
                                            !.owned = got])
                   /\ skipped' = skipped \cup (NamesIn(Mentions(r.rows)) \ NamesIn(got))
    BY <1>16 DEF MapChunks
  <2>2. /\ \A x \in Builds \ {b} : build'[x] = build[x]
        /\ s.pc = "checkpoint" /\ s.rows = r.rows /\ s.prev = r.prev /\ s.ka = NamesIn(got)
        /\ s.owned = got /\ s.new = r.new
    BY <2>a, <1>0, MapFields, ZenonT(30)
  <2>b. r.ka = {} /\ NamesIn(Mentions(r.prev)) = {}
    BY <2>1, <1>0, RowsIn, NamesOf DEF Shape, InsertPcs
  <2>3. Unmended' = Unmended /\ Running(b) /\ Past(b)
    BY <2>1 DEF Unmended, Running, Ended, Past, PastPcs, DatasetPcs, MapPcs, InsertPcs
  <2>4. Covered \subseteq Covered'
    BY <2>a, <2>1 DEF Covered
  <2>7. ASSUME Unmended' \subseteq {"stale"} PROVE Owes(b)'
    <3>1. Owes(b)
      BY <2>7, <2>3, <1>0 DEF CoveredInv
    <3>2. \A m \in Mentions(s.rows) : m[1] \in s.new \/ m[2] \in Covered'
      BY <3>1, <2>2, <2>3, <2>4 DEF Owes
    <3>3. NamesIn(Mentions(s.rows)) \subseteq s.ka \cup Covered'
      BY <2>a, <2>2 DEF Covered
    <3> QED
      BY <3>2, <3>3, <2>2, <2>b DEF Owes, InsertPcs
  <2>8. damage' \subseteq {"stale"} =>
            /\ Loadable' => \A n \in data' : n \in Covered' \/ \E x \in Builds : n \in build'[x].ka
            /\ (\A x \in Builds : build'[x].pc \notin InsertPcs) => NamesIn(Mentions(fed')) \subseteq Covered'
    <3>1. \A x \in Builds : build[x].pc \in InsertPcs => build'[x].pc \in InsertPcs
      BY <2>1, <2>2 DEF InsertPcs
    <3>2. \A x \in Builds : build[x].ka \subseteq build'[x].ka \cup Covered'
      BY <2>2, <2>b
    <3> QED
      BY <3>1, <3>2, <2>1, <2>4, <1>0, FilesCovered
  <2> QED
    BY <2>1, <2>2, <2>3, <2>4, <2>7, <2>8, <1>0, CoveredBuild
<1>17. ASSUME NEW b \in Builds, WriteCheckpoint(b) PROVE CoveredInv'
  <2> DEFINE r == build[b]
             s == build'[b]
  <2>1. r.pc = "checkpoint" /\ UNCHANGED <<ref, skipped, data, fed>> /\ UNCHANGED <<minChunks, damage, healing>>
    BY <1>17 DEF WriteCheckpoint, diskVars, graphVars, ghostVars
  <2>2. /\ \A x \in Builds \ {b} : build'[x] = build[x]
        /\ s.rows = r.rows /\ s.prev = r.prev /\ s.todo = r.todo /\ s.ka = r.ka
        /\ s.new = r.new /\ s.owned = r.owned /\ s.pc = "mark"
    <3>1. build[b].pc = "checkpoint" /\ Goto(b, "mark")
      BY <1>17 DEF WriteCheckpoint
    <3> QED
      BY <3>1, <1>0, GotoFields
  <2>3. Unmended' = Unmended /\ Running(b) /\ Past(b)
    BY <2>1 DEF Unmended, Running, Ended, Past, PastPcs, DatasetPcs, MapPcs, InsertPcs
  <2>4. Covered \subseteq Covered'
    BY <2>1 DEF Covered
  <2>7. ASSUME Unmended' \subseteq {"stale"} PROVE Owes(b)'
    <3>1. Owes(b)
      BY <2>7, <2>3, <1>0 DEF CoveredInv
    <3>q. r.pc \in Busy
      BY <2>1 DEF Busy, InsertPcs
    <3>a. s.pc = "finish" => s.ka \subseteq Covered'
      BY <2>2
    <3>b. s.pc \in InsertPcs => NamesIn(Mentions(fed')) \subseteq s.ka \cup Covered'
      BY <2>2 DEF InsertPcs
    <3>c. s.pc \in {"sidecar"} \cup InsertPcs /\ ~MapReduced(build[b].rows)' /\ Loadable'
              => data' \subseteq s.ka \cup Covered'
      BY <2>2 DEF InsertPcs
    <3> QED
      BY <3>1, <3>q, <3>a, <3>b, <3>c, <2>2, <2>3, <2>4, OwesGoes
  <2>8. damage' \subseteq {"stale"} =>
            /\ Loadable' => \A n \in data' : n \in Covered' \/ \E x \in Builds : n \in build'[x].ka
            /\ (\A x \in Builds : build'[x].pc \notin InsertPcs) => NamesIn(Mentions(fed')) \subseteq Covered'
    <3>1. \A x \in Builds : build[x].pc \in InsertPcs => build'[x].pc \in InsertPcs
      BY <2>1, <2>2 DEF InsertPcs
    <3>2. \A x \in Builds : build[x].ka \subseteq build'[x].ka \cup Covered'
      BY <2>2
    <3> QED
      BY <3>1, <3>2, <2>1, <2>4, <1>0, FilesCovered
  <2> QED
    BY <2>1, <2>2, <2>3, <2>4, <2>7, <2>8, <1>0, CoveredBuild
<1>18. ASSUME NEW b \in Builds, MarkMapped(b) PROVE CoveredInv'
  <2> DEFINE r == build[b]
             s == build'[b]
  <2>1. r.pc = "mark" /\ UNCHANGED <<ref, skipped, data>> /\ fed' = r.rows /\ UNCHANGED <<minChunks, damage, healing>>
    BY <1>18 DEF MarkMapped, diskVars, graphVars, ghostVars
  <2>2. /\ \A x \in Builds \ {b} : build'[x] = build[x]
        /\ s.rows = r.rows /\ s.prev = r.prev /\ s.todo = r.todo /\ s.ka = r.ka
        /\ s.new = r.new /\ s.owned = r.owned /\ s.pc = (IF r.ka = {} THEN "finish" ELSE "entities")
    <3>1. build[b].pc = "mark"
        /\ Goto(b, IF build[b].ka = {} THEN "finish" ELSE "entities")
      BY <1>18 DEF MarkMapped
    <3> QED
      BY <3>1, <1>0, GotoFields
  <2>3. Unmended' = Unmended /\ Running(b) /\ Past(b)
    BY <2>1 DEF Unmended, Running, Ended, Past, PastPcs, DatasetPcs, MapPcs, InsertPcs
  <2>4. Covered \subseteq Covered'
    BY <2>1 DEF Covered
  <2>7. ASSUME Unmended' \subseteq {"stale"} PROVE Owes(b)'
    <3>1. Owes(b)
      BY <2>7, <2>3, <1>0 DEF CoveredInv
    <3>q. r.pc \in Busy
      BY <2>1 DEF Busy, InsertPcs
    <3>a. s.pc = "finish" => s.ka \subseteq Covered'
      BY <2>2
    <3>b. s.pc \in InsertPcs => NamesIn(Mentions(fed')) \subseteq s.ka \cup Covered'
      <4>1. Pending(b) = {}
        BY <2>1, <1>0, PendingNone
      <4> QED
        BY <4>1, <3>1, <2>1, <2>2, <2>4 DEF Owes
    <3>c. s.pc \in {"sidecar"} \cup InsertPcs /\ ~MapReduced(build[b].rows)' /\ Loadable'
              => data' \subseteq s.ka \cup Covered'
      <4>1. MapReduced(r.rows)
        BY <2>1, <1>0 DEF Shape, MapPcs
      <4> QED
        BY <4>1, <2>1, <2>2 DEF MapReduced
    <3> QED
      BY <3>1, <3>q, <3>a, <3>b, <3>c, <2>2, <2>3, <2>4, OwesGoes
  <2>8. damage' \subseteq {"stale"} =>
            /\ Loadable' => \A n \in data' : n \in Covered' \/ \E x \in Builds : n \in build'[x].ka
            /\ (\A x \in Builds : build'[x].pc \notin InsertPcs) => NamesIn(Mentions(fed')) \subseteq Covered'
    <3>1. build'[b].pc \in InsertPcs
      BY <2>2 DEF InsertPcs
    <3>2. ASSUME damage \subseteq {"stale"}, Loadable', NEW g \in data'
          PROVE  g \in Covered' \/ \E x \in Builds : g \in build'[x].ka
      <4>1. g \in Covered \/ \E x \in Builds : g \in build[x].ka
        BY <3>2, <2>1, <1>0 DEF CoveredInv, Loadable
      <4>2. \A x \in Builds : build'[x].ka = build[x].ka
        BY <2>2
      <4> QED
        BY <4>1, <4>2, <2>4
    <3> QED
      BY <3>1, <3>2, <2>1
  <2> QED
    BY <2>1, <2>2, <2>3, <2>4, <2>7, <2>8, <1>0, CoveredBuild
<1>19. ASSUME NEW b \in Builds, InsertEntities(b) PROVE CoveredInv'
  <2> DEFINE r == build[b]
             s == build'[b]
  <2>1. r.pc = "entities" /\ UNCHANGED <<ref, skipped, data, fed>> /\ UNCHANGED <<minChunks, damage, healing>>
    BY <1>19 DEF InsertEntities, diskVars, graphVars, ghostVars
  <2>2. /\ \A x \in Builds \ {b} : build'[x] = build[x]
        /\ s.rows = r.rows /\ s.prev = r.prev /\ s.todo = r.todo /\ s.ka = r.ka
        /\ s.new = r.new /\ s.owned = r.owned /\ s.pc = "references"
    <3>1. build[b].pc = "entities" /\ Goto(b, "references")
      BY <1>19 DEF InsertEntities
    <3> QED
      BY <3>1, <1>0, GotoFields
  <2>3. Unmended' = Unmended /\ Running(b) /\ Past(b)
    BY <2>1 DEF Unmended, Running, Ended, Past, PastPcs, DatasetPcs, MapPcs, InsertPcs
  <2>4. Covered \subseteq Covered'
    BY <2>1 DEF Covered
  <2>7. ASSUME Unmended' \subseteq {"stale"} PROVE Owes(b)'
    <3>1. Owes(b)
      BY <2>7, <2>3, <1>0 DEF CoveredInv
    <3>q. r.pc \in Busy
      BY <2>1 DEF Busy, InsertPcs
    <3>a. s.pc = "finish" => s.ka \subseteq Covered'
      BY <2>2
    <3>b. s.pc \in InsertPcs => NamesIn(Mentions(fed')) \subseteq s.ka \cup Covered'
      BY <3>1, <2>1, <2>2, <2>4 DEF Owes, InsertPcs
    <3>c. s.pc \in {"sidecar"} \cup InsertPcs /\ ~MapReduced(build[b].rows)' /\ Loadable'
              => data' \subseteq s.ka \cup Covered'
      <4>1. (MapReduced(build[b].rows)' <=> MapReduced(r.rows)) /\ (Loadable' <=> Loadable)
        BY <2>1, <2>2 DEF MapReduced, Loadable
      <4> QED
        BY <4>1, <3>1, <2>1, <2>2, <2>4 DEF Owes, InsertPcs
    <3> QED
      BY <3>1, <3>q, <3>a, <3>b, <3>c, <2>2, <2>3, <2>4, OwesGoes
  <2>8. damage' \subseteq {"stale"} =>
            /\ Loadable' => \A n \in data' : n \in Covered' \/ \E x \in Builds : n \in build'[x].ka
            /\ (\A x \in Builds : build'[x].pc \notin InsertPcs) => NamesIn(Mentions(fed')) \subseteq Covered'
    <3>1. \A x \in Builds : build[x].pc \in InsertPcs => build'[x].pc \in InsertPcs
      BY <2>1, <2>2 DEF InsertPcs
    <3>2. \A x \in Builds : build[x].ka \subseteq build'[x].ka \cup Covered'
      BY <2>2
    <3> QED
      BY <3>1, <3>2, <2>1, <2>4, <1>0, FilesCovered
  <2> QED
    BY <2>1, <2>2, <2>3, <2>4, <2>7, <2>8, <1>0, CoveredBuild
<1>20. ASSUME NEW b \in Builds, InsertReferences(b) PROVE CoveredInv'
  <2> DEFINE r == build[b]
             s == build'[b]
  <2>1. r.pc = "references" /\ UNCHANGED <<data, fed>> /\ ref' = ref \cup References(b)
        /\ skipped' = skipped \ NamesIn(References(b)) /\ UNCHANGED <<minChunks, damage, healing>>
    BY <1>20 DEF InsertReferences, diskVars, graphVars, ghostVars
  <2>2. /\ \A x \in Builds \ {b} : build'[x] = build[x]
        /\ s.rows = r.rows /\ s.prev = r.prev /\ s.todo = r.todo /\ s.ka = r.ka
        /\ s.new = r.new /\ s.owned = r.owned /\ s.pc = "finish"
    <3>1. build[b].pc = "references" /\ Goto(b, "finish")
      BY <1>20 DEF InsertReferences
    <3> QED
      BY <3>1, <1>0, GotoFields
  <2>3. Unmended' = Unmended /\ Running(b) /\ Past(b)
    BY <2>1 DEF Unmended, Running, Ended, Past, PastPcs, DatasetPcs, MapPcs, InsertPcs
  <2>4. Covered \subseteq Covered'
    <3>1. NamesIn(ref') = NamesIn(ref) \cup NamesIn(References(b))
      BY <2>1 DEF NamesIn
    <3> QED
      BY <3>1, <2>1 DEF Covered
  <2>7. ASSUME Unmended' \subseteq {"stale"} PROVE Owes(b)'
    <3>1. Owes(b)
      BY <2>7, <2>3, <1>0 DEF CoveredInv
    <3>q. r.pc \in Busy
      BY <2>1 DEF Busy, InsertPcs
    <3>a. s.pc = "finish" => s.ka \subseteq Covered'
      <4>1. /\ r.ka \subseteq Covered \cup NamesIn(r.owned)
            /\ \A m \in Mentions(r.rows) : m[1] \in r.new \/ m[2] \in Covered
        BY <3>1, <2>3 DEF Owes
      <4>2. r.owned \subseteq Mentions(r.rows)
        BY <1>0 DEF Shape
      <4>3. ASSUME NEW n \in NamesIn(r.owned) PROVE n \in Covered'
        <5>1. PICK m \in r.owned : m[2] = n
          BY <4>3 DEF NamesIn
        <5>2. CASE m[1] \in r.new
          <6>1. m \in ref'
            BY <5>1, <5>2, <2>1 DEF References
          <6> QED
            BY <6>1, <5>1 DEF Covered, NamesIn
        <5>3. CASE m[2] \in Covered
          BY <5>1, <5>3, <2>4
        <5> QED
          BY <4>1, <4>2, <5>1, <5>2, <5>3
      <4> QED
        BY <4>1, <4>3, <2>2, <2>4
    <3>b. s.pc \in InsertPcs => NamesIn(Mentions(fed')) \subseteq s.ka \cup Covered'
      BY <3>1, <2>1, <2>2, <2>4 DEF Owes, InsertPcs
    <3>c. s.pc \in {"sidecar"} \cup InsertPcs /\ ~MapReduced(build[b].rows)' /\ Loadable'
              => data' \subseteq s.ka \cup Covered'
      <4>1. (MapReduced(build[b].rows)' <=> MapReduced(r.rows)) /\ (Loadable' <=> Loadable)
        BY <2>1, <2>2 DEF MapReduced, Loadable
      <4> QED
        BY <4>1, <3>1, <2>1, <2>2, <2>4 DEF Owes, InsertPcs
    <3> QED
      BY <3>1, <3>q, <3>a, <3>b, <3>c, <2>2, <2>3, <2>4, OwesGoes
  <2>8. damage' \subseteq {"stale"} =>
            /\ Loadable' => \A n \in data' : n \in Covered' \/ \E x \in Builds : n \in build'[x].ka
            /\ (\A x \in Builds : build'[x].pc \notin InsertPcs) => NamesIn(Mentions(fed')) \subseteq Covered'
    <3>1. \A x \in Builds : build[x].pc \in InsertPcs => build'[x].pc \in InsertPcs
      BY <2>1, <2>2 DEF InsertPcs
    <3>2. \A x \in Builds : build[x].ka \subseteq build'[x].ka \cup Covered'
      BY <2>2
    <3> QED
      BY <3>1, <3>2, <2>1, <2>4, <1>0, FilesCovered
  <2> QED
    BY <2>1, <2>2, <2>3, <2>4, <2>7, <2>8, <1>0, CoveredBuild
<1>21. ASSUME NEW b \in Builds, SidecarWriteFails(b) PROVE CoveredInv'
  <2> DEFINE r == build[b]
             s == build'[b]
  <2>1. /\ UNCHANGED <<minChunks, ref, skipped, data, fed>>
        /\ r.pc \in {"sidecar", "checkpoint", "mark"}
        /\ damage' = damage \cup {"stale"} /\ healing' = {}
    BY <1>21 DEF SidecarWriteFails, Damaged, diskVars, graphVars
  <2>2. /\ \A x \in Builds \ {b} : build'[x] = build[x]
        /\ s.rows = r.rows /\ s.prev = r.prev /\ s.todo = r.todo /\ s.ka = r.ka
        /\ s.new = r.new /\ s.owned = r.owned /\ s.pc = (IF r.ka = {} THEN "finish" ELSE "entities")
    <3>1. build[b].pc \in {"sidecar", "checkpoint", "mark"}
        /\ Goto(b, IF build[b].ka = {} THEN "finish" ELSE "entities")
      BY <1>21 DEF SidecarWriteFails
    <3> QED
      BY <3>1, <1>0, GotoFields
  <2>3. Unmended \subseteq Unmended' /\ Unmended' = damage' /\ Running(b) /\ Past(b)
    BY <2>1 DEF Unmended, Running, Ended, Past, PastPcs, DatasetPcs, MapPcs, InsertPcs
  <2>4. Covered \subseteq Covered'
    BY <2>1 DEF Covered
  <2>7. ASSUME Unmended' \subseteq {"stale"} PROVE Owes(b)'
    <3>1. Owes(b)
      BY <2>7, <2>3, <1>0 DEF CoveredInv
    <3>q. r.pc \in Busy
      BY <2>1 DEF Busy, InsertPcs
    <3>a. s.pc = "finish" => s.ka \subseteq Covered'
      BY <2>2
    <3>b. s.pc \in InsertPcs => NamesIn(Mentions(fed')) \subseteq s.ka \cup Covered'
      <4>1. damage \subseteq {"stale"} /\ "raced" \notin Unmended
        BY <2>1, <2>3, <2>7
      <4>2. \A x \in Builds \ {b} : ~Running(x)
        BY <4>1, <2>3, <1>0 DEF SoloInv, Exclusive, Alone
      <4>3. \A x \in Builds : build[x].pc \notin InsertPcs
        BY <4>2, <2>1 DEF Running, Ended, InsertPcs
      <4> QED
        BY <4>1, <4>3, <2>1, <2>4, <1>0 DEF CoveredInv
    <3>c. s.pc \in {"sidecar"} \cup InsertPcs /\ ~MapReduced(build[b].rows)' /\ Loadable'
              => data' \subseteq s.ka \cup Covered'
      <4>1. (MapReduced(build[b].rows)' <=> MapReduced(r.rows)) /\ (Loadable' <=> Loadable)
        BY <2>1, <2>2 DEF MapReduced, Loadable
      <4>2. r.pc # "sidecar" => MapReduced(r.rows)
        BY <2>1, <1>0 DEF Shape, MapPcs
      <4> QED
        BY <4>1, <4>2, <3>1, <2>1, <2>2, <2>4 DEF Owes
    <3> QED
      BY <3>1, <3>q, <3>a, <3>b, <3>c, <2>2, <2>3, <2>4, OwesGoes
  <2>8. damage' \subseteq {"stale"} =>
            /\ Loadable' => \A n \in data' : n \in Covered' \/ \E x \in Builds : n \in build'[x].ka
            /\ (\A x \in Builds : build'[x].pc \notin InsertPcs) => NamesIn(Mentions(fed')) \subseteq Covered'
    <3>1. build'[b].pc \in InsertPcs
      BY <2>2 DEF InsertPcs
    <3>2. ASSUME damage \subseteq {"stale"}, Loadable', NEW g \in data'
          PROVE  g \in Covered' \/ \E x \in Builds : g \in build'[x].ka
      <4>1. g \in Covered \/ \E x \in Builds : g \in build[x].ka
        BY <3>2, <2>1, <1>0 DEF CoveredInv, Loadable
      <4>2. \A x \in Builds : build'[x].ka = build[x].ka
        BY <2>2
      <4> QED
        BY <4>1, <4>2, <2>4
    <3> QED
      BY <3>1, <3>2, <2>1
  <2> QED
    BY <2>1, <2>2, <2>3, <2>4, <2>7, <2>8, <1>0, CoveredBuild
<1>22. ASSUME NEW b \in Builds, GraphGone(b) PROVE CoveredInv'
  <2>1. Damaged(Cut(b))
    BY <1>22 DEF GraphGone
  <2>2. "cut" \in damage' /\ healing' = {}
    BY <2>1, CutKinds DEF Damaged
  <2> QED
    BY <2>2, CoveredVoid
<1>23. ASSUME NEW b \in Builds, BuildFails(b) PROVE CoveredInv'
  <2>1. Damaged(Cut(b))
    BY <1>23 DEF BuildFails
  <2>2. "cut" \in damage' /\ healing' = {}
    BY <2>1, CutKinds DEF Damaged
  <2> QED
    BY <2>2, CoveredVoid
<1>24. ASSUME NEW b \in Builds, TimeoutBuild(b) PROVE CoveredInv'
  <2>1. Damaged(Cut(b))
    BY <1>24 DEF TimeoutBuild
  <2>2. "cut" \in damage' /\ healing' = {}
    BY <2>1, CutKinds DEF Damaged
  <2> QED
    BY <2>2, CoveredVoid
<1>25. ASSUME NEW b \in Builds, FinishBuild(b) PROVE CoveredInv'
  <2>1. /\ build[b].pc = "finish" /\ UNCHANGED <<minChunks, ref, skipped, data, fed>>
        /\ damage' = (IF build[b].incremental THEN damage ELSE damage \ healing)
        /\ healing' = (IF build[b].incremental THEN healing ELSE {})
    BY <1>25 DEF FinishBuild, diskVars, graphVars
  <2>2. build'[b].pc = "snapshot" /\ \A x \in Builds \ {b} : build'[x] = build[x]
    BY <1>25, <1>0, SnapFields
  <2>3. Running(b) /\ build[b].pc \in InsertPcs
    BY <2>1 DEF Running, Ended, InsertPcs
  <2>4. build[b].incremental => healing = {}
    BY <2>3, <1>0, HealsAlone DEF Healer
  <2>5. Unmended' = Unmended /\ damage' = Unmended
    BY <2>1, <2>4 DEF Unmended
  <2>6. Owes(b)'
    <3>1. build'[b].pc \notin Busy /\ ~Past(b)'
      BY <2>2 DEF Busy, InsertPcs, Past, PastPcs, DatasetPcs, MapPcs
    <3> QED
      BY <3>1, <1>0, OwesNothing
  <2>7. Covered' = Covered /\ (Loadable' <=> Loadable)
    BY <2>1 DEF Covered, Loadable
  <2>8. ASSUME damage' \subseteq {"stale"}
        PROVE  /\ Loadable' => \A n \in data' : n \in Covered' \/ \E x \in Builds : n \in build'[x].ka
               /\ NamesIn(Mentions(fed')) \subseteq Covered'
    <3>1. Owes(b)
      BY <2>5, <2>8, <1>0 DEF CoveredInv
    <3>2. build[b].ka \subseteq Covered /\ NamesIn(Mentions(fed)) \subseteq Covered
      BY <3>1, <2>1, <2>3 DEF Owes
    <3>3. ASSUME Loadable, NEW f \in data
          PROVE  f \in Covered \/ \E x \in Builds : f \in build'[x].ka
      <4>1. CASE healing = {}
        <5>1. damage \subseteq {"stale"}
          BY <4>1, <2>5, <2>8 DEF Unmended
        <5>2. f \in Covered \/ \E x \in Builds : f \in build[x].ka
          BY <5>1, <3>3, <1>0 DEF CoveredInv
        <5> QED
          BY <5>2, <3>2, <2>2
      <4>2. CASE healing # {}
        <5>1. ~MapReduced(build[b].rows)
          BY <4>2, <3>3, <2>3, <1>0, HealsAlone DEF Healer, Loadable
        <5> QED
          BY <5>1, <3>1, <3>2, <3>3, <2>3 DEF Owes
      <4> QED
        BY <4>1, <4>2
    <3> QED
      BY <3>2, <3>3, <2>1, <2>7
  <2> QED
    BY <2>1, <2>2, <2>5, <2>6, <2>7, <2>8, <1>0, CoveredBuild
<1>31. ASSUME NEW b \in Builds, LetGo(b) PROVE CoveredInv'
  <2>1. /\ UNCHANGED <<minChunks, ref, skipped, data, fed, damage, healing>>
        /\ \A x \in Builds \ {b} : build'[x] = build[x]
        /\ build[b].pc = "snapshot" /\ build'[b].pc \in {"completed", "stuck"}
    BY <1>31, <1>0, LetGoIs
  <2>2. build[b].pc \notin Busy /\ build'[b].pc \notin Busy /\ ~Past(b)'
    BY <2>1 DEF Busy, InsertPcs, Past, PastPcs, DatasetPcs, MapPcs
  <2>3. Owes(b)'
    BY <2>2, <1>0, OwesNothing
  <2>4. build[b].ka = {}
    BY <2>2, <1>0 DEF Shape, Busy
  <2>5. Covered' = Covered /\ Unmended \subseteq Unmended'
    BY <2>1 DEF Covered, Unmended
  <2>6. \A x \in Builds : build[x].pc \in InsertPcs => build'[x].pc \in InsertPcs
    BY <2>1, <2>2 DEF Busy
  <2>7. \A x \in Builds : build[x].ka \subseteq build'[x].ka \cup Covered'
    BY <2>1, <2>4
  <2>8. damage' \subseteq {"stale"} =>
            /\ Loadable' => \A n \in data' : n \in Covered' \/ \E x \in Builds : n \in build'[x].ka
            /\ (\A x \in Builds : build'[x].pc \notin InsertPcs) => NamesIn(Mentions(fed')) \subseteq Covered'
    BY <2>1, <2>5, <2>6, <2>7, <1>0, FilesCovered
  <2> QED
    BY <2>1, <2>3, <2>5, <2>8, <1>0, CoveredBuild
<1>26. ASSUME NEW z \in zombies, ZombieDump(z) PROVE CoveredInv'
  <2>1. "raced" \in damage' /\ healing' = {}
    BY <1>26 DEF ZombieDump, RacedUnless, Damaged
  <2> QED
    BY <2>1, CoveredVoid
<1>27. ASSUME RollbackRestore PROVE CoveredInv'
  <2>1. "rolledback" \in damage' /\ healing' = {}
    BY <1>27 DEF RollbackRestore, Damaged
  <2> QED
    BY <2>1, CoveredVoid
<1>28. ASSUME ClearGraph PROVE CoveredInv'
  <2>1. healing' = {} /\ "cleared" \in damage'
    BY <1>28 DEF ClearGraph, Damaged
  <2> QED
    BY <2>1, CoveredVoid
<1>29. ASSUME NEW w \in Workers, Crash(w) PROVE CoveredInv'
  <2> DEFINE mine == {b \in Builds : build[b].w = w /\ build[b].pc \notin {"none"} \cup Ended}
  <2>1. \A x \in Builds : (x \in mine => build'[x].pc = "gone") /\ (x \notin mine => build'[x] = build[x])
    <3>1. SUFFICES ASSUME NEW x \in Builds
                   PROVE  (x \in mine => build'[x].pc = "gone") /\ (x \notin mine => build'[x] = build[x])
      OBVIOUS
    <3>2. build'[x] = IF x \in mine THEN [Idle EXCEPT !.pc = "gone"] ELSE build[x]
      BY <1>29 DEF Crash
    <3> QED
      BY <3>2 DEF Idle
  <2>2. UNCHANGED <<minChunks, fed, skipped>> /\ data' \in {data, Torn}
    BY <1>29 DEF Crash
  <2>3. Loadable' => Loadable /\ data' = data
    BY <2>2 DEF Loadable

  <2>4. CASE \E b \in mine : Running(b)
    <3>1. PICK b \in mine : Damaged(Cut(b))
      BY <1>29, <2>4 DEF Crash
    <3>2. "cut" \in damage' /\ healing' = {}
      BY <3>1, CutKinds DEF Damaged
    <3> QED
      BY <3>2, CoveredVoid
  <2>5. CASE ~\E b \in mine : Running(b)
    <3>1. UNCHANGED <<ref, damage, healing>>
      BY <1>29, <2>5 DEF Crash, graphVars
    <3>2. Covered' = Covered /\ Unmended' = Unmended
      BY <3>1, <2>2 DEF Covered, Unmended
    <3>3. \A x \in mine : build[x].ka = {} /\ build[x].pc \notin InsertPcs
      BY <2>5, <1>0 DEF Running, Ended, Shape, InsertPcs
    <3>4. ASSUME Unmended' \subseteq {"stale"}, NEW x \in Builds PROVE Owes(x)'
      <4>1. CASE x \in mine
        <5>1. build'[x].pc \notin Busy /\ ~Past(x)'
          BY <4>1, <2>1 DEF Busy, InsertPcs, Past, PastPcs, DatasetPcs, MapPcs
        <5> QED
          BY <5>1, <1>0, OwesNothing
      <4>2. CASE x \notin mine
        <5>1. Owes(x)
          BY <3>4, <3>2, <1>0 DEF CoveredInv
        <5> QED
          BY <5>1, <4>2, <3>2, <2>1, <2>2, <2>3, OwesStays
      <4> QED
        BY <4>1, <4>2
    <3>5. ASSUME damage' \subseteq {"stale"}, Loadable', NEW f \in data'
          PROVE  f \in Covered' \/ \E x \in Builds : f \in build'[x].ka
      <4>1. f \in Covered \/ \E x \in Builds : f \in build[x].ka
        BY <3>1, <3>5, <2>3, <1>0 DEF CoveredInv
      <4>2. ASSUME NEW x \in Builds, f \in build[x].ka PROVE f \in build'[x].ka
        BY <4>2, <3>3, <2>1
      <4> QED
        BY <4>1, <4>2, <3>2
    <3>6. ASSUME damage' \subseteq {"stale"}, \A x \in Builds : build'[x].pc \notin InsertPcs
          PROVE  NamesIn(Mentions(fed')) \subseteq Covered'
      <4>1. \A x \in Builds : build[x].pc \notin InsertPcs
        BY <3>3, <3>6, <2>1
      <4> QED
        BY <4>1, <3>1, <3>2, <3>6, <2>2, <1>0 DEF CoveredInv
    <3> QED
      BY <3>4, <3>5, <3>6 DEF CoveredInv
  <2> QED
    BY <2>4, <2>5
<1>30.
      \/ UNCHANGED <<minChunks, build, ref, skipped, data, fed>> /\ damage \subseteq damage'
              /\ healing' \subseteq healing
      \/ \E b \in Builds : BuildStep(b) \/ BuildFault(b)
      \/ \E w \in Workers, i \in BOOLEAN : KgBuild(w, i)
      \/ \E z \in zombies : ZombieDump(z)
      \/ \E w \in Workers : Crash(w)
      \/ ClearGraph
      \/ RollbackRestore
  <2>1. ASSUME NEW w \in Workers, NEW v \in DOMAIN dirs, RollbackStart(w, v)
        PROVE  UNCHANGED <<minChunks, build, ref, skipped, data, fed>> /\ damage \subseteq damage'
              /\ healing' \subseteq healing
    BY <2>1 DEF RollbackStart, Damaged, graphVars, diskVars, ghostVars
  <2>2. ASSUME NEW w \in Workers, NEW j \in PruneKeeps, PruneOp(w, j)
        PROVE  UNCHANGED <<minChunks, build, ref, skipped, data, fed>> /\ damage \subseteq damage'
              /\ healing' \subseteq healing
    BY <2>2 DEF PruneOp, Damaged, graphVars, diskVars, ghostVars
  <2>3. ASSUME RollbackList \/ PruneOpList \/ Done
        PROVE  UNCHANGED <<minChunks, build, ref, skipped, data, fed>> /\ damage \subseteq damage'
              /\ healing' \subseteq healing
    BY <2>3 DEF RollbackList, PruneOpList, Done, vars, graphVars, diskVars, ghostVars
  <2>4. ASSUME NEW c \in Chunks, NEW t \in Texts \cup {NoText}, EditTable(c, t)
        PROVE  UNCHANGED <<minChunks, build, ref, skipped, data, fed>> /\ damage \subseteq damage'
              /\ healing' \subseteq healing
    BY <2>4 DEF EditTable, graphVars, diskVars, ghostVars
  <2> QED
    BY <2>1, <2>2, <2>3, <2>4 DEF Next, OpStep
<1> QED
  BY <1>30, <1>1, <1>2, <1>3, <1>4, <1>5, <1>6, <1>7, <1>8, <1>9, <1>10, <1>11, <1>12,
     <1>13, <1>14, <1>15, <1>16, <1>17, <1>18, <1>19, <1>20, <1>21, <1>22, <1>23,
     <1>24, <1>25, <1>26, <1>27, <1>28, <1>29, <1>31 DEF BuildStep, BuildFault, LetGo

\* The inductive invariants together.
SafetyInv == TypeOK /\ ControlInv /\ HasVertexInv /\ MatchInv /\ KeptInv /\ EntityInv /\ CoveredInv

\* The invariant holds initially.
LEMMA SafetyInit == Init => SafetyInv
<1> SUFFICES ASSUME Init PROVE SafetyInv
  OBVIOUS
<1>1. /\ \A b \in Builds : build[b] = Idle
      /\ op = NoOp /\ zombies = {} /\ dirs = <<>> /\ manifest = <<>> /\ data = NoDump
      /\ fed = Nothing /\ vtx = Nothing /\ damage = {} /\ healing = {} /\ before = NoDump
      /\ ckpt = [rows |-> Nothing, mentions |-> {}] /\ schema = FALSE /\ ent = {} /\ ref = {}
      /\ skipped = {} /\ edits = 0 /\ faults = 0 /\ ops = 0 /\ build \in [Builds -> {Idle}]
  BY DEF Init
<1>2. /\ Idle.pc = "none" /\ Idle.rows = Nothing /\ Idle.prev = Nothing /\ Idle.ka = {}
      /\ Idle.owned = {} /\ Idle.todo = {} /\ Idle.v = 0 /\ Idle.seen = <<>> /\ Idle.new = {}
      /\ Idle.incremental = FALSE /\ NoOp.pc = "idle" /\ NoOp.seen = <<>>
  BY DEF Idle, NoOp
<1>3. /\ ToSet(<<>>) = {} /\ Rows(Nothing) = {} /\ Nothing \in Rowss
      /\ Mentions(Nothing) = {} /\ NamesIn(Mentions(Nothing)) = {} /\ NamesIn({}) = {}
  BY RowsIn, NamesOf DEF ToSet
<1>4. \A b \in Builds : ~Running(b) /\ ~Past(b)
  BY <1>1, <1>2, PastRuns
<1>5. BaseTypes
  <2>1. minChunks \in Nat
    BY BuildConstants DEF Init
  <2>2. table \in Rowss
    <3>1. PICK n \in Chunks : table = [c \in Chunks |-> IF c <= n THEN (CHOOSE t \in Texts : TRUE) ELSE NoText]
      BY DEF Init
    <3>2. (CHOOSE t \in Texts : TRUE) \in Texts
      BY BuildConstants
    <3> QED
      BY <3>1, <3>2 DEF Rowss
  <2>3. build \in [Builds -> BuildStates] /\ op \in OpStates
    BY <1>1, IdleState
  <2>4. /\ ckpt \in [rows : Rowss, mentions : SUBSET (Chunks \X Names)]
        /\ ckpt.mentions \subseteq Mentions(ckpt.rows)
    BY <1>1, <1>3
  <2>5. dirs \in Seq(Files) /\ manifest \in Seq(Nat) /\ data \in Files /\ before \in Files
    BY <1>1 DEF Files
  <2>6. edits \in 0 .. MaxEdits /\ faults \in 0 .. MaxFaults /\ ops \in 0 .. MaxOps
    BY <1>1, BuildConstants
  <2> QED
    BY <1>1, <1>3, <2>1, <2>2, <2>3, <2>4, <2>5, <2>6 DEF BaseTypes
<1>6. ListedExist
  BY <1>1, <1>2, <1>3 DEF ListedExist, SeenExist
<1>7. \A b \in Builds : Shape(b)
  BY <1>1, <1>2, <1>3 DEF Shape, DatasetPcs, MapPcs, InsertPcs
<1>8. HealInv /\ SoloInv
  BY <1>1, <1>2, <1>4 DEF HealInv, SoloInv, Exclusive
<1>9. HasVertexInv
  BY <1>1, <1>3, <1>4 DEF HasVertexInv
<1>10. MatchInv
  BY <1>1, <1>3, <1>4 DEF MatchInv, Holds
<1>11. KeptInv
  BY <1>1 DEF KeptInv
<1>12. EntityInv
  <2>1. \A b \in Builds : Collected(b) /\ Carries(b)
    BY <1>1, <1>2, <1>3 DEF Collected, Carries, InsertPcs
  <2> QED
    BY <1>1, <1>3, <2>1 DEF EntityInv
<1>13. CoveredInv
  <2>1. \A b \in Builds : Owes(b)
    BY <1>1, <1>2, <1>3, <1>4 DEF Owes, InsertPcs
  <2> QED
    BY <1>1, <1>3, <2>1 DEF CoveredInv, Loadable
<1> QED
  BY <1>5, <1>6, <1>7, <1>8, <1>9, <1>10, <1>11, <1>12, <1>13 DEF SafetyInv, TypeOK,
     ControlInv

\* Every step keeps the invariant.
LEMMA SafetyStep == SafetyInv /\ [Next]_vars => SafetyInv'
<1> SUFFICES ASSUME SafetyInv, [Next]_vars PROVE SafetyInv'
  OBVIOUS
<1>0. /\ BaseTypes /\ ListedExist /\ ControlInv /\ HasVertexInv /\ MatchInv /\ KeptInv /\ EntityInv /\ CoveredInv
      /\ \A b \in Builds : Shape(b)
  BY DEF SafetyInv, TypeOK, ControlInv
<1>1. CASE Next
  <2>1. BaseTypes' /\ ListedExist' /\ \A b \in Builds : Shape(b)'
    BY <1>0, <1>1, BaseTypesStep, ListedStep, ShapeStep
  <2>2. HealInv' /\ SoloInv'
    BY <1>0, <1>1, <2>1, ControlStep
  <2>3. ControlInv'
    BY <2>1, <2>2 DEF ControlInv
  <2>4. HasVertexInv' /\ MatchInv'
    BY <1>0, <1>1, <2>1, <2>3, MarksStep
  <2>5. KeptInv'
    BY <1>0, <1>1, <2>1, KeptStep
  <2>6. EntityInv'
    BY <1>0, <1>1, <2>1, <2>3, EntityStep
  <2>7. CoveredInv'
    BY <1>0, <1>1, <2>1, <2>3, CoveredStep
  <2> QED
    BY <2>1, <2>3, <2>4, <2>5, <2>6, <2>7 DEF SafetyInv, TypeOK
<1>2. CASE UNCHANGED vars
  <2>0. UNCHANGED <<minChunks, table, data, fed, ckpt, dirs, manifest, schema, vtx, ent, ref,
                    build, op, zombies, skipped, damage, healing, before, edits, faults, ops>>
    BY <1>2 DEF vars, diskVars, versionVars, graphVars, ghostVars, boundVars
  <2>1. BaseTypes' /\ ListedExist'
    BY <2>0, <1>0 DEF BaseTypes, ListedExist, SeenExist
  <2>2. \A b \in Builds : Shape(b)'
    BY <2>0, <1>0, ShapeStays
  <2>3. HealInv' /\ SoloInv'
    BY <2>0, <1>0 DEF ControlInv, HealInv, SoloInv, Healer, Exclusive, Alone, Running, Past,
       Unmended, MapReduced
  <2>4. HasVertexInv' /\ MatchInv'
    BY <2>0, <1>0, NeutralMarks DEF Neutral, Past
  <2>5. KeptInv'
    BY <2>0, <1>0 DEF KeptInv, KeptAt, LastIs, Exclusive, Alone, Running
  <2>6. EntityInv'
    BY <2>0, <1>0, EntitySame
  <2>7. CoveredInv'
    BY <2>0, <1>0, CoveredSame
  <2> QED
    BY <2>1, <2>2, <2>3, <2>4, <2>5, <2>6, <2>7 DEF SafetyInv, TypeOK, ControlInv
<1> QED
  BY <1>1, <1>2

\* All of them hold of every reachable state, whatever the constants.
THEOREM Safety == Spec => []SafetyInv
<1>1. Init => SafetyInv
  BY SafetyInit
<1>2. SafetyInv /\ [Next]_vars => SafetyInv'
  BY SafetyStep
<1> QED
  BY <1>1, <1>2, PTL DEF Spec

\* Every field of every build, file and ghost keeps its type, the checkpoint
\* holds mentions of the chunks it lists, and every version that the manifest
\* lists, or a build or an endpoint is about to list, was made.
THEOREM TypeCorrect == Spec => []TypeOK
<1>1. SafetyInv => TypeOK
  BY DEF SafetyInv
<1> QED
  BY <1>1, Safety, PTL

\* A chunk marked in fed_chunks.json has a vertex, unless the graph was
\* cleared: whatever the numbers of workers, builds and chunks, and wherever a
\* build is cut.
THEOREM VerticesBeforeMarks == Spec => []MarkedHasVertex
<1>1. SafetyInv => MarkedHasVertex
  BY DEF SafetyInv, HasVertexInv, MarkedHasVertex
<1> QED
  BY <1>1, Safety, PTL

\* While no build runs, a marked chunk's vertex holds the text it is marked
\* with, unless a build was cut, raced or could not write its sidecar and no
\* full build has completed since.
THEOREM MarksMatch == Spec => []MarkedMatchesVertex
<1>1. SafetyInv => MarkedMatchesVertex
  <2>1. SUFFICES ASSUME MatchInv, Quiet, damage \cap MatchKinds = {}
                 PROVE  \A c \in Rows(fed) : vtx[c] = fed[c]
    BY DEF SafetyInv, MarkedMatchesVertex, MatchKinds
  <2>2. \A b \in Builds : ~Past(b)
    BY <2>1, PastRuns DEF Quiet
  <2>3. Holds(fed, UNION {Rows(build[b].rows) : b \in {x \in Builds : Past(x)}})
    BY <2>1 DEF MatchInv
  <2> QED
    BY <2>2, <2>3 DEF Holds
<1> QED
  BY <1>1, Safety, PTL

\* The dump that the last archiving of a build or rollback found is the active
\* one or a listed version with its directory: archive_current lists it before
\* it is overwritten, and prune keeps the newest version.
THEOREM DumpKept == Spec => []PreviousDumpKept
<1>1. SafetyInv => PreviousDumpKept
  <2>1. SUFFICES ASSUME SafetyInv, before # NoDump, before # data PROVE before \in Recoverable
    BY DEF PreviousDumpKept
  <2>2. LastIs(manifest, before) /\ manifest \in Seq(Nat)
    BY <2>1 DEF SafetyInv, KeptInv, TypeOK, BaseTypes
  <2>3. manifest[Len(manifest)] \in ToSet(manifest)
    BY <2>2 DEF LastIs, ToSet
  <2> QED
    BY <2>2, <2>3 DEF Recoverable, LastIs
<1> QED
  BY <1>1, Safety, PTL

\* A build that reaches its end has the entities of all its chunks in the graph,
\* or their extraction failed, whichever builds were cut before it and wherever,
\* as long as nothing else touched the graph, the dump or the marks.
THEOREM RetryWorks == Spec => []RetryCompletes
<1>1. SafetyInv => RetryCompletes
  <2>1. SUFFICES ASSUME SafetyInv, NEW b \in Builds, build[b].pc = "finish",
                        damage \cap {"cleared", "raced", "rolledback", "partial", "stale"} = {},
                        MapReduced(build[b].rows) \/ "mapcut" \notin damage
                 PROVE  NamesIn(Mentions(build[b].rows)) \subseteq ent \cup skipped
    BY DEF RetryCompletes
  <2>2. Shape(b) /\ EntityInv
    BY <2>1 DEF SafetyInv, ControlInv
  <2>3. Collected(b)
    <3>1. CASE MapReduced(build[b].rows)
      BY <3>1, <2>1, <2>2 DEF EntityInv, Unmended
    <3>2. CASE "mapcut" \notin damage
      <4>1. Unmended \cap RetryKinds = {}
        BY <3>2, <2>1 DEF Unmended, RetryKinds
      <4> QED
        BY <4>1, <2>2 DEF EntityInv, Carries
    <3> QED
      BY <3>1, <3>2, <2>1
  <2>4. Pending(b) = {}
    BY <2>1, <2>2, PendingNone
  <2> QED
    BY <2>1, <2>3, <2>4 DEF Collected, Inserted, InsertPcs
<1> QED
  BY <1>1, Safety, PTL

\* While no build runs, every name that a marked chunk yields is referenced from
\* some chunk of the graph, or its extraction failed, unless something was
\* damaged and no full build has made it good: what remains of "references edges
\* for OLD chunks' entities already exist from prior builds" where chunks share
\* names, for every number of builds, workers and chunks, and all that they yield.
THEOREM ReferencesKept == Spec => []MarkedReferenced
<1>1. SafetyInv => MarkedReferenced
  <2>1. SUFFICES ASSUME SafetyInv, Quiet, damage \subseteq {"stale"}
                 PROVE  NamesIn(Mentions(fed)) \subseteq NamesIn(ref) \cup skipped
    BY DEF MarkedReferenced
  <2>2. \A b \in Builds : build[b].pc \notin InsertPcs
    BY <2>1 DEF Quiet, Running, Ended, InsertPcs
  <2> QED
    BY <2>1, <2>2 DEF SafetyInv, CoveredInv, Covered
<1> QED
  BY <1>1, Safety, PTL

================================================================================
