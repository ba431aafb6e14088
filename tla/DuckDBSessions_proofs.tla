------------------------- MODULE DuckDBSessions_proofs -------------------------
(***************************************************************************)
(* Proofs about DuckDBSessions, for any workers, threads and permits and   *)
(* any number of faults and restarts.                                      *)
(***************************************************************************)
EXTENDS DuckDBSessions, FiniteSetTheorems, SequenceTheorems, TLAPS

\* The idle pools hold clean connections only, as many as there are permits at most.
PoolInv ==
    /\ idle \in [Workers -> Seq({"clean"})]
    /\ \A v \in Workers : Len(idle[v]) <= MaxPermits


\* What the acquire script does.
LEMMA AcquireShape ==
    ASSUME TypeOK, LuaAcquire
    PROVE  permits' = permits + 1 /\ permits' \in 0 .. MaxPermits /\ ttl' \in BOOLEAN
<1>1. permits < MaxPermits /\ permits' = permits + 1 /\ (ttl' = TRUE \/ ttl' = ttl)
  BY DEF LuaAcquire
<1>2. permits \in 0 .. MaxPermits /\ ttl \in BOOLEAN
  BY DEF TypeOK
<1>3. permits' \in 0 .. MaxPermits
  BY <1>1, <1>2, SessionConstants
<1>4. ttl' \in BOOLEAN
  BY <1>1, <1>2, Zenon
<1> QED
  BY <1>1, <1>3, <1>4

\* A release leaves the types alone, wherever the permit goes.
LEMMA ReleaseTypes ==
    ASSUME TypeOK, NEW t \in Threads, NEW flag \in BOOLEAN, ReleasePermit(t, flag)
    PROVE  /\ permits' \in 0 .. MaxPermits /\ ttl' \in BOOLEAN
           /\ connected' \in [Workers -> BOOLEAN]
           /\ sem' \in [Workers -> Nat]
           /\ pc' = [pc EXCEPT ![t] = "idle"]
           /\ took' = [took EXCEPT ![t] = "none"]
           /\ viaRedis' = [viaRedis EXCEPT ![t] = FALSE]
           /\ astray' \in [Workers -> {"no", "lost", "blip"}]
           /\ minted' = minted /\ restarts' = restarts
           /\ faults' \in 0 .. MaxFaults
<1> USE SessionConstants DEF ReleasePermit, LuaRelease, HandleRedisError, redisVars,
                             localVars, faultVars, TypeOK
<1>1. permits' \in 0 .. MaxPermits /\ ttl' \in BOOLEAN
  OBVIOUS
<1>2a. connected' \in [Workers -> BOOLEAN]
  OBVIOUS
<1>2. sem' \in [Workers -> Nat]
  <2>1. sem' = sem \/ sem' = [sem EXCEPT ![WorkerOf[t]] = @ + 1]
    OBVIOUS
  <2>2. sem \in [Workers -> Nat]
    OBVIOUS
  <2> HIDE DEF ReleasePermit, TypeOK
  <2> QED
    BY <2>1, <2>2
<1>3. astray' \in [Workers -> {"no", "lost", "blip"}] /\ faults' \in 0 .. MaxFaults
  OBVIOUS
<1> QED
  BY <1>1, <1>2a, <1>2, <1>3

\* A pool without its oldest connections, and with one more.
LEMMA PoolShrinks ==
    ASSUME PoolInv, NEW w \in Workers, NEW i \in 1 .. Len(idle[w])
    PROVE  /\ SubSeq(idle[w], i + 1, Len(idle[w])) \in Seq({"clean"})
           /\ Len(SubSeq(idle[w], i + 1, Len(idle[w]))) <= MaxPermits
<1> DEFINE s == idle[w]
<1>1. s \in Seq({"clean"}) /\ Len(s) \in Nat /\ Len(s) <= MaxPermits
  BY DEF PoolInv
<1>2. i + 1 \in Int /\ Len(s) \in Int /\ \A n \in i + 1 .. Len(s) : s[n] \in {"clean"}
  BY <1>1
<1>3. /\ SubSeq(s, i + 1, Len(s)) \in Seq({"clean"})
      /\ Len(SubSeq(s, i + 1, Len(s))) = IF i + 1 <= Len(s) THEN Len(s) - (i + 1) + 1 ELSE 0
  <2> HIDE DEF s
  <2> QED
    BY <1>2, SubSeqProperties
<1> QED
  BY <1>1, <1>3, SessionConstants

\* A returned connection keeps the pool clean and within its size.
LEMMA PoolGrows ==
    ASSUME PoolInv, NEW w \in Workers, Len(idle[w]) < MaxPermits
    PROVE  /\ Append(idle[w], "clean") \in Seq({"clean"})
           /\ Len(Append(idle[w], "clean")) <= MaxPermits
  BY SessionConstants, AppendProperties DEF PoolInv

\* Steps that only move a request into or out of a native query.
Stalls(t) == QueryHangs(t) \/ CleanupBlocks(t) \/ NativeReturns(t)

\* Only clean connections enter a pool, and only where there is room.
LEMMA PoolStep ==
    ASSUME PoolInv, [Next]_vars
    PROVE  PoolInv'
<1>1. ASSUME NEW t \in Threads, Acquire(t) PROVE PoolInv'
  BY <1>1, SessionConstants DEF Acquire, redisVars, localVars, faultVars, PoolInv
<1>2. ASSUME NEW t \in Threads, Stalls(t) PROVE PoolInv'
  BY <1>2, SessionConstants DEF Stalls, QueryHangs, CleanupBlocks, NativeReturns,
     redisVars, localVars, faultVars, PoolInv
<1>3. ASSUME NEW t \in Threads, SessionLeft(t) PROVE PoolInv'
  BY <1>3, SessionConstants DEF SessionLeft, redisVars, localVars, faultVars, PoolInv
<1>4. ASSUME NEW t \in Threads, RedisGrant(t) PROVE PoolInv'
  BY <1>4, SessionConstants DEF RedisGrant, LuaAcquire, Granted, redisVars, localVars,
     faultVars, PoolInv
<1>5. ASSUME NEW t \in Threads, RedisAcquireFails(t) PROVE PoolInv'
  BY <1>5, SessionConstants DEF RedisAcquireFails, LuaAcquire, HandleRedisError,
     redisVars, localVars, faultVars, PoolInv
<1>6. ASSUME NEW t \in Threads, LocalGrant(t) PROVE PoolInv'
  BY <1>6, SessionConstants DEF LocalGrant, Granted, redisVars, localVars, faultVars,
     PoolInv
<1>7. ASSUME NEW t \in Threads, AcquireTimesOut(t) PROVE PoolInv'
  BY <1>7, SessionConstants DEF AcquireTimesOut, redisVars, localVars, faultVars,
     PoolInv
<1>8. ASSUME NEW t \in Threads, ReuseIdle(t) PROVE PoolInv'
  BY <1>8, SessionConstants, PoolShrinks DEF ReuseIdle, redisVars, localVars,
     faultVars, PoolInv
<1>9. ASSUME NEW t \in Threads, CreateConnection(t) PROVE PoolInv'
  BY <1>9, SessionConstants DEF CreateConnection, redisVars, localVars, faultVars,
     PoolInv
<1>10. ASSUME NEW t \in Threads, CreateLeaksPermit(t) PROVE PoolInv'
  BY <1>10, SessionConstants DEF CreateLeaksPermit, redisVars, localVars, faultVars,
     PoolInv
<1>11. ASSUME NEW t \in Threads, CreateFails(t) PROVE PoolInv'
  BY <1>11, SessionConstants DEF CreateFails, redisVars, localVars, faultVars, PoolInv
<1>12. ASSUME NEW t \in Threads, ReleaseSession(t) PROVE PoolInv'
  BY <1>12, SessionConstants, PoolGrows DEF ReleaseSession, ReturnOrClose, redisVars,
     localVars, faultVars, PoolInv
<1>13. ASSUME NEW t \in Threads, Watchdog(t) PROVE PoolInv'
  BY <1>13, SessionConstants DEF Watchdog, ReturnOrClose, redisVars, localVars,
     faultVars, PoolInv
<1>14. ASSUME NEW t \in Threads, Finalize(t) PROVE PoolInv'
  BY <1>14, SessionConstants, PoolGrows DEF Finalize, ReturnOrClose, redisVars,
     localVars, faultVars, PoolInv
<1>15. ASSUME NEW w \in Workers, Restart(w) PROVE PoolInv'
  BY <1>15, SessionConstants DEF Restart, redisVars, localVars, faultVars, PoolInv
<1>16. CASE KeyExpires
  BY <1>16, SessionConstants DEF KeyExpires, redisVars, localVars, faultVars, PoolInv
<1>17. CASE UNCHANGED vars
  BY <1>17, SessionConstants DEF vars, redisVars, localVars, faultVars, PoolInv
<1> QED
  BY <1>1, <1>2, <1>3, <1>4, <1>5, <1>6, <1>7, <1>8, <1>9, <1>10, <1>11, <1>12, <1>13,
     <1>14, <1>15, <1>16, <1>17 DEF Next, Progress, Stalls

\* Every action keeps the types.
LEMMA TypeStep ==
    ASSUME TypeOK, PoolInv', [Next]_vars
    PROVE  TypeOK'
<1>0. /\ idle' \in [Workers -> Seq({"clean", "busy"})]
      /\ \A v \in Workers : Len(idle'[v]) <= MaxPermits
  BY DEF PoolInv
<1>1. ASSUME NEW t \in Threads, Acquire(t) PROVE TypeOK'
  BY <1>1, SessionConstants, <1>0 DEF Acquire, redisVars, localVars, faultVars,
     TypeOK, Waiting, InSession, Sources
<1>2. ASSUME NEW t \in Threads, Stalls(t) PROVE TypeOK'
  BY <1>2, SessionConstants, <1>0 DEF Stalls, QueryHangs, CleanupBlocks, NativeReturns,
     redisVars, localVars, faultVars,
     TypeOK, Waiting, InSession, Sources
<1>3. ASSUME NEW t \in Threads, SessionLeft(t) PROVE TypeOK'
  BY <1>3, SessionConstants, <1>0 DEF SessionLeft, redisVars, localVars, faultVars,
     TypeOK, Waiting, InSession, Sources
<1>4. ASSUME NEW t \in Threads, RedisGrant(t) PROVE TypeOK'
  <2>1. permits' \in 0 .. MaxPermits
    BY <1>4, AcquireShape DEF RedisGrant
  <2>2. ttl' \in BOOLEAN
    BY <1>4, AcquireShape DEF RedisGrant
  <2> QED
    BY <1>4, <1>0, <2>1, <2>2 DEF RedisGrant, Granted, localVars, faultVars, TypeOK, Sources
<1>5. ASSUME NEW t \in Threads, RedisAcquireFails(t) PROVE TypeOK'
  <2>1. permits' \in 0 .. MaxPermits
    <3>1. LuaAcquire \/ permits' = permits
      BY <1>5 DEF RedisAcquireFails, redisVars
    <3> QED
      BY <3>1, AcquireShape DEF TypeOK
  <2>6. ttl' \in BOOLEAN
    <3>1. LuaAcquire \/ ttl' = ttl
      BY <1>5 DEF RedisAcquireFails, redisVars
    <3> QED
      BY <3>1, AcquireShape, Zenon DEF TypeOK
  <2>2. PICK ping \in BOOLEAN : HandleRedisError(WorkerOf[t], ping)
    BY <1>5 DEF RedisAcquireFails
  <2>3. connected' \in [Workers -> BOOLEAN]
    BY <2>2 DEF HandleRedisError, TypeOK
  <2>4. /\ astray' \in [Workers -> {"no", "lost", "blip"}] /\ faults' \in 0 .. MaxFaults
        /\ minted' = minted /\ restarts' = restarts
    BY <2>2, SessionConstants DEF HandleRedisError, TypeOK
  <2>5. pc' = [pc EXCEPT ![t] = "fell"] /\ UNCHANGED <<sem, took, viaRedis>>
    BY <1>5 DEF RedisAcquireFails
  <2> QED
    BY <1>0, <2>1, <2>3, <2>4, <2>5, <2>6 DEF TypeOK, Waiting
<1>6. ASSUME NEW t \in Threads, LocalGrant(t) PROVE TypeOK'
  <2>1. viaRedis' \in [Threads -> BOOLEAN]
    <3>1. (pc[t] = "fell") \in BOOLEAN
      OBVIOUS
    <3> QED
      BY <1>6, <3>1 DEF LocalGrant, Granted, TypeOK
  <2>2. sem' \in [Workers -> Nat]
    BY <1>6, SessionConstants DEF LocalGrant, TypeOK
  <2> QED
    BY <1>6, <1>0, <2>1, <2>2 DEF LocalGrant, Granted, redisVars, faultVars, TypeOK, Sources
<1>7. ASSUME NEW t \in Threads, AcquireTimesOut(t) PROVE TypeOK'
  BY <1>7, SessionConstants, <1>0 DEF AcquireTimesOut, redisVars, localVars,
     faultVars, TypeOK, Waiting, InSession, Sources
<1>8. ASSUME NEW t \in Threads, ReuseIdle(t) PROVE TypeOK'
  BY <1>8, SessionConstants, <1>0 DEF ReuseIdle, redisVars, localVars, faultVars,
     TypeOK, Waiting, InSession, Sources
<1>9. ASSUME NEW t \in Threads, CreateConnection(t) PROVE TypeOK'
  BY <1>9, SessionConstants, <1>0 DEF CreateConnection, redisVars, localVars,
     faultVars, TypeOK, Waiting, InSession, Sources
<1>10. ASSUME NEW t \in Threads, CreateLeaksPermit(t) PROVE TypeOK'
  BY <1>10, SessionConstants, <1>0 DEF CreateLeaksPermit, redisVars, localVars,
     faultVars, TypeOK, Waiting, InSession, Sources
<1>11. ASSUME NEW t \in Threads, CreateFails(t) PROVE TypeOK'
  <2>1. PICK flag \in BOOLEAN : ReleasePermit(t, flag)
    BY <1>11 DEF CreateFails, TypeOK
  <2> QED
    BY <1>0, <2>1, ReleaseTypes DEF TypeOK, Sources
<1>12. ASSUME NEW t \in Threads, ReleaseSession(t) PROVE TypeOK'
  <2>1. PICK flag \in BOOLEAN : ReleasePermit(t, flag)
    BY <1>12 DEF ReleaseSession, ReturnOrClose, TypeOK
  <2> QED
    BY <1>0, <2>1, ReleaseTypes DEF TypeOK, Sources
<1>13. ASSUME NEW t \in Threads, Watchdog(t) PROVE TypeOK'
  <2>1. PICK flag \in BOOLEAN : ReleasePermit(t, flag)
    BY <1>13 DEF Watchdog, ReturnOrClose, TypeOK
  <2> QED
    BY <1>0, <2>1, ReleaseTypes DEF TypeOK, Sources
<1>14. ASSUME NEW t \in Threads, Finalize(t) PROVE TypeOK'
  <2>1. PICK flag \in BOOLEAN : ReleasePermit(t, flag)
    BY <1>14 DEF Finalize, ReturnOrClose, TypeOK
  <2> QED
    BY <1>0, <2>1, ReleaseTypes DEF TypeOK, Sources
<1>15. ASSUME NEW w \in Workers, Restart(w) PROVE TypeOK'
  BY <1>15, SessionConstants, <1>0 DEF Restart, redisVars, localVars, faultVars,
     TypeOK, Waiting, InSession, Sources
<1>16. CASE KeyExpires
  <2>1. minted' \in BOOLEAN
    BY <1>16, Zenon DEF KeyExpires
  <2>2. permits' = 0 /\ UNCHANGED <<connected, sem, astray, faults, restarts, pc, took, viaRedis>>
    BY <1>16 DEF KeyExpires, localVars
  <2>3. ttl' \in BOOLEAN
    BY <1>16, Zenon DEF KeyExpires
  <2> QED
    BY <1>0, <2>1, <2>2, <2>3, SessionConstants DEF TypeOK
<1>17. CASE UNCHANGED vars
  BY <1>17, SessionConstants, <1>0 DEF vars, redisVars, localVars, faultVars, TypeOK,
     Waiting, InSession, Sources
<1> QED
  BY <1>1, <1>2, <1>3, <1>4, <1>5, <1>6, <1>7, <1>8, <1>9, <1>10, <1>11, <1>12, <1>13,
     <1>14, <1>15, <1>16, <1>17 DEF Next, Progress, Stalls

-------------------------------------------------------------------------------
(* Counting the cells of a table with one row per worker. *)

Row(r, w) == {w} \X (1 .. r[w])

Others(r, w) == UNION {Row(r, v) : v \in Workers \ {w}}

\* The permits that one worker holds in reserve are as many as it counts.
LEMMA RowSize ==
    ASSUME NEW r \in [Workers -> Nat], NEW w \in Workers
    PROVE  IsFiniteSet(Row(r, w)) /\ Cardinality(Row(r, w)) = r[w]
<1>1. r[w] \in Nat
  OBVIOUS
<1>2. IsFiniteSet(1 .. r[w]) /\ Cardinality(1 .. r[w]) = r[w]
  BY <1>1, FS_Interval
<1>3. IsFiniteSet({w}) /\ Cardinality({w}) = 1
  BY FS_Singleton
<1>4. /\ IsFiniteSet({w} \X (1 .. r[w]))
      /\ Cardinality({w} \X (1 .. r[w])) = Cardinality({w}) * Cardinality(1 .. r[w])
  BY <1>2, <1>3, FS_Product
<1> QED
  BY <1>1, <1>2, <1>3, <1>4 DEF Row

\* The reserves of the other workers are finite.
LEMMA OthersFinite ==
    ASSUME NEW r \in [Workers -> Nat], NEW w \in Workers
    PROVE  IsFiniteSet(Others(r, w))
<1> DEFINE S == Workers \ {w}
           f == [v \in S |-> Row(r, v)]
           T == {Row(r, v) : v \in S}
<1>1. IsFiniteSet(S)
  BY SessionConstants, FS_RemoveElement
<1>2. f \in Surjection(S, T)
  BY DEF Surjection
<1>3. IsFiniteSet(T)
  <2> HIDE DEF f, S, T
  <2> QED
    BY <1>1, <1>2, FS_Surjection
<1>4. \A X \in T : IsFiniteSet(X)
  BY RowSize
<1>5. IsFiniteSet(UNION T)
  <2> HIDE DEF T
  <2> QED
    BY <1>3, <1>4, FS_UNION
<1> QED
  BY <1>5 DEF Others

\* All reserves are those of one worker and those of the others.
LEMMA CellsSplit ==
    ASSUME NEW r \in [Workers -> Nat], NEW w \in Workers
    PROVE  /\ IsFiniteSet(Cells(r))
           /\ Cardinality(Others(r, w)) \in Nat
           /\ Cardinality(Cells(r)) = Cardinality(Others(r, w)) + r[w]
<1>1. Cells(r) = Others(r, w) \cup Row(r, w)
  BY DEF Cells, Others, Row
<1>2. Others(r, w) \cap Row(r, w) = {}
  <2> SUFFICES ASSUME NEW c \in Row(r, w), NEW v \in Workers \ {w}, c \in Row(r, v)
               PROVE  FALSE
    BY DEF Others
  <2>1. c[1] = w /\ c[1] = v
    BY DEF Row
  <2> QED
    BY <2>1
<1>3. IsFiniteSet(Others(r, w)) /\ IsFiniteSet(Row(r, w)) /\ Cardinality(Row(r, w)) = r[w]
  BY OthersFinite, RowSize
<1>4. Cardinality(Others(r, w)) \in Nat
  BY <1>3, FS_CardinalityType
<1>5. /\ IsFiniteSet(Others(r, w) \cup Row(r, w))
      /\ Cardinality(Others(r, w) \cup Row(r, w))
         = Cardinality(Others(r, w)) + Cardinality(Row(r, w))
           - Cardinality(Others(r, w) \cap Row(r, w))
  BY <1>3, FS_Union
<1> QED
  BY <1>1, <1>2, <1>3, <1>4, <1>5, FS_EmptySet

\* Changing one row changes the number of cells by as much.
LEMMA CellsChange ==
    ASSUME NEW r \in [Workers -> Nat], NEW q \in [Workers -> Nat], NEW w \in Workers,
           \A v \in Workers \ {w} : q[v] = r[v]
    PROVE  /\ Cardinality(Cells(r)) \in Nat /\ Cardinality(Cells(q)) \in Nat
           /\ Cardinality(Cells(q)) + r[w] = Cardinality(Cells(r)) + q[w]
<1>1. Others(q, w) = Others(r, w)
  <2>1. \A v \in Workers \ {w} : Row(q, v) = Row(r, v)
    BY DEF Row
  <2> QED
    BY <2>1 DEF Others
<1>2. /\ Cardinality(Others(r, w)) \in Nat
      /\ Cardinality(Cells(r)) = Cardinality(Others(r, w)) + r[w]
      /\ Cardinality(Cells(q)) = Cardinality(Others(r, w)) + q[w]
  BY <1>1, CellsSplit
<1>3. r[w] \in Nat /\ q[w] \in Nat
  OBVIOUS
<1> QED
  BY <1>2, <1>3

-------------------------------------------------------------------------------
(* What an error of Redis and a release do to a worker. *)

ErrorAt(w) ==
    /\ astray'[w] \in {"lost", "blip"}
    /\ astray[w] = "blip" => astray'[w] = "blip"
    /\ connected'[w] => astray'[w] = "blip"

SameAt(w) == astray'[w] = astray[w] /\ connected'[w] = connected[w]

\* The permit goes to Redis, or is lost on the way,
ToRedis(t) ==
    LET w == WorkerOf[t] IN
    /\ connected[w]
    /\ sem' = sem
    /\ permits' + 1 >= permits
    /\ SameAt(w) \/ ErrorAt(w)

\* or to the worker's own semaphore.
ToLocal(t) ==
    LET w == WorkerOf[t] IN
    /\ sem' = [sem EXCEPT ![w] = @ + 1]
    /\ permits' = permits /\ connected'[w] = connected[w]
    /\ astray'[w] = IF took[t] = "redis" /\ astray[w] = "no" THEN "lost" ELSE astray[w]

\* An error of Redis changes its own worker only.
LEMMA ErrorShape ==
    ASSUME TypeOK, NEW w \in Workers, NEW ping \in BOOLEAN, HandleRedisError(w, ping)
    PROVE  /\ ErrorAt(w) /\ minted' = minted
           /\ \A v \in Workers \ {w} : SameAt(v)
<1>1. /\ connected' = [connected EXCEPT ![w] = ping]
      /\ astray' = [astray EXCEPT ![w] = IF ping \/ @ = "blip" THEN "blip" ELSE "lost"]
      /\ minted' = minted
  BY DEF HandleRedisError
<1>2. connected'[w] = ping /\ \A v \in Workers \ {w} : connected'[v] = connected[v]
  BY <1>1 DEF TypeOK
<1>3. /\ astray'[w] = IF ping \/ astray[w] = "blip" THEN "blip" ELSE "lost"
      /\ \A v \in Workers \ {w} : astray'[v] = astray[v]
  BY <1>1 DEF TypeOK
<1> QED
  BY <1>1, <1>2, <1>3 DEF ErrorAt, SameAt

\* A release changes its own worker only, and returns to Redis or to the fallback.
LEMMA ReleaseShape ==
    ASSUME TypeOK, NEW t \in Threads, NEW flag \in BOOLEAN, ReleasePermit(t, flag)
    PROVE  /\ took' = [took EXCEPT ![t] = "none"] /\ pc' = [pc EXCEPT ![t] = "idle"]
           /\ minted' = minted
           /\ \A v \in Workers \ {WorkerOf[t]} : SameAt(v)
           /\ ToRedis(t) \/ ToLocal(t)
<1> DEFINE w == WorkerOf[t]
<1>0. w \in Workers /\ permits \in Nat
  BY SessionConstants DEF TypeOK
<1>1. took' = [took EXCEPT ![t] = "none"] /\ pc' = [pc EXCEPT ![t] = "idle"]
  BY DEF ReleasePermit
<1>2. LuaRelease \/ UNCHANGED redisVars => permits' + 1 >= permits
  BY <1>0 DEF LuaRelease, redisVars
<1>3. CASE connected[w] /\ LuaRelease /\ UNCHANGED <<localVars, faultVars>>
  BY <1>1, <1>2, <1>3 DEF ToRedis, SameAt, localVars, faultVars
<1>4. ASSUME connected[w], LuaRelease \/ UNCHANGED redisVars, UNCHANGED sem,
             NEW ping \in BOOLEAN, HandleRedisError(w, ping)
      PROVE  ToRedis(t) /\ minted' = minted /\ \A v \in Workers \ {w} : SameAt(v)
  BY <1>0, <1>2, <1>4, ErrorShape DEF ToRedis
<1>5. CASE /\ sem' = [sem EXCEPT ![w] = @ + 1]
           /\ astray' = IF took[t] = "redis" /\ astray[w] = "no"
                        THEN [astray EXCEPT ![w] = "lost"] ELSE astray
           /\ UNCHANGED <<redisVars, connected, minted, faults, restarts>>
  BY <1>0, <1>1, <1>5 DEF ToLocal, SameAt, redisVars, TypeOK
<1> QED
  BY <1>1, <1>3, <1>4, <1>5 DEF ReleasePermit

\* A release keeps what is known of threads and workers.
LEMMA ReleaseOk ==
    ASSUME TypeOK, CapInv, NEW t \in Threads, NEW flag \in BOOLEAN, ReleasePermit(t, flag),
           took[t] # "none"
    PROVE  (\A u \in Threads : ThreadOk(u)') /\ (\A v \in Workers : WorkerOk(v)')
<1> DEFINE w == WorkerOf[t]
<1>1. /\ took' = [took EXCEPT ![t] = "none"] /\ pc' = [pc EXCEPT ![t] = "idle"]
      /\ \A v \in Workers \ {w} : SameAt(v)
      /\ ToRedis(t) \/ ToLocal(t)
  BY ReleaseShape
<1>2. w \in Workers /\ \A u \in Threads : WorkerOf[u] \in Workers
  BY SessionConstants
<1>3. took[t] \in {"redis", "local"} /\ sem[w] \in Nat /\ ThreadOk(t) /\ WorkerOk(w)
  BY <1>2 DEF TypeOK, Sources, CapInv
<1>4. /\ took'[t] = "none" /\ pc'[t] = "idle"
      /\ \A u \in Threads \ {t} : took'[u] = took[u] /\ pc'[u] = pc[u]
  BY <1>1 DEF TypeOK
<1>5. \A v \in Workers \ {w} : sem'[v] = sem[v]
  BY <1>1 DEF ToRedis, ToLocal, TypeOK
<1>6. \/ SameAt(w)
      \/ ErrorAt(w)
      \/ /\ astray[w] = "no" /\ astray'[w] = "lost" /\ connected'[w] = connected[w]
  BY <1>1 DEF ToRedis, ToLocal, SameAt
<1>7. astray'[w] = "no" => SameAt(w) /\ sem'[w] = sem[w]
  <2>1. CASE ToRedis(t)
    BY <2>1 DEF ToRedis, SameAt, ErrorAt
  <2>2. CASE ToLocal(t)
    BY <1>3, <2>2 DEF ToLocal, ThreadOk
  <2> QED
    BY <1>1, <2>1, <2>2
<1>8. ASSUME NEW v \in Workers PROVE WorkerOk(v)'
  BY <1>1, <1>3, <1>5, <1>7, <1>8 DEF WorkerOk, SameAt, CapInv
<1>9. ASSUME NEW u \in Threads PROVE ThreadOk(u)'
  <2>1. ThreadOk(u) /\ WorkerOf[u] \in Workers
    BY <1>2 DEF CapInv
  <2>2. CASE u = t
    BY <1>4, <2>2 DEF ThreadOk, InSession
  <2>3. CASE u # t /\ WorkerOf[u] = w
    BY <1>4, <1>6, <2>1, <2>3 DEF ThreadOk, SameAt, ErrorAt
  <2>4. CASE u # t /\ WorkerOf[u] # w
    BY <1>1, <1>4, <2>1, <2>4 DEF ThreadOk, SameAt
  <2> QED
    BY <2>2, <2>3, <2>4
<1> QED
  BY <1>8, <1>9

\* A thread is at its worker's own semaphore for a reason.
LEMMA ThreadStep ==
    ASSUME TypeOK, CapInv, [Next]_vars, NEW u \in Threads
    PROVE  ThreadOk(u)'
<1>1. ASSUME NEW t \in Threads, Acquire(t) PROVE ThreadOk(u)'
  BY <1>1, SessionConstants DEF Acquire, redisVars, localVars, faultVars, TypeOK,
     CapInv, ThreadOk, WorkerOk, InSession
<1>2. ASSUME NEW t \in Threads, Stalls(t) PROVE ThreadOk(u)'
  <2>1. UNCHANGED <<redisVars, localVars, idle, faultVars, took, viaRedis>>
    BY <1>2 DEF Stalls, QueryHangs, CleanupBlocks, NativeReturns
  <2>2. pc[t] \in InSession /\ \E where \in InSession : pc' = [pc EXCEPT ![t] = where]
    BY <1>2 DEF Stalls, QueryHangs, CleanupBlocks, NativeReturns, InSession
  <2>3. ThreadOk(u)
    BY DEF CapInv
  <2> QED
    BY <2>1, <2>2, <2>3 DEF ThreadOk, InSession, localVars, faultVars, TypeOK
<1>3. ASSUME NEW t \in Threads, SessionLeft(t) PROVE ThreadOk(u)'
  BY <1>3, SessionConstants DEF SessionLeft, redisVars, localVars, faultVars, TypeOK,
     CapInv, ThreadOk, WorkerOk, InSession
<1>4. ASSUME NEW t \in Threads, RedisGrant(t) PROVE ThreadOk(u)'
  BY <1>4, SessionConstants DEF RedisGrant, LuaAcquire, Granted, redisVars, localVars,
     faultVars, TypeOK, CapInv, ThreadOk, WorkerOk, InSession
<1>5. ASSUME NEW t \in Threads, RedisAcquireFails(t) PROVE ThreadOk(u)'
  <2>1. PICK ping \in BOOLEAN : HandleRedisError(WorkerOf[t], ping)
    BY <1>5 DEF RedisAcquireFails
  <2>2. ErrorAt(WorkerOf[t]) /\ \A v \in Workers \ {WorkerOf[t]} : SameAt(v)
    BY <2>1, ErrorShape, SessionConstants
  <2>3. /\ pc[t] = "redis" /\ UNCHANGED <<sem, took>>
        /\ pc' = [pc EXCEPT ![t] = "fell"]
    BY <1>5 DEF RedisAcquireFails
  <2>4. /\ ThreadOk(u) /\ ThreadOk(t) /\ took' = took /\ pc'[t] = "fell"
        /\ u # t => pc'[u] = pc[u]
    BY <2>3 DEF CapInv, TypeOK
  <2>5. WorkerOf[u] = WorkerOf[t] \/ SameAt(WorkerOf[u])
    BY <2>2, SessionConstants
  <2>6. CASE u = t
    BY <2>2, <2>3, <2>4, <2>6 DEF ErrorAt, ThreadOk, InSession
  <2>7. CASE u # t
    BY <2>2, <2>4, <2>5, <2>7 DEF ErrorAt, SameAt, ThreadOk
  <2> QED
    BY <2>6, <2>7
<1>6. ASSUME NEW t \in Threads, LocalGrant(t) PROVE ThreadOk(u)'
  BY <1>6, SessionConstants DEF LocalGrant, Granted, redisVars, localVars, faultVars,
     TypeOK, CapInv, ThreadOk, WorkerOk, InSession
<1>7. ASSUME NEW t \in Threads, AcquireTimesOut(t) PROVE ThreadOk(u)'
  BY <1>7, SessionConstants DEF AcquireTimesOut, redisVars, localVars, faultVars,
     TypeOK, CapInv, ThreadOk, WorkerOk, InSession
<1>8. ASSUME NEW t \in Threads, ReuseIdle(t) PROVE ThreadOk(u)'
  BY <1>8, SessionConstants DEF ReuseIdle, redisVars, localVars, faultVars, TypeOK,
     CapInv, ThreadOk, WorkerOk, InSession
<1>9. ASSUME NEW t \in Threads, CreateConnection(t) PROVE ThreadOk(u)'
  BY <1>9, SessionConstants DEF CreateConnection, redisVars, localVars, faultVars,
     TypeOK, CapInv, ThreadOk, WorkerOk, InSession
<1>10. ASSUME NEW t \in Threads, CreateLeaksPermit(t) PROVE ThreadOk(u)'
  BY <1>10, SessionConstants DEF CreateLeaksPermit, redisVars, localVars, faultVars,
     TypeOK, CapInv, ThreadOk, WorkerOk, InSession
<1>11. ASSUME NEW t \in Threads, CreateFails(t) PROVE ThreadOk(u)'
  <2>1. PICK flag \in BOOLEAN : ReleasePermit(t, flag)
    BY <1>11 DEF CreateFails, TypeOK
  <2>2. pc[t] \in InSession \union {"granted"}
    BY <1>11 DEF CreateFails, InSession
  <2> QED
    BY <2>1, <2>2, ReleaseOk DEF CapInv, ThreadOk
<1>12. ASSUME NEW t \in Threads, ReleaseSession(t) PROVE ThreadOk(u)'
  <2>1. PICK flag \in BOOLEAN : ReleasePermit(t, flag)
    BY <1>12 DEF ReleaseSession, ReturnOrClose, TypeOK
  <2>2. pc[t] \in InSession \union {"granted"}
    BY <1>12 DEF ReleaseSession, InSession
  <2> QED
    BY <2>1, <2>2, ReleaseOk DEF CapInv, ThreadOk
<1>13. ASSUME NEW t \in Threads, Watchdog(t) PROVE ThreadOk(u)'
  <2>1. PICK flag \in BOOLEAN : ReleasePermit(t, flag)
    BY <1>13 DEF Watchdog, ReturnOrClose, TypeOK
  <2>2. pc[t] \in InSession \union {"granted"}
    BY <1>13 DEF Watchdog, InSession
  <2> QED
    BY <2>1, <2>2, ReleaseOk DEF CapInv, ThreadOk
<1>14. ASSUME NEW t \in Threads, Finalize(t) PROVE ThreadOk(u)'
  <2>1. PICK flag \in BOOLEAN : ReleasePermit(t, flag)
    BY <1>14 DEF Finalize, ReturnOrClose, TypeOK
  <2>2. pc[t] \in InSession \union {"granted"}
    BY <1>14 DEF Finalize, InSession
  <2> QED
    BY <2>1, <2>2, ReleaseOk DEF CapInv, ThreadOk
<1>15. ASSUME NEW w \in Workers, Restart(w) PROVE ThreadOk(u)'
  BY <1>15, SessionConstants DEF Restart, redisVars, localVars, faultVars, TypeOK,
     CapInv, ThreadOk, WorkerOk, InSession
<1>16. CASE KeyExpires
  BY <1>16, SessionConstants DEF KeyExpires, redisVars, localVars, faultVars, TypeOK,
     CapInv, ThreadOk, WorkerOk, InSession
<1>17. CASE UNCHANGED vars
  BY <1>17, SessionConstants DEF vars, redisVars, localVars, faultVars, TypeOK,
     CapInv, ThreadOk, WorkerOk, InSession
<1> QED
  BY <1>1, <1>2, <1>3, <1>4, <1>5, <1>6, <1>7, <1>8, <1>9, <1>10, <1>11, <1>12, <1>13,
     <1>14, <1>15, <1>16, <1>17 DEF Next, Progress, Stalls

\* A worker whose permits never went astray has all of its own.
LEMMA WorkerStep ==
    ASSUME TypeOK, CapInv, [Next]_vars, NEW v \in Workers
    PROVE  WorkerOk(v)'
<1>1. ASSUME NEW t \in Threads, Acquire(t) PROVE WorkerOk(v)'
  BY <1>1, SessionConstants DEF Acquire, redisVars, localVars, faultVars, TypeOK,
     CapInv, ThreadOk, WorkerOk, InSession
<1>2. ASSUME NEW t \in Threads, Stalls(t) PROVE WorkerOk(v)'
  BY <1>2, SessionConstants DEF Stalls, QueryHangs, CleanupBlocks, NativeReturns,
     redisVars, localVars, faultVars, TypeOK, CapInv, ThreadOk, WorkerOk, InSession
<1>3. ASSUME NEW t \in Threads, SessionLeft(t) PROVE WorkerOk(v)'
  BY <1>3, SessionConstants DEF SessionLeft, redisVars, localVars, faultVars, TypeOK,
     CapInv, ThreadOk, WorkerOk, InSession
<1>4. ASSUME NEW t \in Threads, RedisGrant(t) PROVE WorkerOk(v)'
  BY <1>4, SessionConstants DEF RedisGrant, LuaAcquire, Granted, redisVars, localVars,
     faultVars, TypeOK, CapInv, ThreadOk, WorkerOk, InSession
<1>5. ASSUME NEW t \in Threads, RedisAcquireFails(t) PROVE WorkerOk(v)'
  <2>1. PICK ping \in BOOLEAN : HandleRedisError(WorkerOf[t], ping)
    BY <1>5 DEF RedisAcquireFails
  <2>2. ErrorAt(WorkerOf[t]) /\ \A x \in Workers \ {WorkerOf[t]} : SameAt(x)
    BY <2>1, ErrorShape, SessionConstants
  <2>3. /\ pc[t] = "redis" /\ UNCHANGED <<sem, took>>
        /\ pc' = [pc EXCEPT ![t] = "fell"]
    BY <1>5 DEF RedisAcquireFails
  <2> QED
    BY <2>2, <2>3, SessionConstants DEF ErrorAt, SameAt, TypeOK, CapInv, ThreadOk,
       WorkerOk, InSession
<1>6. ASSUME NEW t \in Threads, LocalGrant(t) PROVE WorkerOk(v)'
  BY <1>6, SessionConstants DEF LocalGrant, Granted, redisVars, localVars, faultVars,
     TypeOK, CapInv, ThreadOk, WorkerOk, InSession
<1>7. ASSUME NEW t \in Threads, AcquireTimesOut(t) PROVE WorkerOk(v)'
  BY <1>7, SessionConstants DEF AcquireTimesOut, redisVars, localVars, faultVars,
     TypeOK, CapInv, ThreadOk, WorkerOk, InSession
<1>8. ASSUME NEW t \in Threads, ReuseIdle(t) PROVE WorkerOk(v)'
  BY <1>8, SessionConstants DEF ReuseIdle, redisVars, localVars, faultVars, TypeOK,
     CapInv, ThreadOk, WorkerOk, InSession
<1>9. ASSUME NEW t \in Threads, CreateConnection(t) PROVE WorkerOk(v)'
  BY <1>9, SessionConstants DEF CreateConnection, redisVars, localVars, faultVars,
     TypeOK, CapInv, ThreadOk, WorkerOk, InSession
<1>10. ASSUME NEW t \in Threads, CreateLeaksPermit(t) PROVE WorkerOk(v)'
  BY <1>10, SessionConstants DEF CreateLeaksPermit, redisVars, localVars, faultVars,
     TypeOK, CapInv, ThreadOk, WorkerOk, InSession
<1>11. ASSUME NEW t \in Threads, CreateFails(t) PROVE WorkerOk(v)'
  <2>1. PICK flag \in BOOLEAN : ReleasePermit(t, flag)
    BY <1>11 DEF CreateFails, TypeOK
  <2>2. pc[t] \in InSession \union {"granted"}
    BY <1>11 DEF CreateFails, InSession
  <2> QED
    BY <2>1, <2>2, ReleaseOk DEF CapInv, ThreadOk
<1>12. ASSUME NEW t \in Threads, ReleaseSession(t) PROVE WorkerOk(v)'
  <2>1. PICK flag \in BOOLEAN : ReleasePermit(t, flag)
    BY <1>12 DEF ReleaseSession, ReturnOrClose, TypeOK
  <2>2. pc[t] \in InSession \union {"granted"}
    BY <1>12 DEF ReleaseSession, InSession
  <2> QED
    BY <2>1, <2>2, ReleaseOk DEF CapInv, ThreadOk
<1>13. ASSUME NEW t \in Threads, Watchdog(t) PROVE WorkerOk(v)'
  <2>1. PICK flag \in BOOLEAN : ReleasePermit(t, flag)
    BY <1>13 DEF Watchdog, ReturnOrClose, TypeOK
  <2>2. pc[t] \in InSession \union {"granted"}
    BY <1>13 DEF Watchdog, InSession
  <2> QED
    BY <2>1, <2>2, ReleaseOk DEF CapInv, ThreadOk
<1>14. ASSUME NEW t \in Threads, Finalize(t) PROVE WorkerOk(v)'
  <2>1. PICK flag \in BOOLEAN : ReleasePermit(t, flag)
    BY <1>14 DEF Finalize, ReturnOrClose, TypeOK
  <2>2. pc[t] \in InSession \union {"granted"}
    BY <1>14 DEF Finalize, InSession
  <2> QED
    BY <2>1, <2>2, ReleaseOk DEF CapInv, ThreadOk
<1>15. ASSUME NEW w \in Workers, Restart(w) PROVE WorkerOk(v)'
  BY <1>15, SessionConstants DEF Restart, redisVars, localVars, faultVars, TypeOK,
     CapInv, ThreadOk, WorkerOk, InSession
<1>16. CASE KeyExpires
  BY <1>16, SessionConstants DEF KeyExpires, redisVars, localVars, faultVars, TypeOK,
     CapInv, ThreadOk, WorkerOk, InSession
<1>17. CASE UNCHANGED vars
  BY <1>17, SessionConstants DEF vars, redisVars, localVars, faultVars, TypeOK,
     CapInv, ThreadOk, WorkerOk, InSession
<1> QED
  BY <1>1, <1>2, <1>3, <1>4, <1>5, <1>6, <1>7, <1>8, <1>9, <1>10, <1>11, <1>12, <1>13,
     <1>14, <1>15, <1>16, <1>17 DEF Next, Progress, Stalls

-------------------------------------------------------------------------------
(* Counting permits. *)

\* Holders are finite, before and after a step.
LEMMA Finite ==
    ASSUME NEW w \in Workers
    PROVE  /\ IsFiniteSet(Holders) /\ IsFiniteSet(LocalHolders(w))
           /\ Cardinality(Holders) \in Nat /\ Cardinality(LocalHolders(w)) \in Nat
           /\ IsFiniteSet(Workers) /\ Cardinality(Workers) \in Nat
           /\ Cardinality(Holders)' \in Nat /\ Cardinality(LocalHolders(w))' \in Nat
  BY SessionConstants, FS_Subset, FS_CardinalityType DEF Holders, LocalHolders

\* The number of holders when one thread's permit changes.
LEMMA CountChange ==
    ASSUME TypeOK, NEW t \in Threads, NEW x \in Sources, took' = [took EXCEPT ![t] = x]
    PROVE  /\ Cardinality(Holders)' =
                Cardinality(Holders) + (IF x = "none" THEN 0 ELSE 1)
                                     - (IF took[t] = "none" THEN 0 ELSE 1)
           /\ Cardinality(LocalHolders(WorkerOf[t]))' =
                Cardinality(LocalHolders(WorkerOf[t])) + (IF x = "local" THEN 1 ELSE 0)
                                                       - (IF took[t] = "local" THEN 1 ELSE 0)
<1> DEFINE w == WorkerOf[t]
           H == Holders
           L == LocalHolders(w)
<1>1. w \in Workers /\ IsFiniteSet(H) /\ IsFiniteSet(L)
  BY SessionConstants, Finite
<1>2. Cardinality(H) \in Nat /\ Cardinality(L) \in Nat
  BY <1>1, FS_CardinalityType
<1>3. took'[t] = x /\ \A u \in Threads \ {t} : took'[u] = took[u]
  BY DEF TypeOK
<1>4. Holders' = IF x = "none" THEN H \ {t} ELSE H \cup {t}
  BY <1>3 DEF Holders
<1>5. LocalHolders(w)' = IF x = "local" THEN L \cup {t} ELSE L \ {t}
  BY <1>3 DEF LocalHolders
<1>6. (t \in H <=> took[t] # "none") /\ (t \in L <=> took[t] = "local")
  BY DEF Holders, LocalHolders
<1>7. /\ Cardinality(H \cup {t}) = IF t \in H THEN Cardinality(H) ELSE Cardinality(H) + 1
      /\ Cardinality(H \ {t}) = IF t \in H THEN Cardinality(H) - 1 ELSE Cardinality(H)
      /\ Cardinality(L \cup {t}) = IF t \in L THEN Cardinality(L) ELSE Cardinality(L) + 1
      /\ Cardinality(L \ {t}) = IF t \in L THEN Cardinality(L) - 1 ELSE Cardinality(L)
  <2> HIDE DEF H, L
  <2> QED
    BY <1>1, FS_AddElement, FS_RemoveElement
<1> HIDE DEF w
<1>8. Cardinality(Holders)' = Cardinality(H) + (IF x = "none" THEN 0 ELSE 1)
                                             - (IF took[t] = "none" THEN 0 ELSE 1)
  <2> HIDE DEF H, L
  <2> QED
    BY <1>2, <1>4, <1>6, <1>7
<1>9. Cardinality(LocalHolders(w))' = Cardinality(L) + (IF x = "local" THEN 1 ELSE 0)
                                                     - (IF took[t] = "local" THEN 1 ELSE 0)
  <2> HIDE DEF H, L
  <2> QED
    BY <1>2, <1>5, <1>6, <1>7
<1> QED
  BY <1>8, <1>9 DEF w

\* A reserve is a number.
LEMMA ReserveType ==
    ASSUME TypeOK, TypeOK', NEW w \in Workers
    PROVE  Reserve(w) \in Nat /\ Reserve(w)' \in Nat
<1>1. sem[w] \in Nat /\ Cardinality(LocalHolders(w)) \in Nat /\ MaxPermits \in Nat
  BY Finite, SessionConstants DEF TypeOK
<1>2. sem'[w] \in Nat /\ Cardinality(LocalHolders(w))' \in Nat
  BY Finite DEF TypeOK
<1> QED
  BY <1>1, <1>2 DEF Reserve

\* A reserve depends on its own worker only.
LEMMA ReserveSame ==
    ASSUME NEW v \in Workers, astray'[v] = astray[v], sem'[v] = sem[v],
           \A u \in Threads : WorkerOf[u] = v => took'[u] = took[u]
    PROVE  Reserve(v)' = Reserve(v)
<1>1. LocalHolders(v)' = LocalHolders(v)
  BY DEF LocalHolders
<1> QED
  BY <1>1 DEF Reserve

\* A step that concerns one worker keeps the count when what the worker may grant and
\* hold grows by no more than the counter in Redis.
LEMMA CountKept ==
    ASSUME TypeOK, TypeOK', PermitsCounted, NEW w \in Workers,
           ~minted' => ~minted,
           \A v \in Workers \ {w} : Reserve(v)' = Reserve(v),
           ~minted' => Cardinality(Holders)' + Reserve(w)' + permits
                         <= Cardinality(Holders) + Reserve(w) + permits'
    PROVE  PermitsCounted'
<1> DEFINE r == [v \in Workers |-> Reserve(v)]
           q == [v \in Workers |-> Reserve(v)']
<1>1. r \in [Workers -> Nat] /\ q \in [Workers -> Nat]
  <2>1. \A v \in Workers : Reserve(v) \in Nat
    BY ReserveType
  <2>2. \A v \in Workers : Reserve(v)' \in Nat
    BY ReserveType
  <2> QED
    BY <2>1, <2>2
<1>2. \A v \in Workers \ {w} : q[v] = r[v]
  OBVIOUS
<1>3. /\ Cardinality(Cells(r)) \in Nat /\ Cardinality(Cells(q)) \in Nat
      /\ Cardinality(Cells(q)) + r[w] = Cardinality(Cells(r)) + q[w]
  <2> HIDE DEF r, q
  <2> QED
    BY <1>1, <1>2, CellsChange
<1>4. r[w] = Reserve(w) /\ q[w] = Reserve(w)' /\ r[w] \in Nat /\ q[w] \in Nat
  BY <1>1
<1>5. Reserves = Cells(r) /\ Reserves' = Cells(q)
  BY DEF Reserves, Cells
<1>6. /\ Cardinality(Holders) \in Nat /\ Cardinality(Holders)' \in Nat
      /\ permits \in Nat /\ permits' \in Nat /\ MaxPermits * Cardinality(Workers) \in Nat
  <2>1. Cardinality(Holders) \in Nat /\ MaxPermits \in Nat /\ Cardinality(Workers) \in Nat
    BY Finite, SessionConstants
  <2>2. Cardinality(Holders)' \in Nat
    BY Finite
  <2>3. permits \in Nat /\ permits' \in Nat
    BY SessionConstants DEF TypeOK
  <2> QED
    BY <2>1, <2>2, <2>3
<1> DEFINE total == MaxPermits * Cardinality(Workers)
<1>7. ASSUME ~minted'
      PROVE  Cardinality(Holders)' + Cardinality(Reserves)' <= permits' + total
  <2>1. Cardinality(Holders) + Cardinality(Cells(r)) <= permits + total
    BY <1>5, <1>7 DEF PermitsCounted
  <2>2. Cardinality(Holders)' + q[w] + permits <= Cardinality(Holders) + r[w] + permits'
    BY <1>4, <1>7
  <2>3. total \in Nat
    BY <1>6
  <2> HIDE DEF r, q, total
  <2> QED
    BY <1>3, <1>4, <1>5, <1>6, <2>1, <2>2, <2>3
<1> QED
  BY <1>7 DEF PermitsCounted

\* A step of one thread: what it does to its worker decides.
LEMMA ThreadCount ==
    ASSUME TypeOK, TypeOK', PermitsCounted, minted' = minted,
           NEW t \in Threads, NEW x \in Sources, took' = [took EXCEPT ![t] = x],
           \A v \in Workers \ {WorkerOf[t]} : astray'[v] = astray[v] /\ sem'[v] = sem[v],
           Reserve(WorkerOf[t])' + permits + (IF x = "none" THEN 0 ELSE 1)
             <= Reserve(WorkerOf[t]) + permits' + (IF took[t] = "none" THEN 0 ELSE 1)
    PROVE  PermitsCounted'
<1> DEFINE w == WorkerOf[t]
<1>1. w \in Workers
  BY SessionConstants
<1>2. \A v \in Workers \ {w} : Reserve(v)' = Reserve(v)
  <2>1. \A u \in Threads \ {t} : took'[u] = took[u]
    BY DEF TypeOK
  <2> QED
    BY <2>1, ReserveSame
<1>3. Cardinality(Holders)' = Cardinality(Holders) + (IF x = "none" THEN 0 ELSE 1)
                                                   - (IF took[t] = "none" THEN 0 ELSE 1)
  BY CountChange
<1>4. /\ Cardinality(Holders) \in Nat /\ Cardinality(Holders)' \in Nat
      /\ Reserve(w) \in Nat /\ Reserve(w)' \in Nat /\ permits \in Nat /\ permits' \in Nat
  <2>1. permits \in Nat /\ permits' \in Nat
    BY SessionConstants DEF TypeOK
  <2>2. Cardinality(Holders) \in Nat /\ Cardinality(Holders)' \in Nat
    BY <1>1, Finite
  <2> QED
    BY <1>1, <2>1, <2>2, ReserveType
<1>5. Cardinality(Holders)' + Reserve(w)' + permits <= Cardinality(Holders) + Reserve(w) + permits'
  <2> HIDE DEF w
  <2>1. Reserve(w)' + permits + (IF x = "none" THEN 0 ELSE 1)
          <= Reserve(w) + permits' + (IF took[t] = "none" THEN 0 ELSE 1)
    BY DEF w
  <2> QED
    BY <1>3, <1>4, <2>1
<1> QED
  BY <1>1, <1>2, <1>5, CountKept

\* What a worker can grant by itself, before and after a step of a thread.
LEMMA ReserveChange ==
    ASSUME TypeOK, TypeOK', NEW t \in Threads, NEW x \in Sources,
           took' = [took EXCEPT ![t] = x]
    PROVE  \E n, m \in Nat :
              LET w == WorkerOf[t]
                  R(a, s, k) == IF a = "blip" \/ s >= MaxPermits - k THEN s ELSE MaxPermits - k
              IN  /\ m = n + (IF x = "local" THEN 1 ELSE 0) - (IF took[t] = "local" THEN 1 ELSE 0)
                  /\ Reserve(w) = R(astray[w], sem[w], n)
                  /\ Reserve(w)' = R(astray'[w], sem'[w], m)
<1> DEFINE w == WorkerOf[t]
<1>1. w \in Workers
  BY SessionConstants
<1> Cardinality(LocalHolders(w)) \in Nat /\ Cardinality(LocalHolders(w))' \in Nat
  BY <1>1, Finite
<1> WITNESS Cardinality(LocalHolders(w)) \in Nat, Cardinality(LocalHolders(w))' \in Nat
<1> QED
  BY CountChange DEF Reserve

\* A release gives back no more than was held.
LEMMA ReleaseCounts ==
    ASSUME TypeOK, TypeOK', CapInv, NEW t \in Threads, NEW flag \in BOOLEAN,
           ReleasePermit(t, flag), took[t] # "none"
    PROVE  PermitsCounted'
<1> DEFINE w == WorkerOf[t]
<1>1. /\ took' = [took EXCEPT ![t] = "none"] /\ minted' = minted
      /\ \A v \in Workers \ {w} : SameAt(v)
      /\ ToRedis(t) \/ ToLocal(t)
  BY ReleaseShape
<1>2. w \in Workers /\ PermitsCounted /\ ThreadOk(t) /\ "none" \in Sources
  BY SessionConstants DEF CapInv, Sources
<1>3. \A v \in Workers \ {w} : astray'[v] = astray[v] /\ sem'[v] = sem[v]
  BY <1>1, <1>2 DEF ToRedis, ToLocal, SameAt, TypeOK
<1>4. /\ sem[w] \in Nat /\ sem'[w] \in Nat /\ permits \in Nat /\ permits' \in Nat
      /\ MaxPermits \in Nat /\ Reserve(w) \in Nat /\ Reserve(w)' \in Nat
  BY <1>2, ReserveType, SessionConstants DEF TypeOK
<1> DEFINE R(a, s, k) == IF a = "blip" \/ s >= MaxPermits - k THEN s ELSE MaxPermits - k
<1>5. PICK n \in Nat, m \in Nat :
         /\ m = n + (IF "none" = "local" THEN 1 ELSE 0) - (IF took[t] = "local" THEN 1 ELSE 0)
         /\ Reserve(w) = R(astray[w], sem[w], n)
         /\ Reserve(w)' = R(astray'[w], sem'[w], m)
  BY <1>1, <1>2, ReserveChange
<1>6. Reserve(w)' + permits <= Reserve(w) + permits' + 1
  <2>1. CASE ToRedis(t)
    <3>1. sem'[w] = sem[w] /\ permits' + 1 >= permits /\ connected[w]
      BY <2>1 DEF ToRedis
    <3>2. astray[w] = "blip" => astray'[w] = "blip"
      BY <2>1 DEF ToRedis, SameAt, ErrorAt
    <3>3. took[t] = "local" => astray[w] = "blip"
      BY <1>2, <3>1 DEF ThreadOk
    <3>4. Reserve(w)' <= Reserve(w)
      <4> HIDE DEF w
      <4> QED
        BY <1>4, <1>5, <3>1, <3>2, <3>3
    <3> HIDE DEF w
    <3> QED
      BY <1>4, <3>1, <3>4
  <2>2. CASE ToLocal(t)
    <3>1. sem'[w] = sem[w] + 1 /\ permits' = permits
      BY <1>2, <2>2 DEF ToLocal, TypeOK
    <3>2. astray[w] = "blip" => astray'[w] = "blip"
      BY <2>2 DEF ToLocal
    <3> HIDE DEF w
    <3> QED
      BY <1>4, <1>5, <3>1, <3>2
  <2> QED
    BY <1>1, <2>1, <2>2
<1>7. Reserve(w)' + permits + (IF "none" = "none" THEN 0 ELSE 1)
        <= Reserve(w) + permits' + (IF took[t] = "none" THEN 0 ELSE 1)
  <2> HIDE DEF w
  <2> QED
    BY <1>4, <1>6
<1> QED
  BY <1>1, <1>2, <1>3, <1>7, ThreadCount

\* Nothing that counts changes.
LEMMA SameCounts ==
    ASSUME PermitsCounted, UNCHANGED <<permits, sem, took, astray, minted>>
    PROVE  PermitsCounted'
<1>1. Holders' = Holders /\ \A w \in Workers : LocalHolders(w)' = LocalHolders(w)
  BY DEF Holders, LocalHolders
<1>2. \A w \in Workers : Reserve(w)' = Reserve(w)
  BY <1>1 DEF Reserve
<1>3. Reserves' = Reserves
  BY <1>2 DEF Reserves
<1> QED
  BY <1>1, <1>3 DEF PermitsCounted

\* The key expires when nobody holds one of its permits.
LEMMA ExpiryCounts ==
    ASSUME TypeOK, CapInv, KeyExpires
    PROVE  PermitsCounted'
<1> SUFFICES ASSUME ~minted'
             PROVE  Cardinality(Holders)' + Cardinality(Reserves)'
                      <= permits' + MaxPermits * Cardinality(Workers)
  BY DEF PermitsCounted
<1>1. /\ \A t \in Threads : took[t] # "redis"
      /\ \A w \in Workers : astray[w] = "no"
      /\ permits' = 0 /\ UNCHANGED <<sem, took, astray>>
  BY DEF KeyExpires, localVars
<1>2. \A t \in Threads : took[t] = "none"
  BY <1>1, SessionConstants DEF CapInv, ThreadOk, TypeOK, Sources
<1>3. Holders' = {} /\ \A w \in Workers : LocalHolders(w)' = {}
  BY <1>1, <1>2 DEF Holders, LocalHolders
<1>4. \A w \in Workers : sem'[w] = MaxPermits
  BY <1>1 DEF CapInv, WorkerOk
<1>5. ASSUME NEW w \in Workers PROVE Reserve(w)' = MaxPermits
  <2>1. Cardinality(LocalHolders(w))' = 0
    BY <1>3, FS_EmptySet
  <2> QED
    BY <1>4, <2>1, SessionConstants DEF Reserve
<1>6. Reserves' = Workers \X (1 .. MaxPermits)
  BY <1>5 DEF Reserves, Cells
<1>7. Cardinality(1 .. MaxPermits) = MaxPermits /\ IsFiniteSet(1 .. MaxPermits)
  BY FS_Interval, SessionConstants
<1>8. Cardinality(Workers \X (1 .. MaxPermits)) = Cardinality(Workers) * MaxPermits
  BY <1>7, FS_Product, SessionConstants
<1>9. Cardinality(Workers) \in Nat /\ MaxPermits \in Nat
  BY FS_CardinalityType, SessionConstants
<1>10. Cardinality(Workers) * MaxPermits = MaxPermits * Cardinality(Workers)
  BY <1>9
<1>11. Cardinality(Workers) * MaxPermits \in Nat
  BY <1>9
<1> QED
  BY <1>1, <1>3, <1>6, <1>8, <1>10, <1>11, FS_EmptySet

\* A restart forgets the worker's holders with what they hold of its own.
LEMMA RestartCounts ==
    ASSUME TypeOK, TypeOK', CapInv, NEW w \in Workers, Restart(w)
    PROVE  PermitsCounted'
<1>1. /\ minted' = (minted \/ astray[w] = "blip") /\ permits' = permits
      /\ sem' = [sem EXCEPT ![w] = MaxPermits]
      /\ took' = [t \in Threads |-> IF WorkerOf[t] = w THEN "none" ELSE took[t]]
      /\ \E up \in BOOLEAN : astray' = [astray EXCEPT ![w] = IF up THEN "no" ELSE "lost"]
  BY DEF Restart, redisVars
<1>2. \A v \in Workers \ {w} : Reserve(v)' = Reserve(v)
  <2> SUFFICES ASSUME NEW v \in Workers \ {w} PROVE Reserve(v)' = Reserve(v)
    OBVIOUS
  <2>1. astray'[v] = astray[v] /\ sem'[v] = sem[v]
    BY <1>1 DEF TypeOK
  <2>2. \A u \in Threads : WorkerOf[u] = v => took'[u] = took[u]
    BY <1>1
  <2> QED
    BY <2>1, <2>2, ReserveSame
<1>3. LocalHolders(w)' = {} /\ sem'[w] = MaxPermits
  BY <1>1 DEF LocalHolders, TypeOK
<1>4. Reserve(w)' = MaxPermits
  BY <1>3, FS_EmptySet, SessionConstants DEF Reserve
<1> DEFINE H == Holders
           L == LocalHolders(w)
           D == H \ L
<1>5. /\ IsFiniteSet(H) /\ IsFiniteSet(L) /\ L \subseteq H /\ Holders' \subseteq D
      /\ Cardinality(H) \in Nat /\ Cardinality(L) \in Nat /\ Cardinality(Holders)' \in Nat
  BY <1>1, Finite DEF Holders, LocalHolders
<1>6. Cardinality(Holders)' + Cardinality(L) <= Cardinality(H)
  <2> HIDE DEF H, L
  <2>1. H \cap L = L
    BY <1>5
  <2>2. IsFiniteSet(D) /\ Cardinality(D) = Cardinality(H) - Cardinality(H \cap L)
    BY <1>5, FS_Difference
  <2> HIDE DEF D
  <2>3. Cardinality(Holders)' <= Cardinality(D)
    BY <1>5, <2>2, FS_Subset
  <2>4. Cardinality(D) \in Nat
    BY <2>2, FS_CardinalityType
  <2>5. Cardinality(D) = Cardinality(H) - Cardinality(L)
    BY <2>1, <2>2
  <2>6. Cardinality(H) \in Nat /\ Cardinality(L) \in Nat /\ Cardinality(Holders)' \in Nat
    BY <1>5
  <2> QED
    BY <2>3, <2>4, <2>5, <2>6
<1>7. ~minted' => astray[w] # "blip" /\ ~minted
  BY <1>1
<1>8. astray[w] # "blip" => Reserve(w) + Cardinality(L) >= MaxPermits
  <2>1. sem[w] \in Nat /\ MaxPermits \in Nat
    BY SessionConstants DEF TypeOK
  <2> QED
    BY <1>5, <2>1 DEF Reserve
<1>9. permits \in Nat /\ Reserve(w) \in Nat /\ MaxPermits \in Nat
  BY ReserveType, SessionConstants DEF TypeOK
<1>10. ~minted' => Cardinality(Holders)' + Reserve(w)' + permits
                     <= Cardinality(Holders) + Reserve(w) + permits'
  <2> HIDE DEF L, D
  <2> QED
    BY <1>1, <1>4, <1>5, <1>6, <1>7, <1>8, <1>9
<1> QED
  BY <1>2, <1>7, <1>10, CountKept DEF CapInv

\* No step makes a permit that is not counted somewhere.
LEMMA CountStep ==
    ASSUME TypeOK, TypeOK', CapInv, [Next]_vars
    PROVE  PermitsCounted'
<1>1. ASSUME NEW t \in Threads, Acquire(t) PROVE PermitsCounted'
  BY <1>1, SameCounts DEF Acquire, redisVars, localVars, faultVars, CapInv
<1>2. ASSUME NEW t \in Threads, Stalls(t) PROVE PermitsCounted'
  BY <1>2, SameCounts DEF Stalls, QueryHangs, CleanupBlocks, NativeReturns,
     redisVars, localVars, faultVars, CapInv
<1>3. ASSUME NEW t \in Threads, SessionLeft(t) PROVE PermitsCounted'
  BY <1>3, SameCounts DEF SessionLeft, redisVars, localVars, faultVars, CapInv
<1>4. ASSUME NEW t \in Threads, RedisGrant(t) PROVE PermitsCounted'
  <2> DEFINE w == WorkerOf[t]
             R(a, x, k) == IF a = "blip" \/ x >= MaxPermits - k THEN x ELSE MaxPermits - k
  <2>1. w \in Workers /\ PermitsCounted /\ MaxPermits \in Nat /\ ThreadOk(t)
    BY SessionConstants DEF CapInv
  <2>2. permits \in Nat /\ permits' \in Nat /\ sem[w] \in Nat /\ sem'[w] \in Nat
    BY <2>1, SessionConstants DEF TypeOK
  <2>3. /\ took' = [took EXCEPT ![t] = "redis"] /\ permits' = permits + 1
        /\ UNCHANGED <<sem, astray, minted>> /\ pc[t] = "redis"
    BY <1>4, AcquireShape DEF RedisGrant, Granted, localVars, faultVars
  <2>4. PICK n \in Nat, m \in Nat :
           /\ m = n + (IF "redis" = "local" THEN 1 ELSE 0) - (IF took[t] = "local" THEN 1 ELSE 0)
           /\ Reserve(w) = R(astray[w], sem[w], n)
           /\ Reserve(w)' = R(astray'[w], sem'[w], m)
    BY <2>1, <2>3, ReserveChange DEF Sources
  <2>5. took[t] = "none"
    BY <2>1, <2>3 DEF ThreadOk, InSession
  <2>6. Reserve(w)' + permits + (IF "redis" = "none" THEN 0 ELSE 1)
          <= Reserve(w) + permits' + (IF took[t] = "none" THEN 0 ELSE 1)
    <3> HIDE DEF w
    <3> QED
      BY <2>1, <2>2, <2>3, <2>4, <2>5
  <2> QED
    BY <2>1, <2>3, <2>6, ThreadCount DEF Sources
<1>5. ASSUME NEW t \in Threads, RedisAcquireFails(t) PROVE PermitsCounted'
  <2> DEFINE w == WorkerOf[t]
             R(a, x, k) == IF a = "blip" \/ x >= MaxPermits - k THEN x ELSE MaxPermits - k
  <2>1. w \in Workers /\ PermitsCounted /\ MaxPermits \in Nat /\ ThreadOk(t)
    BY SessionConstants DEF CapInv
  <2>2. permits \in Nat /\ permits' \in Nat /\ sem[w] \in Nat /\ sem'[w] \in Nat
    BY <2>1, SessionConstants DEF TypeOK
  <2>3. /\ took' = [took EXCEPT ![t] = took[t]] /\ sem' = sem /\ permits' >= permits
    <3>1. took' = took /\ sem' = sem /\ (LuaAcquire \/ permits' = permits)
      BY <1>5 DEF RedisAcquireFails, redisVars
    <3> QED
      BY <2>2, <3>1, AcquireShape DEF TypeOK
  <2>9. took[t] \in Sources
    BY DEF TypeOK
  <2>4. PICK n \in Nat, m \in Nat :
           /\ m = n + (IF took[t] = "local" THEN 1 ELSE 0) - (IF took[t] = "local" THEN 1 ELSE 0)
           /\ Reserve(w) = R(astray[w], sem[w], n)
           /\ Reserve(w)' = R(astray'[w], sem'[w], m)
    BY <2>1, <2>3, <2>9, ReserveChange
  <2>5. PICK ping \in BOOLEAN : HandleRedisError(w, ping)
    BY <1>5 DEF RedisAcquireFails
  <2>6. ErrorAt(w) /\ minted' = minted /\ \A v \in Workers \ {w} : SameAt(v)
    BY <2>1, <2>5, ErrorShape
  <2>7. /\ astray[w] = "blip" => astray'[w] = "blip"
        /\ \A v \in Workers \ {w} : astray'[v] = astray[v] /\ sem'[v] = sem[v]
    BY <2>3, <2>6 DEF ErrorAt, SameAt
  <2>8. Reserve(w)' + permits + (IF took[t] = "none" THEN 0 ELSE 1)
          <= Reserve(w) + permits' + (IF took[t] = "none" THEN 0 ELSE 1)
    <3> HIDE DEF w
    <3> QED
      BY <2>1, <2>2, <2>3, <2>4, <2>7
  <2> QED
    BY <2>1, <2>3, <2>6, <2>7, <2>8, <2>9, ThreadCount
<1>6. ASSUME NEW t \in Threads, LocalGrant(t) PROVE PermitsCounted'
  <2> DEFINE w == WorkerOf[t]
             R(a, x, k) == IF a = "blip" \/ x >= MaxPermits - k THEN x ELSE MaxPermits - k
  <2>1. w \in Workers /\ PermitsCounted /\ MaxPermits \in Nat /\ ThreadOk(t)
    BY SessionConstants DEF CapInv
  <2>2. permits \in Nat /\ permits' \in Nat /\ sem[w] \in Nat /\ sem'[w] \in Nat
    BY <2>1, SessionConstants DEF TypeOK
  <2>3. /\ took' = [took EXCEPT ![t] = "local"] /\ sem[w] > 0
        /\ sem' = [sem EXCEPT ![w] = @ - 1]
        /\ UNCHANGED <<permits, astray, minted>> /\ pc[t] \in {"fell", "local"}
    BY <1>6 DEF LocalGrant, Granted, redisVars, faultVars
  <2>4. PICK n \in Nat, m \in Nat :
           /\ m = n + (IF "local" = "local" THEN 1 ELSE 0) - (IF took[t] = "local" THEN 1 ELSE 0)
           /\ Reserve(w) = R(astray[w], sem[w], n)
           /\ Reserve(w)' = R(astray'[w], sem'[w], m)
    BY <2>1, <2>3, ReserveChange DEF Sources
  <2>5. took[t] = "none"
    BY <2>1, <2>3 DEF ThreadOk, InSession
  <2>6. sem'[w] = sem[w] - 1 /\ \A v \in Workers \ {w} : sem'[v] = sem[v]
    BY <2>1, <2>3 DEF TypeOK
  <2>7. Reserve(w)' + permits + (IF "local" = "none" THEN 0 ELSE 1)
          <= Reserve(w) + permits' + (IF took[t] = "none" THEN 0 ELSE 1)
    <3> HIDE DEF w
    <3> QED
      BY <2>1, <2>2, <2>3, <2>4, <2>5, <2>6
  <2> QED
    BY <2>1, <2>3, <2>6, <2>7, ThreadCount DEF Sources
<1>7. ASSUME NEW t \in Threads, AcquireTimesOut(t) PROVE PermitsCounted'
  BY <1>7, SameCounts DEF AcquireTimesOut, redisVars, localVars, faultVars, CapInv
<1>8. ASSUME NEW t \in Threads, ReuseIdle(t) PROVE PermitsCounted'
  BY <1>8, SameCounts DEF ReuseIdle, redisVars, localVars, faultVars, CapInv
<1>9. ASSUME NEW t \in Threads, CreateConnection(t) PROVE PermitsCounted'
  BY <1>9, SameCounts DEF CreateConnection, redisVars, localVars, faultVars, CapInv
<1>10. ASSUME NEW t \in Threads, CreateLeaksPermit(t) PROVE PermitsCounted'
  <2> DEFINE w == WorkerOf[t]
             R(a, x, k) == IF a = "blip" \/ x >= MaxPermits - k THEN x ELSE MaxPermits - k
  <2>1. w \in Workers /\ PermitsCounted /\ MaxPermits \in Nat /\ ThreadOk(t)
    BY SessionConstants DEF CapInv
  <2>2. permits \in Nat /\ permits' \in Nat /\ sem[w] \in Nat /\ sem'[w] \in Nat
    BY <2>1, SessionConstants DEF TypeOK
  <2>3. /\ took' = [took EXCEPT ![t] = "none"]
        /\ UNCHANGED <<permits, sem, astray, minted>> /\ pc[t] = "granted"
    BY <1>10 DEF CreateLeaksPermit, redisVars, localVars
  <2>4. PICK n \in Nat, m \in Nat :
           /\ m = n + (IF "none" = "local" THEN 1 ELSE 0) - (IF took[t] = "local" THEN 1 ELSE 0)
           /\ Reserve(w) = R(astray[w], sem[w], n)
           /\ Reserve(w)' = R(astray'[w], sem'[w], m)
    BY <2>1, <2>3, ReserveChange DEF Sources
  <2>5. took[t] # "none"
    BY <2>1, <2>3 DEF ThreadOk
  <2>6. Reserve(w)' + permits + (IF "none" = "none" THEN 0 ELSE 1)
          <= Reserve(w) + permits' + (IF took[t] = "none" THEN 0 ELSE 1)
    <3> HIDE DEF w
    <3> QED
      BY <2>1, <2>2, <2>3, <2>4, <2>5
  <2> QED
    BY <2>1, <2>3, <2>6, ThreadCount DEF Sources
<1>11. ASSUME NEW t \in Threads, CreateFails(t) PROVE PermitsCounted'
  <2>1. PICK flag \in BOOLEAN : ReleasePermit(t, flag)
    BY <1>11 DEF CreateFails, TypeOK
  <2>2. took[t] # "none"
    BY <1>11 DEF CreateFails, CapInv, ThreadOk, InSession
  <2> QED
    BY <2>1, <2>2, ReleaseCounts
<1>12. ASSUME NEW t \in Threads, ReleaseSession(t) PROVE PermitsCounted'
  <2>1. PICK flag \in BOOLEAN : ReleasePermit(t, flag)
    BY <1>12 DEF ReleaseSession, ReturnOrClose, TypeOK
  <2>2. took[t] # "none"
    BY <1>12 DEF ReleaseSession, CapInv, ThreadOk, InSession
  <2> QED
    BY <2>1, <2>2, ReleaseCounts
<1>13. ASSUME NEW t \in Threads, Watchdog(t) PROVE PermitsCounted'
  <2>1. PICK flag \in BOOLEAN : ReleasePermit(t, flag)
    BY <1>13 DEF Watchdog, ReturnOrClose, TypeOK
  <2>2. took[t] # "none"
    BY <1>13 DEF Watchdog, CapInv, ThreadOk, InSession
  <2> QED
    BY <2>1, <2>2, ReleaseCounts
<1>14. ASSUME NEW t \in Threads, Finalize(t) PROVE PermitsCounted'
  <2>1. PICK flag \in BOOLEAN : ReleasePermit(t, flag)
    BY <1>14 DEF Finalize, ReturnOrClose, TypeOK
  <2>2. took[t] # "none"
    BY <1>14 DEF Finalize, CapInv, ThreadOk, InSession
  <2> QED
    BY <2>1, <2>2, ReleaseCounts
<1>15. ASSUME NEW w \in Workers, Restart(w) PROVE PermitsCounted'
  BY <1>15, RestartCounts
<1>16. CASE KeyExpires
  BY <1>16, ExpiryCounts
<1>17. CASE UNCHANGED vars
  BY <1>17, SameCounts DEF vars, CapInv
<1> QED
  BY <1>1, <1>2, <1>3, <1>4, <1>5, <1>6, <1>7, <1>8, <1>9, <1>10, <1>11, <1>12, <1>13,
     <1>14, <1>15, <1>16, <1>17 DEF Next, Progress, Stalls

-------------------------------------------------------------------------------
(* The theorems *)

SessionInv == TypeOK /\ PoolInv /\ CapInv

\* The invariant holds initially.
LEMMA SessionInit == Init => SessionInv
<1> SUFFICES ASSUME Init PROVE SessionInv
  OBVIOUS
<1>1. PoolInv
  BY SessionConstants DEF Init, PoolInv
<1>2. TypeOK
  <2>1. /\ permits \in 0 .. MaxPermits /\ sem \in [Workers -> Nat]
        /\ faults \in 0 .. MaxFaults /\ restarts \in 0 .. MaxRestarts
    BY SessionConstants DEF Init
  <2>2. /\ ttl \in BOOLEAN /\ connected \in [Workers -> BOOLEAN]
        /\ viaRedis \in [Threads -> BOOLEAN] /\ minted \in BOOLEAN
    BY DEF Init
  <2>3. /\ pc \in [Threads -> Waiting \union InSession \union {"idle", "granted"}]
        /\ took \in [Threads -> Sources] /\ astray \in [Workers -> {"no", "lost", "blip"}]
    BY DEF Init, Waiting, Sources
  <2>4. /\ idle \in [Workers -> Seq({"clean", "busy"})]
        /\ \A w \in Workers : Len(idle[w]) <= MaxPermits
    BY <1>1 DEF PoolInv
  <2> QED
    BY <2>1, <2>2, <2>3, <2>4 DEF TypeOK
<1>3. (\A t \in Threads : ThreadOk(t)) /\ (\A w \in Workers : WorkerOk(w))
  BY SessionConstants DEF Init, ThreadOk, WorkerOk, InSession
<1>4. PermitsCounted
  <2>1. Holders = {} /\ \A w \in Workers : LocalHolders(w) = {}
    BY DEF Init, Holders, LocalHolders
  <2>2. ASSUME NEW w \in Workers PROVE Reserve(w) = MaxPermits
    <3>1. Cardinality(LocalHolders(w)) = 0 /\ sem[w] = MaxPermits
      BY <2>1, FS_EmptySet DEF Init
    <3> QED
      BY <3>1, SessionConstants DEF Reserve
  <2>3. Reserves = Workers \X (1 .. MaxPermits)
    BY <2>2 DEF Reserves, Cells
  <2>4. Cardinality(1 .. MaxPermits) = MaxPermits /\ IsFiniteSet(1 .. MaxPermits)
    BY FS_Interval, SessionConstants
  <2>5. Cardinality(Workers \X (1 .. MaxPermits)) = Cardinality(Workers) * MaxPermits
    BY <2>4, FS_Product, SessionConstants
  <2>6. Cardinality(Workers) \in Nat /\ MaxPermits \in Nat
    BY FS_CardinalityType, SessionConstants
  <2>7. /\ Cardinality(Workers) * MaxPermits = MaxPermits * Cardinality(Workers)
        /\ Cardinality(Workers) * MaxPermits \in Nat
    BY <2>6
  <2>8. permits = 0
    BY DEF Init
  <2> QED
    BY <2>1, <2>3, <2>5, <2>7, <2>8, FS_EmptySet DEF PermitsCounted
<1> QED
  BY <1>1, <1>2, <1>3, <1>4 DEF SessionInv, CapInv

\* Every step keeps the invariant.
LEMMA SessionStep ==
    ASSUME SessionInv, [Next]_vars
    PROVE  SessionInv'
<1> USE DEF SessionInv
<1>1. PoolInv'
  BY PoolStep
<1>2. TypeOK'
  BY <1>1, TypeStep
<1>3. CapInv'
  BY <1>2, ThreadStep, WorkerStep, CountStep DEF CapInv
<1> QED
  BY <1>1, <1>2, <1>3

\* The invariant of the sessions.
LEMMA SessionInvariant == Spec => []SessionInv
BY SessionInit, SessionStep, PTL DEF Spec

\* Counter, semaphores, pools and threads keep their types: in particular the counter
\* in Redis stays between 0 and the cap under the two Lua scripts and the expiry.
THEOREM TypeCorrect == Spec => []TypeOK
<1>1. SessionInv => TypeOK
  BY DEF SessionInv
<1> QED
  BY <1>1, SessionInvariant, PTL

\* The connection of a query that survived its interrupt is closed, never pooled
\* (run_duckdb_interruptible, _return_or_close).
THEOREM PoolsAreClean == Spec => []StuckNeverPooled
<1>1. SessionInv => StuckNeverPooled
  BY DEF SessionInv, PoolInv, StuckNeverPooled
<1> QED
  BY <1>1, SessionInvariant, PTL

\* At most max_concurrent_queries sessions hold a permit, and as many more for every
\* worker whose permits went astray, through every fault, leak and restart,
\* unless the key expired under its holders or a worker that had returned its own
\* permits to Redis was restarted (acquire, release of RedisCountingSemaphore).
THEOREM CapHolds == Spec => []ClusterCap
<1>1. ASSUME SessionInv, ~minted
      PROVE  Cardinality(Holders)
               <= MaxPermits * (1 + Cardinality({w \in Workers : astray[w] # "no"}))
  <2> DEFINE A == {w \in Workers : astray[w] # "no"}
             N == Workers \ A
             r == [w \in Workers |-> Reserve(w)]
  <2>1. IsFiniteSet(A) /\ IsFiniteSet(N) /\ IsFiniteSet(Workers)
    BY SessionConstants, FS_Subset
  <2>2. Cardinality(A) + Cardinality(N) = Cardinality(Workers)
    <3>1. A \cup N = Workers /\ A \cap N = {}
      OBVIOUS
    <3>2. Cardinality(A \cup N) = Cardinality(A) + Cardinality(N) - Cardinality(A \cap N)
      <4> HIDE DEF A, N
      <4> QED
        BY <2>1, FS_Union
    <3>3. Cardinality(A) \in Nat /\ Cardinality(N) \in Nat
      BY <2>1, FS_CardinalityType
    <3>4. Cardinality(Workers) = Cardinality(A) + Cardinality(N) - 0
      BY <3>1, <3>2, FS_EmptySet
    <3> HIDE DEF A, N
    <3> QED
      BY <3>3, <3>4
  <2>3. ASSUME NEW w \in N PROVE Reserve(w) = MaxPermits
    <3>1. w \in Workers /\ astray[w] = "no" /\ sem[w] = MaxPermits
      BY <1>1, <2>3 DEF SessionInv, CapInv, WorkerOk
    <3>2. LocalHolders(w) = {}
      BY <1>1, <3>1 DEF SessionInv, CapInv, ThreadOk, LocalHolders
    <3>3. Cardinality(LocalHolders(w)) = 0
      BY <3>2, FS_EmptySet
    <3> QED
      BY <3>1, <3>3, SessionConstants DEF Reserve
  <2>4. N \X (1 .. MaxPermits) \subseteq Reserves
    BY <2>3 DEF Reserves, Cells
  <2>5. \A w \in Workers : Reserve(w) \in Nat
    <3> SUFFICES ASSUME NEW w \in Workers PROVE Reserve(w) \in Nat
      OBVIOUS
    <3>1. sem[w] \in Nat /\ Cardinality(LocalHolders(w)) \in Nat /\ MaxPermits \in Nat
      BY <1>1, Finite, SessionConstants DEF SessionInv, TypeOK
    <3> QED
      BY <3>1 DEF Reserve
  <2>6. IsFiniteSet(Reserves)
    <3>1. CASE Workers = {}
      BY <3>1, FS_EmptySet DEF Reserves, Cells
    <3>2. ASSUME NEW w \in Workers PROVE IsFiniteSet(Reserves)
      <4>1. r \in [Workers -> Nat]
        BY <2>5
      <4>2. IsFiniteSet(Cells(r))
        <5> HIDE DEF r
        <5> QED
          BY <4>1, CellsSplit
      <4> QED
        BY <4>2 DEF Reserves
    <3> QED
      BY <3>1, <3>2
  <2>7. Cardinality(N) * MaxPermits <= Cardinality(Reserves)
    <3>1. Cardinality(1 .. MaxPermits) = MaxPermits /\ IsFiniteSet(1 .. MaxPermits)
      BY FS_Interval, SessionConstants
    <3>2. Cardinality(N \X (1 .. MaxPermits)) = Cardinality(N) * MaxPermits
      <4> HIDE DEF N
      <4> QED
        BY <2>1, <3>1, FS_Product
    <3>3. Cardinality(N \X (1 .. MaxPermits)) <= Cardinality(Reserves)
      <4> HIDE DEF N
      <4> QED
        BY <2>4, <2>6, FS_Subset
    <3> QED
      BY <3>2, <3>3
  <2>8. Cardinality(Holders) + Cardinality(Reserves)
          <= permits + MaxPermits * Cardinality(Workers)
    BY <1>1 DEF SessionInv, CapInv, PermitsCounted
  <2>9. /\ Cardinality(A) \in Nat /\ Cardinality(N) \in Nat /\ Cardinality(Reserves) \in Nat
        /\ Cardinality(Workers) \in Nat /\ Cardinality(Holders) \in Nat
    <3>1. IsFiniteSet(Holders)
      BY SessionConstants, FS_Subset DEF Holders
    <3> QED
      BY <2>1, <2>6, <3>1, FS_CardinalityType
  <2>10. MaxPermits \in Nat /\ permits \in Nat /\ permits <= MaxPermits
    BY <1>1, SessionConstants DEF SessionInv, TypeOK
  <2> HIDE DEF A, N, r
  <2>11. /\ MaxPermits * Cardinality(Workers)
            = MaxPermits * Cardinality(A) + Cardinality(N) * MaxPermits
         /\ MaxPermits * (1 + Cardinality(A)) = MaxPermits + MaxPermits * Cardinality(A)
    BY <2>2, <2>9, <2>10
  <2>12. MaxPermits * Cardinality(A) \in Nat /\ Cardinality(N) * MaxPermits \in Nat
    BY <2>9, <2>10
  <2>13. Cardinality(Holders) <= MaxPermits * (1 + Cardinality(A))
    BY <2>7, <2>8, <2>9, <2>10, <2>11, <2>12
  <2> QED
    BY <2>13 DEF A
<1>2. SessionInv => ClusterCap
  BY <1>1 DEF ClusterCap
<1> QED
  BY <1>2, SessionInvariant, PTL

===============================================================================
