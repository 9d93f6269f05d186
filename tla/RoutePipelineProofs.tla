-------------------------- MODULE RoutePipelineProofs --------------------------
(***************************************************************************)
(* Proofs about RoutePipeline, for every set of devices and records, every *)
(* concurrency and life time of the cache, and any number of imports,      *)
(* failures and restarts.                                                  *)
(***************************************************************************)
EXTENDS RoutePipeline, FiniteSetTheorems, TLAPS

Stages == {"ready", "done"} \cup ActiveStages

\* What a step of one job leaves alone.
LEMMA JobLeaves ==
    ASSUME NEW r \in Records, JobStep(r) \/ Fails(r)
    PROVE  UNCHANGED timeVars
  BY DEF JobStep, Fails, Start, ReadRoutes, ReadShapes, ReadStops, Match,
         ReadSpeeds, Delete, Insert, Rest

\* A step of one job moves its own pc to a stage.
LEMMA JobMoves ==
    ASSUME TypeOK, NEW r \in Records, JobStep(r) \/ Fails(r)
    PROVE  \E s \in Stages : pc' = [pc EXCEPT ![r] = s]
  BY DEF JobStep, Fails, Start, ReadRoutes, ReadShapes, ReadStops, Match, ReadSpeeds,
         Delete, Insert, Rest, FindCandidates, Goto, Stages, ActiveStages, LoadStages

-----------------------------------------------------------------------------
\* The initial states are typed.
LEMMA InitTyped == Init => TypeOK
  BY PipelineAssumption
  DEF PipelineAssumption, Init, TypeOK, CacheTyped, TimeTyped, ActiveStages, LoadStages

\* A step of a job keeps the cache typed.
LEMMA JobCacheTyped ==
    ASSUME TypeOK, NEW r \in Records, JobStep(r) \/ Fails(r)
    PROVE  CacheTyped'
<1> USE DEF TypeOK, CacheTyped, TimeTyped, timeVars, PipelineAssumption
<1>1. ASSUME Start(r) PROVE CacheTyped'
  <2>1. loadAge' = loadAge \/ loadAge' = [loadAge EXCEPT ![r] = 0]
    BY <1>1 DEF Start
  <2>2. loadAge' \in [Records -> 0..CacheTTL]
    <3>1. 0 \in 0..CacheTTL /\ loadAge \in [Records -> 0..CacheTTL]
      BY PipelineAssumption
    <3> QED
      BY <2>1, <3>1
  <2> QED
    BY <1>1, <2>2 DEF Start
<1>2. ASSUME ReadShapes(r) PROVE CacheTyped'
  BY <1>2 DEF ReadShapes
<1>3. ASSUME ReadStops(r) PROVE CacheTyped'
  BY <1>3, PipelineAssumption DEF ReadStops
<1>4. ASSUME \/ ReadRoutes(r) \/ Match(r) \/ ReadSpeeds(r) \/ Delete(r)
             \/ Insert(r) \/ Rest(r) \/ Fails(r)
      PROVE  CacheTyped'
  BY <1>4 DEF ReadRoutes, Match, ReadSpeeds, Delete, Insert, Rest, Fails, cacheVars
<1> QED
  BY <1>1, <1>2, <1>3, <1>4 DEF JobStep

\* A step of a job keeps versions and times typed.
LEMMA JobTimeTyped ==
    ASSUME TypeOK, NEW r \in Records, JobStep(r) \/ Fails(r)
    PROVE  TimeTyped'
<1> USE DEF TypeOK, CacheTyped, TimeTyped, timeVars
<1>1. version' = version /\ past' = past /\ restarts' = restarts
  BY JobLeaves
<1>2. ASSUME Start(r) PROVE TimeTyped'
  <2>1. floor' \in [Records -> 0..version]
    BY <1>2, PipelineAssumption DEF Start, PipelineAssumption
  <2>2. candidates' \in [Records -> 0..version]
    BY <1>2 DEF Start, FindCandidates
  <2> QED
    BY <1>1, <2>1, <2>2
<1>3. ASSUME ReadStops(r) PROVE TimeTyped'
  BY <1>1, <1>3 DEF ReadStops, FindCandidates
<1>4. ASSUME Match(r) PROVE TimeTyped'
  BY <1>1, <1>4 DEF Match
<1>5. ASSUME \/ ReadRoutes(r) \/ ReadShapes(r) \/ ReadSpeeds(r) \/ Delete(r)
             \/ Insert(r) \/ Rest(r) \/ Fails(r)
      PROVE  TimeTyped'
  BY <1>1, <1>5 DEF ReadRoutes, ReadShapes, ReadSpeeds, Delete, Insert, Rest, Fails, matchVars
<1> QED
  BY <1>2, <1>3, <1>4, <1>5 DEF JobStep

\* A step of a job keeps predictions and their history typed.
LEMMA JobEtaTyped ==
    ASSUME TypeOK, NEW r \in Records, JobStep(r) \/ Fails(r)
    PROVE  predictions' \in [Devices -> Nat] /\ saved' \subseteq Devices /\ lost' \subseteq Devices
<1> USE DEF TypeOK
<1>1. DeviceOf[r] \in Devices
  BY PipelineAssumption DEF PipelineAssumption
<1>2. CASE Delete(r) \/ Insert(r) \/ Fails(r)
  BY <1>1, <1>2 DEF Delete, DeleteOwn, Insert, Fails
<1>3. CASE Start(r) \/ ReadRoutes(r) \/ ReadShapes(r) \/ ReadStops(r) \/ Match(r)
               \/ ReadSpeeds(r) \/ Rest(r)
  BY <1>3 DEF Start, ReadRoutes, ReadShapes, ReadStops, Match, ReadSpeeds, Rest, etaVars
<1> QED
  BY <1>2, <1>3 DEF JobStep

\* Every step keeps the types.
LEMMA NextTyped == TypeOK /\ [Next]_vars => TypeOK'
<1> SUFFICES ASSUME TypeOK, [Next]_vars PROVE TypeOK'
  OBVIOUS
<1>1. ASSUME NEW r \in Records, JobStep(r) \/ Fails(r) PROVE TypeOK'
  <2>1. pc' \in [Records -> Stages]
    BY <1>1, JobMoves DEF TypeOK, Stages
  <2> QED
    BY <1>1, <2>1, JobCacheTyped, JobTimeTyped, JobEtaTyped DEF TypeOK, Stages
<1>2. CASE Tick
  <2> USE DEF TypeOK, CacheTyped, TimeTyped
  <2>1. CacheTyped'
    BY <1>2, PipelineAssumption DEF Tick, Older, PipelineAssumption
  <2>2. past' \in [0..CacheTTL -> 0..version']
    BY <1>2, PipelineAssumption DEF Tick, PipelineAssumption
  <2> QED
    BY <1>2, <2>1, <2>2 DEF Tick, etaVars, matchVars
<1>3. CASE Import
  <2> USE DEF TypeOK, CacheTyped, TimeTyped
  <2>1. version' \in 0..MaxVersion /\ 0..version \subseteq 0..version'
    BY <1>3, PipelineAssumption DEF Import, PipelineAssumption
  <2>2. past' \in [0..CacheTTL -> 0..version']
    BY <1>3, <2>1, PipelineAssumption DEF Import, PipelineAssumption
  <2>3. CacheTyped'
    BY <1>3, <2>1 DEF Import, cacheVars
  <2>4. floor' \in [Records -> 0..version'] /\ candidates' \in [Records -> 0..version']
    BY <1>3, <2>1 DEF Import, matchVars
  <2> QED
    BY <1>3, <2>1, <2>2, <2>3, <2>4 DEF Import, etaVars
<1>4. CASE Restart
  <2> USE DEF TypeOK, CacheTyped, TimeTyped
  <2>1. pc' \in [Records -> Stages]
    BY <1>4 DEF Restart, Stages
  <2>2. CacheTyped'
    BY <1>4, PipelineAssumption DEF Restart, PipelineAssumption
  <2>3. TimeTyped'
    BY <1>4, PipelineAssumption DEF Restart, PipelineAssumption
  <2>4. lost' \subseteq Devices
    BY <1>4, PipelineAssumption DEF Restart, PipelineAssumption
  <2> QED
    BY <1>4, <2>1, <2>2, <2>3, <2>4 DEF Restart, Stages
<1>5. CASE UNCHANGED vars
  BY <1>5 DEF vars, cacheVars, timeVars, etaVars, matchVars, TypeOK, CacheTyped, TimeTyped
<1> QED
  BY <1>1, <1>2, <1>3, <1>4, <1>5 DEF Next

\* Every variable keeps its type; no version is younger than the database's.
THEOREM PipelineTypeCorrect == Spec => []TypeOK
  BY InitTyped, NextTyped, PTL DEF Spec

-----------------------------------------------------------------------------
(***************************************************************************)
(* The cache.  Its age is counted from the beginning of the load, so what  *)
(* it holds was in the database one tick more ago at the earliest.         *)
(***************************************************************************)

\* Versions grow.
PastGrows == /\ past[0] = version
             /\ \A a, b \in 0..CacheTTL : a <= b => past[b] <= past[a]

\* What the cache holds is as recent as its age says.
CacheRecent == cacheAge < CacheTTL =>
    cachedShapes >= past[cacheAge + 1] /\ cachedStops >= past[cacheAge + 1]

\* A job that has read the shapes will date them from the beginning of its load.
LoadsRecent == \A r \in Records : pc[r] = "stops" =>
    /\ cachedShapes >= floor[r]
    /\ loadAge[r] < CacheTTL => cachedShapes >= past[loadAge[r] + 1]

\* A job that has candidates may be matched with them and the stops there are.
CandidatesRecent == \A r \in Records : pc[r] = "assignment" =>
    candidates[r] >= floor[r] /\ cachedStops >= floor[r]

RecentInv == TypeOK /\ PastGrows /\ CacheRecent /\ LoadsRecent /\ CandidatesRecent

\* The invariant holds initially: all versions are the same, the cache is stale.
LEMMA InitRecent == Init => RecentInv
<1> SUFFICES ASSUME Init PROVE RecentInv
  OBVIOUS
<1>1. TypeOK
  BY InitTyped
<1>2. PastGrows
  BY PipelineAssumption DEF PipelineAssumption, Init, PastGrows
<1>3. CacheRecent /\ LoadsRecent /\ CandidatesRecent
  BY PipelineAssumption
  DEF PipelineAssumption, Init, CacheRecent, LoadsRecent, CandidatesRecent
<1> QED
  BY <1>1, <1>2, <1>3 DEF RecentInv

\* Neither the past nor the floor of a job is newer than the database.
LEMMA PastBounded ==
    ASSUME TypeOK
    PROVE  /\ CacheTTL \in Nat \ {0} /\ version \in Nat
           /\ cachedShapes \in 0..version /\ cachedStops \in 0..version
           /\ cacheAge \in 0..CacheTTL
           /\ \A a \in 0..CacheTTL : past[a] \in 0..version
           /\ \A r \in Records : /\ floor[r] \in 0..version
                                 /\ loadAge[r] \in 0..CacheTTL
                                 /\ candidates[r] \in 0..version
  BY PipelineAssumption DEF PipelineAssumption, TypeOK, CacheTyped, TimeTyped

\* While the cache is fresh it is not older than CACHE_TTL.
LEMMA FreshIsRecent ==
    ASSUME RecentInv, Fresh
    PROVE  cachedShapes >= past[CacheTTL] /\ cachedStops >= past[CacheTTL]
<1>1. cacheAge + 1 \in 0..CacheTTL /\ CacheTTL \in 0..CacheTTL /\ cacheAge + 1 <= CacheTTL
  BY PastBounded DEF RecentInv, Fresh
<1>2. past[CacheTTL] <= past[cacheAge + 1]
  BY <1>1 DEF RecentInv, PastGrows
<1>3. cachedShapes >= past[cacheAge + 1] /\ cachedStops >= past[cacheAge + 1]
  BY DEF RecentInv, CacheRecent, Fresh
<1> QED
  BY <1>1, <1>2, <1>3, PastBounded DEF RecentInv

\* A step of a job preserves the invariant.
LEMMA JobRecent ==
    ASSUME RecentInv, TypeOK', NEW r \in Records, JobStep(r) \/ Fails(r)
    PROVE  RecentInv'
<1>1. version' = version /\ past' = past
  BY JobLeaves DEF timeVars
<1>2. PastGrows'
  BY <1>1 DEF RecentInv, PastGrows
<1>3. pc \in [Records -> Stages] /\ floor \in [Records -> 0..version]
      /\ candidates \in [Records -> 0..version] /\ loadAge \in [Records -> 0..CacheTTL]
  BY DEF RecentInv, TypeOK, Stages, TimeTyped, CacheTyped
<1> USE PastBounded DEF RecentInv, CacheRecent, LoadsRecent, CandidatesRecent
<1>4. ASSUME Start(r) PROVE CacheRecent' /\ LoadsRecent' /\ CandidatesRecent'
  <2>1. CacheRecent' /\ LoadsRecent'
    BY <1>1, <1>3, <1>4 DEF Start, FindCandidates, Goto
  <2>2. CandidatesRecent'
    BY <1>1, <1>3, <1>4, FreshIsRecent DEF Start, FindCandidates, Goto
  <2> QED
    BY <2>1, <2>2
<1>5. ASSUME ReadRoutes(r) PROVE CacheRecent' /\ LoadsRecent' /\ CandidatesRecent'
  BY <1>1, <1>3, <1>5 DEF ReadRoutes, Goto, cacheVars, matchVars
<1>6. ASSUME ReadShapes(r) PROVE CacheRecent' /\ LoadsRecent' /\ CandidatesRecent'
  BY <1>1, <1>3, <1>6 DEF ReadShapes, Goto, matchVars
<1>7. ASSUME ReadStops(r) PROVE CacheRecent' /\ LoadsRecent' /\ CandidatesRecent'
  BY <1>1, <1>3, <1>7 DEF ReadStops, FindCandidates, Goto
<1>8. ASSUME Match(r) PROVE CacheRecent' /\ LoadsRecent' /\ CandidatesRecent'
  BY <1>1, <1>3, <1>8 DEF Match, Goto, cacheVars
<1>9. ASSUME ReadSpeeds(r) \/ Delete(r) \/ Insert(r) \/ Rest(r) \/ Fails(r)
      PROVE  CacheRecent' /\ LoadsRecent' /\ CandidatesRecent'
  BY <1>1, <1>3, <1>9 DEF ReadSpeeds, Delete, Insert, Rest, Fails, Goto, cacheVars, matchVars
<1> QED
  BY <1>2, <1>4, <1>5, <1>6, <1>7, <1>8, <1>9 DEF JobStep

\* Time passes: what was so long ago is one tick longer ago.
LEMMA TickRecent == ASSUME RecentInv, TypeOK', Tick PROVE RecentInv'
<1> USE PastBounded DEF RecentInv
<1>1. \A a \in 0..CacheTTL : past'[a] = IF a = 0 THEN version ELSE past[a - 1]
  BY DEF Tick
<1>2. PastGrows'
  <2>1. past'[0] = version'
    BY <1>1 DEF Tick
  <2>2. ASSUME NEW a \in 0..CacheTTL, NEW b \in 0..CacheTTL, a <= b
        PROVE  past'[b] <= past'[a]
    <3>1. CASE b = 0
      BY <1>1, <2>2, <3>1
    <3>2. CASE b # 0
      <4>1. b - 1 \in 0..CacheTTL /\ past'[b] = past[b - 1]
        BY <1>1, <3>2
      <4>2. CASE a = 0
        BY <1>1, <4>1, <4>2
      <4>3. CASE a # 0
        <5>1. a - 1 \in 0..CacheTTL /\ a - 1 <= b - 1 /\ past'[a] = past[a - 1]
          BY <1>1, <2>2, <4>3
        <5> QED
          BY <4>1, <5>1 DEF PastGrows
      <4> QED
        BY <4>2, <4>3
    <3> QED
      BY <3>1, <3>2
  <2> QED
    BY <2>1, <2>2 DEF PastGrows
<1>3. \A a \in 0..CacheTTL : Older(a) < CacheTTL =>
          Older(a) = a + 1 /\ a < CacheTTL /\ past'[Older(a) + 1] = past[a + 1]
  BY <1>1 DEF Older
<1>4. CacheRecent'
  BY <1>3 DEF Tick, CacheRecent
<1>5. LoadsRecent'
  <2> SUFFICES ASSUME NEW r \in Records, pc[r] = "stops"
               PROVE  /\ cachedShapes >= floor[r]
                      /\ loadAge'[r] < CacheTTL => cachedShapes >= past'[loadAge'[r] + 1]
    BY DEF Tick, LoadsRecent, matchVars
  <2>1. loadAge'[r] = Older(loadAge[r])
    BY DEF Tick, LoadStages
  <2> QED
    BY <1>3, <2>1 DEF LoadsRecent
<1>6. CandidatesRecent'
  BY DEF Tick, CandidatesRecent, matchVars
<1> QED
  BY <1>2, <1>4, <1>5, <1>6

\* An import makes only the present newer.
LEMMA ImportRecent == ASSUME RecentInv, TypeOK', Import PROVE RecentInv'
<1> USE PastBounded DEF RecentInv
<1>1. past \in [0..CacheTTL -> 0..version]
  BY DEF TypeOK, TimeTyped
<1>2. \A a \in 0..CacheTTL : past'[a] = IF a = 0 THEN version + 1 ELSE past[a]
  BY <1>1 DEF Import
<1>3. PastGrows'
  BY <1>2 DEF Import, PastGrows
<1>4. CacheRecent'
  BY <1>2 DEF Import, CacheRecent, cacheVars
<1>5. LoadsRecent'
  BY <1>2 DEF Import, LoadsRecent, cacheVars, matchVars
<1>6. CandidatesRecent'
  BY DEF Import, CandidatesRecent, cacheVars, matchVars
<1> QED
  BY <1>3, <1>4, <1>5, <1>6

\* After a restart the cache is empty and no job is under way.
LEMMA RestartRecent == ASSUME RecentInv, TypeOK', Restart PROVE RecentInv'
<1> USE PastBounded DEF RecentInv
<1>1. PastGrows' /\ CacheRecent'
  BY DEF Restart, PastGrows, CacheRecent
<1>2. \A r \in Records : pc'[r] \notin {"stops", "assignment"}
  BY DEF Restart, ActiveStages, LoadStages
<1>3. LoadsRecent' /\ CandidatesRecent'
  BY <1>2 DEF LoadsRecent, CandidatesRecent
<1> QED
  BY <1>1, <1>3

\* Every step preserves the invariant.
LEMMA NextRecent == RecentInv /\ [Next]_vars => RecentInv'
<1> SUFFICES ASSUME RecentInv, [Next]_vars PROVE RecentInv'
  OBVIOUS
<1>1. TypeOK'
  BY NextTyped DEF RecentInv
<1>2. CASE UNCHANGED vars
  BY <1>1, <1>2 DEF RecentInv, vars, cacheVars, timeVars, matchVars,
                    PastGrows, CacheRecent, LoadsRecent, CandidatesRecent
<1> QED
  BY <1>1, <1>2, JobRecent, TickRecent, ImportRecent, RestartRecent DEF Next

\* A position is matched with shapes and stops that were current at most
\* CACHE_TTL before, however the loads of concurrent jobs overlap, fail or wait.
THEOREM MatchRecent == Spec => MatchUsesRecentRoutes
<1>1. RecentInv /\ [Next]_vars =>
          [\A r \in Records :
               pc[r] = "assignment" /\ pc'[r] \in {"speeds", "rest"} =>
                   candidates[r] >= floor[r] /\ cachedStops >= floor[r]]_vars
  BY DEF RecentInv, CandidatesRecent
<1> QED
  BY <1>1, InitRecent, NextRecent, PTL DEF Spec, MatchUsesRecentRoutes
-----------------------------------------------------------------------------
(***************************************************************************)
(* The predictions.  A delete leaves a device with as many inserts to come *)
(* as it has jobs under way between the two statements, its own included.  *)
(***************************************************************************)

Active == {q \in Records : pc[q] \in ActiveStages}
Inserting(d) == {q \in Records : DeviceOf[q] = d /\ pc[q] = "insert"}

\* No more jobs run than may.
ActiveBounded == IsFiniteSet(Active) /\ Cardinality(Active) <= TelemetryConcurrency

\* The sets of predictions a device has or is about to get.
SetsBounded == \A d \in Devices :
    predictions[d] + Cardinality(Inserting(d)) <= TelemetryConcurrency

PredictionInv == TypeOK /\ ActiveBounded /\ SetsBounded

\* Jobs about to insert are active.
LEMMA InsertingActive ==
    ASSUME ActiveBounded, NEW d
    PROVE  /\ IsFiniteSet(Inserting(d)) /\ Inserting(d) \subseteq Active
           /\ Cardinality(Inserting(d)) \in Nat
           /\ Cardinality(Inserting(d)) <= TelemetryConcurrency
<1>1. Inserting(d) \subseteq Active
  BY DEF Inserting, Active, ActiveStages
<1>2. IsFiniteSet(Active) /\ Cardinality(Active) <= TelemetryConcurrency
  BY DEF ActiveBounded
<1>3. /\ IsFiniteSet(Inserting(d))
      /\ Cardinality(Inserting(d)) <= Cardinality(Active)
  BY <1>1, <1>2, FS_Subset
<1>4. Cardinality(Inserting(d)) \in Nat /\ Cardinality(Active) \in Nat
  BY <1>2, <1>3, FS_CardinalityType
<1>5. TelemetryConcurrency \in Nat
  BY PipelineAssumption DEF PipelineAssumption
<1> QED
  BY <1>1, <1>2, <1>3, <1>4, <1>5

\* A subset of a finite set is finite and not larger.
LEMMA Smaller ==
    ASSUME NEW S, NEW T, IsFiniteSet(T), S \subseteq T
    PROVE  /\ IsFiniteSet(S)
           /\ Cardinality(S) \in Nat /\ Cardinality(T) \in Nat
           /\ Cardinality(S) <= Cardinality(T)
  BY FS_Subset, FS_CardinalityType

\* No job is under way initially.
LEMMA InitPrediction == Init => PredictionInv
<1> SUFFICES ASSUME Init PROVE PredictionInv
  OBVIOUS
<1>1. Active = {} /\ \A d : Inserting(d) = {}
  BY DEF Init, Active, Inserting, ActiveStages, LoadStages
<1>2. IsFiniteSet({}) /\ Cardinality({}) = 0
  BY FS_EmptySet
<1>3. TelemetryConcurrency \in Nat /\ \A d \in Devices : predictions[d] = 0
  BY PipelineAssumption DEF PipelineAssumption, Init
<1> QED
  BY <1>1, <1>2, <1>3, InitTyped DEF PredictionInv, ActiveBounded, SetsBounded

\* A job starts only while fewer run than may; its other steps add none.
LEMMA JobActive ==
    ASSUME PredictionInv, NEW r \in Records, JobStep(r) \/ Fails(r)
    PROVE  ActiveBounded'
<1>1. PICK s \in Stages : pc' = [pc EXCEPT ![r] = s]
  BY JobMoves DEF PredictionInv
<1>2. pc \in [Records -> Stages]
  BY DEF PredictionInv, TypeOK, Stages
<1>3. IsFiniteSet(Active) /\ Cardinality(Active) <= TelemetryConcurrency
      /\ TelemetryConcurrency \in Nat
  BY PipelineAssumption DEF PipelineAssumption, PredictionInv, ActiveBounded
<1>4. CASE Start(r)
  <2>1. Cardinality(Active) < TelemetryConcurrency
    BY <1>4 DEF Start, Active
  <2>2. Active' \subseteq Active \cup {r} /\ r \notin Active
    BY <1>1, <1>2, <1>4 DEF Start, Active, ActiveStages, LoadStages
  <2>3. /\ IsFiniteSet(Active \cup {r})
        /\ Cardinality(Active \cup {r}) = Cardinality(Active) + 1
    BY <1>3, <2>2, FS_AddElement
  <2>4. Cardinality(Active) \in Nat
    BY <1>3, FS_CardinalityType
  <2>5. IsFiniteSet(Active') /\ Cardinality(Active') \in Nat
        /\ Cardinality(Active') <= Cardinality(Active) + 1
    BY <2>2, <2>3, Smaller
  <2> QED
    BY <1>3, <2>1, <2>4, <2>5 DEF ActiveBounded
<1>5. CASE ~Start(r)
  <2>1. pc[r] \in ActiveStages
    BY <1>5 DEF JobStep, Fails, ReadRoutes, ReadShapes, ReadStops, Match, ReadSpeeds,
               Delete, Insert, Rest, ActiveStages, LoadStages
  <2>2. Active' \subseteq Active
    BY <1>1, <1>2, <2>1 DEF Active
  <2>3. IsFiniteSet(Active') /\ Cardinality(Active') \in Nat /\ Cardinality(Active) \in Nat
        /\ Cardinality(Active') <= Cardinality(Active)
    BY <1>3, <2>2, Smaller
  <2> QED
    BY <1>3, <2>3 DEF ActiveBounded
<1> QED
  BY <1>4, <1>5

\* A step that neither deletes nor inserts brings no insert nearer.
LEMMA QuietSets ==
    ASSUME PredictionInv, UNCHANGED predictions, \A d : Inserting(d)' \subseteq Inserting(d)
    PROVE  SetsBounded'
<1> SUFFICES ASSUME NEW d \in Devices
             PROVE  predictions[d] + Cardinality(Inserting(d)') <= TelemetryConcurrency
  BY DEF SetsBounded
<1>1. IsFiniteSet(Inserting(d))
  BY InsertingActive DEF PredictionInv
<1>2. /\ Cardinality(Inserting(d)') \in Nat /\ Cardinality(Inserting(d)) \in Nat
      /\ Cardinality(Inserting(d)') <= Cardinality(Inserting(d))
  BY <1>1, Smaller
<1>3. predictions[d] \in Nat /\ TelemetryConcurrency \in Nat
  BY PipelineAssumption DEF PipelineAssumption, PredictionInv, TypeOK
<1>4. predictions[d] + Cardinality(Inserting(d)) <= TelemetryConcurrency
  BY DEF PredictionInv, SetsBounded
<1> QED
  BY <1>2, <1>3, <1>4

\* The delete starts the count of its device anew.
LEMMA DeleteSets ==
    ASSUME PredictionInv, ActiveBounded', NEW r \in Records, Delete(r)
    PROVE  SetsBounded'
<1> SUFFICES ASSUME NEW d \in Devices
             PROVE  predictions'[d] + Cardinality(Inserting(d)') <= TelemetryConcurrency
  BY DEF SetsBounded
<1>1. pc \in [Records -> Stages] /\ predictions \in [Devices -> Nat]
  BY DEF PredictionInv, TypeOK, Stages
<1>2. CASE d = DeviceOf[r]
  <2>1. predictions'[d] = 0
    BY <1>1, <1>2 DEF Delete, DeleteOwn
  <2>2. Inserting(d)' \subseteq Active' /\ IsFiniteSet(Active')
        /\ Cardinality(Active') <= TelemetryConcurrency
    BY DEF Inserting, Active, ActiveBounded, ActiveStages
  <2>3. /\ Cardinality(Inserting(d)') \in Nat /\ Cardinality(Active') \in Nat
        /\ Cardinality(Inserting(d)') <= Cardinality(Active')
    BY <2>2, Smaller
  <2>4. TelemetryConcurrency \in Nat
    BY PipelineAssumption DEF PipelineAssumption
  <2> QED
    BY <2>1, <2>2, <2>3, <2>4
<1>3. CASE d # DeviceOf[r]
  <2>1. predictions'[d] = predictions[d]
    BY <1>1, <1>3 DEF Delete, DeleteOwn
  <2>2. Inserting(d)' = Inserting(d)
    BY <1>1, <1>3 DEF Delete, Goto, Inserting
  <2> QED
    BY <2>1, <2>2 DEF PredictionInv, SetsBounded
<1> QED
  BY <1>2, <1>3

\* The insert takes the place of the one that was to come.
LEMMA InsertSets ==
    ASSUME PredictionInv, NEW r \in Records, Insert(r)
    PROVE  SetsBounded'
<1> SUFFICES ASSUME NEW d \in Devices
             PROVE  predictions'[d] + Cardinality(Inserting(d)') <= TelemetryConcurrency
  BY DEF SetsBounded
<1>1. pc \in [Records -> Stages] /\ predictions \in [Devices -> Nat]
  BY DEF PredictionInv, TypeOK, Stages
<1>2. predictions[d] + Cardinality(Inserting(d)) <= TelemetryConcurrency
  BY DEF PredictionInv, SetsBounded
<1>3. CASE d = DeviceOf[r]
  <2>1. predictions'[d] = predictions[d] + 1
    BY <1>1, <1>3 DEF Insert
  <2>2. Inserting(d)' = Inserting(d) \ {r} /\ r \in Inserting(d)
    BY <1>1, <1>3 DEF Insert, Goto, Inserting
  <2>3. IsFiniteSet(Inserting(d)) /\ Cardinality(Inserting(d)) \in Nat
    BY InsertingActive DEF PredictionInv
  <2>4. Cardinality(Inserting(d) \ {r}) = Cardinality(Inserting(d)) - 1
    BY <2>2, <2>3, FS_RemoveElement
  <2>5. predictions[d] \in Nat /\ TelemetryConcurrency \in Nat
    BY <1>1, PipelineAssumption DEF PipelineAssumption
  <2> QED
    BY <1>2, <2>1, <2>2, <2>3, <2>4, <2>5
<1>4. CASE d # DeviceOf[r]
  <2>1. predictions'[d] = predictions[d] /\ Inserting(d)' = Inserting(d)
    BY <1>1, <1>4 DEF Insert, Goto, Inserting
  <2> QED
    BY <1>2, <2>1
<1> QED
  BY <1>3, <1>4

\* Every step preserves the invariant.
LEMMA NextPrediction == PredictionInv /\ [Next]_vars => PredictionInv'
<1> SUFFICES ASSUME PredictionInv, [Next]_vars PROVE PredictionInv'
  OBVIOUS
<1>1. TypeOK' /\ pc \in [Records -> Stages]
  BY NextTyped DEF PredictionInv, TypeOK, Stages
<1>2. ASSUME NEW r \in Records, JobStep(r) \/ Fails(r) PROVE PredictionInv'
  <2>1. ActiveBounded'
    BY <1>2, JobActive
  <2>2. CASE Delete(r) \/ Insert(r)
    BY <1>1, <2>1, <2>2, DeleteSets, InsertSets DEF PredictionInv
  <2>3. CASE ~Delete(r) /\ ~Insert(r)
    <3>1. predictions' = predictions
      BY <1>2, <2>3 DEF JobStep, Fails, Start, ReadRoutes, ReadShapes, ReadStops, Match,
                        ReadSpeeds, Rest, etaVars
    <3>2. \E s \in Stages \ {"insert"} : pc' = [pc EXCEPT ![r] = s]
      BY <1>2, <2>3 DEF JobStep, Fails, Start, ReadRoutes, ReadShapes, ReadStops, Match,
           ReadSpeeds, Rest, FindCandidates, Goto, Stages, ActiveStages, LoadStages
    <3>3. \A d : Inserting(d)' \subseteq Inserting(d)
      BY <1>1, <3>2 DEF Inserting
    <3> QED
      BY <1>1, <2>1, <3>1, <3>3, QuietSets DEF PredictionInv
  <2> QED
    BY <2>2, <2>3
<1>3. CASE Tick \/ Import \/ UNCHANGED vars
  <2>1. predictions' = predictions /\ pc' = pc
    BY <1>3 DEF Tick, Import, vars, etaVars
  <2> QED
    BY <1>1, <2>1 DEF PredictionInv, ActiveBounded, SetsBounded, Active, Inserting
<1>4. CASE Restart
  <2>1. predictions' = predictions /\ Active' = {} /\ \A d : Inserting(d)' = {}
    BY <1>1, <1>4 DEF Restart, Active, Inserting, ActiveStages, LoadStages
  <2>2. ActiveBounded'
    <3>1. IsFiniteSet({}) /\ Cardinality({}) = 0 /\ TelemetryConcurrency \in Nat
      BY FS_EmptySet, PipelineAssumption DEF PipelineAssumption
    <3> QED
      BY <2>1, <3>1 DEF ActiveBounded
  <2>3. SetsBounded'
    BY <2>1, QuietSets
  <2> QED
    BY <1>1, <2>2, <2>3 DEF PredictionInv
<1> QED
  BY <1>2, <1>3, <1>4 DEF Next

\* Jobs of one device that overlap never leave more sets of predictions behind
\* than jobs may run at a time.
THEOREM PredictionsBounded == Spec => []PredictionSetsBounded
<1>1. PredictionInv => PredictionSetsBounded
  <2> SUFFICES ASSUME PredictionInv, NEW d \in Devices
               PROVE  predictions[d] <= TelemetryConcurrency
    BY DEF PredictionSetsBounded
  <2>1. Cardinality(Inserting(d)) \in Nat
    BY InsertingActive DEF PredictionInv
  <2>2. predictions[d] \in Nat /\ TelemetryConcurrency \in Nat
        /\ predictions[d] + Cardinality(Inserting(d)) <= TelemetryConcurrency
    BY PipelineAssumption DEF PipelineAssumption, PredictionInv, TypeOK, SetsBounded
  <2> QED
    BY <2>1, <2>2
<1> QED
  BY <1>1, InitPrediction, NextPrediction, PTL DEF Spec

-----------------------------------------------------------------------------
\* A device that had predictions is without them only between a delete and an
\* insert, or after a failure there.
THEOREM PredictionsKept == Spec => []PredictionsSurvive
<1>1. Init => PredictionsSurvive
  BY DEF Init, PredictionsSurvive
<1>2. TypeOK /\ PredictionsSurvive /\ [Next]_vars => PredictionsSurvive'
  <2> SUFFICES ASSUME TypeOK, PredictionsSurvive, [Next]_vars PROVE PredictionsSurvive'
    OBVIOUS
  <2>1. pc \in [Records -> Stages] /\ predictions \in [Devices -> Nat] /\ saved \subseteq Devices
    BY DEF TypeOK, Stages
  <2>2. ASSUME NEW r \in Records, JobStep(r) PROVE PredictionsSurvive'
    <3>1. CASE Delete(r)
      BY <2>1, <3>1 DEF Delete, DeleteOwn, Goto, PredictionsSurvive
    <3>2. CASE Insert(r)
      <4> SUFFICES ASSUME NEW d \in saved'
                   PROVE  \/ predictions'[d] > 0
                          \/ d \in lost'
                          \/ \E q \in Records : DeviceOf[q] = d /\ pc'[q] = "insert"
        BY DEF PredictionsSurvive
      <4>1. CASE d = DeviceOf[r]
        <5>1. d \in Devices /\ predictions'[d] = predictions[d] + 1
          BY <2>1, <3>2, <4>1, PipelineAssumption DEF PipelineAssumption, Insert
        <5> QED
          BY <2>1, <5>1
      <4>2. CASE d # DeviceOf[r]
        BY <2>1, <3>2, <4>2 DEF Insert, Goto, PredictionsSurvive
      <4> QED
        BY <4>1, <4>2
    <3>3. CASE ~Delete(r) /\ ~Insert(r)
      <4>1. UNCHANGED etaVars /\ pc[r] # "insert" /\ \E s : pc' = [pc EXCEPT ![r] = s]
        BY <2>2, <3>3 DEF JobStep, Start, ReadRoutes, ReadShapes, ReadStops, Match,
                          ReadSpeeds, Rest, FindCandidates, Goto
      <4> QED
        BY <2>1, <4>1 DEF etaVars, PredictionsSurvive
    <3> QED
      BY <3>1, <3>2, <3>3
  <2>3. ASSUME NEW r \in Records, Fails(r) PROVE PredictionsSurvive'
    BY <2>1, <2>3 DEF Fails, Goto, PredictionsSurvive
  <2>4. CASE Restart
    BY <2>1, <2>4 DEF Restart, PredictionsSurvive
  <2>5. CASE Tick \/ Import \/ UNCHANGED vars
    BY <2>5 DEF Tick, Import, vars, etaVars, PredictionsSurvive
  <2> QED
    BY <2>2, <2>3, <2>4, <2>5 DEF Next
<1> QED
  BY <1>1, <1>2, PipelineTypeCorrect, PTL DEF Spec
=============================================================================
