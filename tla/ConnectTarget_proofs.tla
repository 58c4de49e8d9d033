------------------------ MODULE ConnectTarget_proofs ------------------------
(* Theorems about ConnectTarget, for all values of its constants: the pool  *)
(* of the running server behaves as UpstreamPool specifies, and a direct    *)
(* connection for want of a node is one the configuration asked for.        *)
EXTENDS ConnectTarget, UpstreamPool_proofs

Points == {"idle"} \cup Running \cup Finished
Calling == {"select", "reselect", "success", "success2", "failure", "failure2"}

LEMMA PointsDistinct ==
  /\ Running \subseteq Points /\ Finished \subseteq Points
  /\ Trying \subseteq Running /\ Calling \subseteq Running
  /\ \A p \in Finished : p \notin Running /\ p # "idle"
BY DEF Points, Running, Finished, Trying, Calling

-----------------------------------------------------------------------------
(* What the steps of the pool do to what the connections see of it.        *)

\* A step of select_node either stays inside the mutex or returns, and it
\* returns no node only from an empty vector.
LEMMA CallEffect ==
  ASSUME TypeOK, NEW t \in Callers, CallStep(t)
  PROVE  /\ UNCHANGED list /\ lock \in {t, Free}
         /\ \/ lock' = t /\ held' = held
            \/ /\ lock' = Free
               /\ held'[t] = NoNode => Size = 0
               /\ \A u \in Callers \ {t} : held'[u] = held[u]
<1>1. t # Free /\ held \in [Callers -> Obj \cup {NoNode}]
  BY ValueAssumption DEF TypeOK, HeldOK
<1>2. ASSUME NEW c, GoOn(t, c) PROVE lock' = t /\ held' = held
  BY <1>2 DEF GoOn, Hold
<1>3. ASSUME NEW o, Return(t, o), o = NoNode => Size = 0
      PROVE  /\ lock' = Free
             /\ held'[t] = NoNode => Size = 0
             /\ \A u \in Callers \ {t} : held'[u] = held[u]
  BY <1>1, <1>3 DEF Return, Release
<1>4. ASSUME NEW i \in Nat \ {0} PROVE At(i) # NoNode
  BY <1>4 DEF At, NoNode
<1>5. Size \in Nat /\ (lock = t => crit.i \in 1 .. Size)
  BY <1>1, SizeOK DEF TypeOK, InsideOK
<1>6. CASE SelectNode(t)
  BY <1>2, <1>3, <1>6 DEF SelectNode
<1>7. CASE ScanOverride(t)
  BY <1>2, <1>3, <1>4, <1>5, <1>7 DEF ScanOverride
<1>8. ASSUME NEW c, c.best \in 0 .. Size, NextBest(t, c)
      PROVE  \/ lock' = t /\ held' = held
             \/ /\ lock' = Free
                /\ held'[t] = NoNode => Size = 0
                /\ \A u \in Callers \ {t} : held'[u] = held[u]
  BY <1>2, <1>3, <1>4, <1>5, <1>8 DEF NextBest
<1>9. CASE ScanBestAlive(t)
  <2>1. crit.best \in 0 .. Size
    BY <1>1, <1>5, <1>9, ValueAssumption DEF ScanBestAlive, TypeOK, InsideOK
  <2> QED
    BY <1>2, <1>8, <1>9, <2>1 DEF ScanBestAlive
<1>10. CASE ScanBestLatency(t)
  <2>1. crit.best \in 0 .. Size /\ crit.i \in 1 .. Size /\ crit \in Crit
    BY <1>1, <1>5, <1>10, ValueAssumption DEF ScanBestLatency, TypeOK, InsideOK, Crit
  <2> DEFINE lat == latency[At(crit.i)]
             c == IF Faster(lat) THEN [crit EXCEPT !.best = crit.i, !.ms = lat]
                                 ELSE crit
  <2>2. c.best \in 0 .. Size
    BY <1>5, <2>1 DEF Crit
  <2>3. NextBest(t, c)
    BY <1>10 DEF ScanBestLatency
  <2>4. lock = t /\ UNCHANGED list
    BY <1>10 DEF ScanBestLatency
  <2> HIDE DEF c
  <2> QED
    BY <1>8, <2>2, <2>3, <2>4
<1>11. CASE ScanRoundRobin(t)
  <2>1. Size > 0 /\ RRIndex \in Nat \ {0}
    BY <1>1, <1>5, <1>11 DEF ScanRoundRobin, TypeOK, ModeOK, RRIndex
  <2> QED
    BY <1>2, <1>3, <1>4, <1>11, <2>1 DEF ScanRoundRobin
<1>12. CASE ScanFailover(t)
  BY <1>2, <1>3, <1>4, <1>5, <1>12 DEF ScanFailover
<1> QED
  BY <1>6, <1>7, <1>9, <1>10, <1>11, <1>12 DEF CallStep

\* A mark leaves the vector and what the threads hold alone.
LEMMA MarkEffect ==
  ASSUME NEW t \in Callers,
         \/ MarkStep(t) \/ MarkCall(t)
  PROVE  UNCHANGED <<list, held>> /\ lock \in {t, Free} /\ lock' \in {t, Free}
BY DEF MarkStep, MarkCall, SetOffline, ResetFails, SetLatency, MarkFailure,
       MarkSuccess, MarkUnlisted, Release, Hold, inside

\* A health sweep and an operator's call leave them alone, and the mutex too.
LEMMA OtherEffect ==
  ASSUME \/ \E s \in Sweepers : Health(s)
         \/ Operator
  PROVE  UNCHANGED <<list, held, lock>>
BY DEF Health, SweepBegin, SweepStep, SweepAlive, SweepLatency, SweepFails,
       Probe, Operator, ManualSelect, SetStrategy, inside

-----------------------------------------------------------------------------
(* Every step of the server is a step of the pool, or leaves it alone.     *)

LEMMA StepIsPoolStep ==
  ASSUME ConnTypeOK, [ConnectNext]_connVars
  PROVE  [PoolNext]_poolVars
<1>1. CASE UNCHANGED connVars
  BY <1>1 DEF connVars
<1>2. ASSUME NEW t \in Callers, CallStep(t) \/ MarkStep(t) \/ MarkCall(t)
      PROVE  PoolNext
  BY <1>2 DEF PoolNext
<1>3. ASSUME NEW t \in Callers, ConnStep(t) PROVE [PoolNext]_poolVars
  <2>1. CASE Route(t) \/ NoNodeLeft(t) \/ Try(t)
    BY <2>1 DEF Route, NoNodeLeft, Try
  <2>2. CASE Select(t) \/ Reselect(t)
    BY <1>2, <2>2 DEF Select, Reselect
  <2>3. CASE Succeed(t) \/ Fail(t)
    <3>1. held[t] # NoNode
      BY <2>3 DEF Succeed, Fail, ConnTypeOK, Trying, Running
    <3>2. MarkStep(t) \/ MarkCall(t)
      BY <2>3, <3>1 DEF Succeed, Fail, MarkCall
    <3> QED
      BY <1>2, <3>2
  <2> QED
    BY <1>3, <2>1, <2>2, <2>3 DEF ConnStep
<1>4. ASSUME NEW t \in Callers, NEW x \in Targets, Accept(t, x)
      PROVE  UNCHANGED poolVars
  BY <1>4 DEF Accept
<1>5. ASSUME NEW f, ReloadBegin(f) PROVE UNCHANGED poolVars
  BY <1>5 DEF ReloadBegin
<1>6. CASE ReloadStep
  <2>1. CASE InitPool
    <3>1. reload.new.pool \in Pools /\ reload.new.strategy \in Strategies
      BY DEF ConnTypeOK, ConfigType
    <3> QED
      BY <2>1, <3>1 DEF InitPool, PoolNext
  <2> QED
    BY <1>6, <2>1 DEF ReloadStep, StoreSmart, StoreKill, ClearRules, SetDefault,
                      FillRules
<1>7. ASSUME NEW s \in Sweepers, Health(s) PROVE PoolNext
  BY <1>7 DEF Health, PoolNext
<1>8. CASE Operator
  BY <1>8 DEF Operator, PoolNext
<1>9. ASSUME NEW n, Flip(n) PROVE UNCHANGED poolVars
  BY <1>9 DEF Flip
<1> QED
  BY <1>1, <1>3, <1>4, <1>5, <1>6, <1>7, <1>8, <1>9 DEF ConnectNext

-----------------------------------------------------------------------------
(* The types of the server and of its connections.                         *)

ServerOK ==
  /\ cfg \in [smart : BOOLEAN, kill : BOOLEAN]
  /\ router \in [rule : Actions \cup {"none"}, default : {"DIRECT", "PROXY"},
                 stale : SUBSET Actions]
  /\ reload \in [at : ReloadPoints, old : ConfigType, new : ConfigType]
ThreadOK ==
  /\ conn \in [Callers -> ConnType]
  /\ \A t \in Callers : conn[t].at \in Trying => held[t] # NoNode
  /\ InsideIsCalling
NetOK == up \subseteq Names /\ serving \subseteq Names /\ flips \in 0 .. MaxFlips

LEMMA PartsOfConnTypeOK == ConnTypeOK <=> ServerOK /\ ThreadOK /\ NetOK
BY DEF ConnTypeOK, ServerOK, ThreadOK, NetOK

LEMMA LoadOK ==
  ASSUME NEW f \in Configs \cup {Broken}
  PROVE  LoadFromFile(f) \in ConfigType
BY ConfigAssumption DEF LoadFromFile

LEMMA InitConnTypeOK == ConnectInit => ConnTypeOK
<1> SUFFICES ASSUME ConnectInit PROVE ConnTypeOK
  OBVIOUS
<1>1. PICK c \in Configs :
         /\ cfg = [smart |-> c.smart, kill |-> c.kill]
         /\ router = [rule |-> c.rule, default |-> ServerRoute(c.default),
                      stale |-> {}]
         /\ reload = [at |-> "idle", old |-> c, new |-> c]
  BY DEF ConnectInit
<1>2. c \in ConfigType
  BY ConfigAssumption
<1>3. ServerOK
  <2>1. c.smart \in BOOLEAN /\ c.kill \in BOOLEAN /\ c.rule \in Actions \cup {"none"}
    BY <1>2 DEF ConfigType
  <2>2. ServerRoute(c.default) \in {"DIRECT", "PROXY"}
    BY DEF ServerRoute
  <2>3. cfg \in [smart : BOOLEAN, kill : BOOLEAN]
    BY <1>1, <2>1
  <2>4. router \in [rule : Actions \cup {"none"}, default : {"DIRECT", "PROXY"},
                    stale : SUBSET Actions]
    BY <1>1, <2>1, <2>2
  <2>5. reload \in [at : ReloadPoints, old : ConfigType, new : ConfigType]
    BY <1>1, <1>2 DEF ReloadPoints
  <2> QED
    BY <2>3, <2>4, <2>5 DEF ServerOK
<1>4. ThreadOK
  <2>1. conn = [t \in Callers |-> Idle] /\ lock = Free
    BY DEF ConnectInit, PoolInit
  <2>2. Idle \in ConnType
    BY DEF Idle, ConnType
  <2>3. \A t \in Callers : conn[t].at = "idle" /\ t # Free
    BY <2>1, ValueAssumption DEF Idle
  <2> QED
    BY <2>1, <2>2, <2>3 DEF ThreadOK, InsideIsCalling, Trying, Running
<1>5. NetOK
  BY TargetAssumption DEF ConnectInit, NetOK
<1> QED
  BY <1>3, <1>4, <1>5, PartsOfConnTypeOK

LEMMA ServerStep ==
  ASSUME ServerOK, [ConnectNext]_connVars
  PROVE  ServerOK'
<1>1. CASE UNCHANGED <<cfg, router, reload>>
  BY <1>1 DEF ServerOK
<1>2. ASSUME NEW p \in ReloadPoints, Then(p)
      PROVE  reload' \in [at : ReloadPoints, old : ConfigType, new : ConfigType]
  BY <1>2 DEF Then, ServerOK
<1>3. /\ reload.new.smart \in BOOLEAN /\ reload.new.kill \in BOOLEAN
      /\ reload.new.rule \in Actions \cup {"none"} /\ reload.new \in ConfigType
  BY DEF ServerOK, ConfigType
<1>4. CASE StoreSmart
  <2>1. cfg' \in [smart : BOOLEAN, kill : BOOLEAN]
    BY <1>3, <1>4 DEF StoreSmart, ServerOK
  <2> QED
    BY <1>2, <1>4, <2>1 DEF StoreSmart, ServerOK, ReloadPoints
<1>5. CASE StoreKill
  <2>1. cfg' \in [smart : BOOLEAN, kill : BOOLEAN]
    BY <1>3, <1>5 DEF StoreKill, ServerOK
  <2> QED
    BY <1>2, <1>5, <2>1 DEF StoreKill, ServerOK, ReloadPoints
<1>6. CASE InitPool
  BY <1>2, <1>6 DEF InitPool, ServerOK, ReloadPoints
<1>7. CASE ClearRules \/ SetDefault \/ FillRules
  <2>1. router' \in [rule : Actions \cup {"none"}, default : {"DIRECT", "PROXY"},
                     stale : SUBSET Actions]
    <3>1. CASE ClearRules
      <4>1. {router.rule} \ {"none"} \in SUBSET Actions
        BY DEF ServerOK
      <4> QED
        BY <3>1, <4>1 DEF ClearRules, ServerOK
    <3>2. CASE SetDefault
      <4>1. ServerRoute(reload.new.default) \in {"DIRECT", "PROXY"}
        BY DEF ServerRoute
      <4> QED
        BY <3>2, <4>1 DEF SetDefault, ServerOK
    <3>3. CASE FillRules
      BY <1>3, <3>3 DEF FillRules, ServerOK
    <3> QED
      BY <1>7, <3>1, <3>2, <3>3
  <2> QED
    BY <1>2, <1>7, <2>1 DEF ClearRules, SetDefault, FillRules, ServerOK, ReloadPoints
<1>8. ASSUME NEW f \in Configs \cup {Broken}, ReloadBegin(f) PROVE ServerOK'
  <2>1. reload' = [at |-> "smart", old |-> reload.new, new |-> LoadFromFile(f)]
    BY <1>8 DEF ReloadBegin
  <2>2. reload' \in [at : ReloadPoints, old : ConfigType, new : ConfigType]
    BY <1>3, <2>1, LoadOK DEF ReloadPoints
  <2> QED
    BY <1>8, <2>2 DEF ReloadBegin, ServerOK
<1>9. ASSUME NEW t \in Callers, ConnStep(t) PROVE ServerOK'
  BY <1>1, <1>9 DEF ConnStep, Route, Select, NoNodeLeft, Try, Succeed, Fail,
                    Reselect, Marked, Elsewhere
<1>10. ASSUME NEW t \in Callers, NEW x, Accept(t, x) PROVE ServerOK'
  BY <1>1, <1>10 DEF Accept, Elsewhere
<1>11. ASSUME NEW s, Health(s) PROVE ServerOK'
  BY <1>1, <1>11 DEF Health
<1>12. CASE Operator
  BY <1>1, <1>12 DEF Operator
<1>13. ASSUME NEW n, Flip(n) PROVE ServerOK'
  BY <1>1, <1>13 DEF Flip
<1>14. CASE UNCHANGED connVars
  BY <1>1, <1>14 DEF connVars
<1> QED
  BY <1>4, <1>5, <1>6, <1>7, <1>8, <1>9, <1>10, <1>11, <1>12, <1>13, <1>14
  DEF ConnectNext, ReloadStep

LEMMA NetStep ==
  ASSUME NetOK, [ConnectNext]_connVars
  PROVE  NetOK'
<1>1. CASE UNCHANGED <<up, serving, flips>>
  BY <1>1 DEF NetOK
<1>2. ASSUME NEW n \in Names, Flip(n) PROVE NetOK'
  <2>1. flips' \in 0 .. MaxFlips
    BY <1>2, TargetAssumption DEF Flip, NetOK
  <2> QED
    BY <1>2, <2>1 DEF Flip, NetOK, Toggle
<1>3. ASSUME NEW t \in Callers, ConnStep(t) PROVE NetOK'
  BY <1>1, <1>3 DEF ConnStep, Route, Select, NoNodeLeft, Try, Succeed, Fail,
                    Reselect, Marked, Elsewhere
<1>4. CASE ReloadStep
  BY <1>1, <1>4 DEF ReloadStep, StoreSmart, StoreKill, InitPool, ClearRules,
                    SetDefault, FillRules
<1>5. ASSUME NEW t \in Callers, NEW x, Accept(t, x) PROVE NetOK'
  BY <1>1, <1>5 DEF Accept, Elsewhere
<1>6. ASSUME NEW f, ReloadBegin(f) PROVE NetOK'
  BY <1>1, <1>6 DEF ReloadBegin
<1>7. ASSUME NEW s, Health(s) PROVE NetOK'
  BY <1>1, <1>7 DEF Health
<1>8. CASE Operator
  BY <1>1, <1>8 DEF Operator
<1>9. CASE UNCHANGED connVars
  BY <1>1, <1>9 DEF connVars
<1> QED
  BY <1>2, <1>3, <1>4, <1>5, <1>6, <1>7, <1>8, <1>9 DEF ConnectNext

-----------------------------------------------------------------------------
(* The steps of the threads.                                               *)

LEMMA GoOK ==
  ASSUME conn \in [Callers -> ConnType], NEW t \in Callers, NEW p \in Points,
         Go(t, p)
  PROVE  /\ conn' \in [Callers -> ConnType]
         /\ conn'[t].at = p /\ conn'[t].seen = conn[t].seen
         /\ conn'[t].calm = conn[t].calm
         /\ \A u \in Callers \ {t} : conn'[u] = conn[u]
<1>1. conn[t] \in ConnType
  OBVIOUS
<1>2. [conn[t] EXCEPT !.at = p] \in ConnType
  BY <1>1 DEF ConnType, Points
<1>3. conn' = [conn EXCEPT ![t] = [conn[t] EXCEPT !.at = p]]
  BY DEF Go
<1>4. /\ [conn[t] EXCEPT !.at = p].at = p
      /\ [conn[t] EXCEPT !.at = p].seen = conn[t].seen
      /\ [conn[t] EXCEPT !.at = p].calm = conn[t].calm
  BY <1>1 DEF ConnType
<1> QED
  BY <1>2, <1>3, <1>4

\* What thread t must keep for all of them to keep it.
LEMMA ThreadFrame ==
  ASSUME ThreadOK, NEW t \in Callers, conn' \in [Callers -> ConnType],
         \A u \in Callers \ {t} : conn'[u] = conn[u] /\ held'[u] = held[u],
         \/ lock' = lock
         \/ lock \in {t, Free} /\ lock' \in {t, Free},
         conn'[t].at \in Trying => held'[t] # NoNode,
         lock' = t => conn'[t].at \in Calling
  PROVE  ThreadOK'
<1>1. \A u \in Callers : u # Free
  BY ValueAssumption
<1>2. ASSUME NEW u \in Callers PROVE conn'[u].at \in Trying => held'[u] # NoNode
  BY <1>2 DEF ThreadOK
<1>3. ASSUME NEW u \in Callers, lock' = u PROVE conn'[u].at \in Calling
  BY <1>1, <1>3 DEF ThreadOK, InsideIsCalling, Calling
<1> QED
  BY <1>2, <1>3 DEF ThreadOK, InsideIsCalling, Calling

\* A step of t outside the pool.
LEMMA LocalStep ==
  ASSUME ThreadOK, NEW t \in Callers, NEW p \in Points, Go(t, p),
         UNCHANGED poolVars, conn[t].at \notin Calling,
         p \in Trying => held[t] # NoNode
  PROVE  ThreadOK'
<1>1. held' = held /\ lock' = lock
  BY DEF poolVars, inside
<1>2. lock # t
  BY DEF ThreadOK, InsideIsCalling, Calling
<1>3. /\ conn' \in [Callers -> ConnType] /\ conn'[t].at = p
      /\ \A u \in Callers \ {t} : conn'[u] = conn[u]
  BY GoOK DEF ThreadOK
<1> QED
  BY <1>1, <1>2, <1>3, ThreadFrame

LEMMA SelectThreadOK ==
  ASSUME TypeOK, ThreadOK, NEW t \in Callers, Select(t) \/ Reselect(t)
  PROVE  ThreadOK'
<1>1. CallStep(t) /\ conn[t].at \in {"select", "reselect"} /\ t # Free
  BY ValueAssumption DEF Select, Reselect
<1>2. /\ lock \in {t, Free}
      /\ \/ lock' = t /\ held' = held
         \/ lock' = Free /\ \A u \in Callers \ {t} : held'[u] = held[u]
  BY <1>1, CallEffect
<1>3. CASE lock' = t
  <2>1. conn' = conn
    BY <1>1, <1>3 DEF Select, Reselect
  <2>2. held' = held
    BY <1>1, <1>2, <1>3
  <2>3. conn' \in [Callers -> ConnType]
    BY <2>1 DEF ThreadOK
  <2>4. conn'[t].at \in Calling
    BY <1>1, <2>1 DEF Calling
  <2>5. conn'[t].at \in Trying => held'[t] # NoNode
    BY <2>1, <2>2 DEF ThreadOK
  <2> QED
    BY <1>2, <1>3, <2>1, <2>2, <2>3, <2>4, <2>5, ThreadFrame
<1>4. CASE lock' = Free
  <2>1. PICK p \in Points : Go(t, p) /\ (p \in Trying => held'[t] # NoNode)
    BY <1>1, <1>4 DEF Select, Reselect, IsBackup, Points, Running, Finished, Trying
  <2>2. /\ conn' \in [Callers -> ConnType] /\ conn'[t].at = p
        /\ \A u \in Callers \ {t} : conn'[u] = conn[u]
    BY <2>1, GoOK DEF ThreadOK
  <2> QED
    BY <1>1, <1>2, <1>4, <2>1, <2>2, ThreadFrame
<1> QED
  BY <1>2, <1>3, <1>4

LEMMA MarkThreadOK ==
  ASSUME ThreadOK, NEW t \in Callers, Succeed(t) \/ Fail(t)
  PROVE  ThreadOK'
<1>1. /\ conn[t].at \in {"success", "success2", "failure", "failure2"}
      /\ t # Free
  BY ValueAssumption DEF Succeed, Fail
<1>2. held[t] # NoNode
  BY <1>1 DEF ThreadOK, Trying, Running
<1>3. MarkStep(t) \/ MarkCall(t)
  BY <1>2 DEF Succeed, Fail, MarkCall
<1>4. held' = held /\ lock \in {t, Free} /\ lock' \in {t, Free}
  BY <1>3, MarkEffect
<1>5. CASE lock' = t
  <2>1. conn' = conn
    BY <1>1, <1>5 DEF Succeed, Fail, Marked
  <2>2. conn'[t].at \in Calling /\ conn' \in [Callers -> ConnType]
    BY <1>1, <2>1 DEF Calling, ThreadOK
  <2> QED
    BY <1>2, <1>4, <2>1, <2>2, ThreadFrame
<1>6. CASE lock' = Free
  <2>1. PICK p \in Points : Go(t, p)
    BY <1>1, <1>6 DEF Succeed, Fail, Marked, Points, Running, Finished
  <2>2. /\ conn' \in [Callers -> ConnType]
        /\ \A u \in Callers \ {t} : conn'[u] = conn[u]
    BY <2>1, GoOK DEF ThreadOK
  <2> QED
    BY <1>1, <1>2, <1>4, <1>6, <2>2, ThreadFrame
<1> QED
  BY <1>4, <1>5, <1>6

LEMMA ThreadStep ==
  ASSUME TypeOK, ServerOK, ThreadOK, [ConnectNext]_connVars
  PROVE  ThreadOK'
<1>1. CASE UNCHANGED <<conn, held, lock>>
  BY <1>1 DEF ThreadOK, InsideIsCalling
<1>2. ASSUME NEW t \in Callers, ConnStep(t) PROVE ThreadOK'
  <2>1. CASE Route(t)
    <3>1. PICK p \in {"rejected", "direct", "select"} : Go(t, p)
      BY <2>1 DEF Route
    <3>2. p \in Points /\ p \notin Trying
      BY DEF Points, Running, Finished, Trying
    <3>3. conn[t].at \notin Calling /\ UNCHANGED poolVars
      BY <2>1 DEF Route, Calling
    <3> QED
      BY <1>2, <3>1, <3>2, <3>3, LocalStep
  <2>2. CASE NoNodeLeft(t)
    <3>1. PICK p \in {"blocked", "fallback"} : Go(t, p)
      BY <2>2 DEF NoNodeLeft
    <3>2. p \in Points /\ p \notin Trying
      BY DEF Points, Running, Finished, Trying
    <3>3. conn[t].at \notin Calling /\ UNCHANGED poolVars
      BY <2>2 DEF NoNodeLeft, Calling
    <3> QED
      BY <1>2, <3>1, <3>2, <3>3, LocalStep
  <2>3. CASE Try(t)
    <3>1. PICK p \in {"success", "failure", "success2", "failure2"} : Go(t, p)
      BY <2>3 DEF Try
    <3>2. p \in Points
      BY DEF Points, Running
    <3>3. conn[t].at \notin Calling /\ conn[t].at \in Trying /\ UNCHANGED poolVars
      BY <2>3 DEF Try, Calling, Trying, Running
    <3>4. held[t] # NoNode
      BY <1>2, <3>3 DEF ThreadOK
    <3> QED
      BY <1>2, <3>1, <3>2, <3>3, <3>4, LocalStep
  <2> QED
    BY <1>2, <2>1, <2>2, <2>3, SelectThreadOK, MarkThreadOK DEF ConnStep
<1>3. ASSUME NEW t \in Callers, NEW x \in Targets, Accept(t, x) PROVE ThreadOK'
  <2> DEFINE fresh == [at |-> "route", target |-> x, seen |-> InForce,
                       calm |-> (reload.at = "idle")]
  <2>1. fresh \in ConnType
    BY DEF ConnType, Running, InForce, ServerOK
  <2>2. conn' = [conn EXCEPT ![t] = fresh] /\ held' = held /\ lock' = lock
        /\ conn[t].at \notin Calling
    BY <1>3 DEF Accept, poolVars, inside, Calling, Finished
  <2>3. fresh.at \notin Trying
    BY DEF Trying
  <2> HIDE DEF fresh
  <2>4. conn' \in [Callers -> ConnType] /\ conn'[t] = fresh
    BY <2>1, <2>2 DEF ThreadOK
  <2>5. lock # t
    BY <2>2 DEF ThreadOK, InsideIsCalling, Calling
  <2> QED
    BY <2>2, <2>3, <2>4, <2>5, ThreadFrame
<1>4. ASSUME NEW f \in Configs \cup {Broken}, ReloadBegin(f) PROVE ThreadOK'
  <2> DEFINE g == LoadFromFile(f)
  <2>1. g \in ConfigType
    BY LoadOK
  <2>2. /\ held' = held /\ lock' = lock
        /\ conn' = [t \in Callers |-> IF conn[t].at \in Running
                      THEN [conn[t] EXCEPT !.seen = @ \cup {g}, !.calm = FALSE]
                      ELSE conn[t]]
    BY <1>4 DEF ReloadBegin, poolVars, inside
  <2> HIDE DEF g
  <2>3. ASSUME NEW t \in Callers
        PROVE  /\ [conn[t] EXCEPT !.seen = @ \cup {g}, !.calm = FALSE] \in ConnType
               /\ [conn[t] EXCEPT !.seen = @ \cup {g}, !.calm = FALSE].at = conn[t].at
    <3>1. conn[t] \in ConnType
      BY DEF ThreadOK
    <3> QED
      BY <2>1, <3>1 DEF ConnType
  <2>4. conn' \in [Callers -> ConnType]
    BY <2>2, <2>3 DEF ThreadOK
  <2>5. \A t \in Callers : conn'[t].at = conn[t].at
    BY <2>2, <2>3
  <2> QED
    BY <2>2, <2>4, <2>5 DEF ThreadOK, InsideIsCalling
<1>5. CASE ReloadStep
  <2>1. CASE InitPool
    BY <1>1, <2>1 DEF InitPool, Reload, inside
  <2> QED
    BY <1>1, <1>5, <2>1 DEF ReloadStep, StoreSmart, StoreKill, ClearRules,
                            SetDefault, FillRules, poolVars, inside
<1>6. ASSUME NEW s \in Sweepers, Health(s) PROVE ThreadOK'
  BY <1>1, <1>6, OtherEffect DEF Health
<1>7. CASE Operator
  BY <1>1, <1>7, OtherEffect DEF Operator
<1>8. ASSUME NEW n, Flip(n) PROVE ThreadOK'
  BY <1>1, <1>8 DEF Flip, poolVars, inside
<1>9. CASE UNCHANGED connVars
  BY <1>1, <1>9 DEF connVars, poolVars, inside
<1> QED
  BY <1>2, <1>3, <1>4, <1>5, <1>6, <1>7, <1>8, <1>9 DEF ConnectNext

-----------------------------------------------------------------------------
LEMMA ConnTypeStep ==
  ASSUME TypeOK, ConnTypeOK, [ConnectNext]_connVars
  PROVE  TypeOK' /\ ConnTypeOK'
<1>1. TypeOK'
  BY StepIsPoolStep, TypeStep
<1>2. ServerOK' /\ ThreadOK' /\ NetOK'
  BY PartsOfConnTypeOK, ServerStep, ThreadStep, NetStep
<1> QED
  BY <1>1, <1>2 DEF ConnTypeOK, ServerOK, ThreadOK, NetOK

LEMMA ConnectTypes == ConnectSpec => [](TypeOK /\ ConnTypeOK)
<1>1. ConnectInit => TypeOK /\ ConnTypeOK
  BY InitTypeOK, InitConnTypeOK DEF ConnectInit
<1>2. TypeOK /\ ConnTypeOK /\ [ConnectNext]_connVars => (TypeOK /\ ConnTypeOK)'
  BY ConnTypeStep
<1> QED
  BY <1>1, <1>2, PTL DEF ConnectSpec

\* The variables of the server and of its connections have their types, no
\* thread tries or marks without a node, and whoever is inside pool_mutex is
\* in a call that leaves it.
THEOREM ConnTypeCorrect == ConnectSpec => []ConnTypeOK
BY ConnectTypes, PTL

\* Every behaviour of the running server, its reloads, its connections and
\* its sweeps together, is one UpstreamPool allows.
THEOREM PoolIsUsedAsSpecifiedCorrect == ConnectSpec => PoolIsUsedAsSpecified
<1>1. ConnectInit => PoolInit
  BY DEF ConnectInit
<1>2. ConnTypeOK /\ [ConnectNext]_connVars => [PoolNext]_poolVars
  BY StepIsPoolStep
<1> QED
  BY <1>1, <1>2, ConnTypeCorrect, PTL DEF ConnectSpec, PoolIsUsedAsSpecified, PoolSpec

\* So the running server never falls back past a healthy node.
THEOREM ServerNeverFallsBackNeedlessly == ConnectSpec => NoNeedlessFallback
BY PoolIsUsedAsSpecifiedCorrect, NoNeedlessFallbackCorrect, PTL
   DEF PoolIsUsedAsSpecified

-----------------------------------------------------------------------------
(* A direct connection for want of a node is one a configuration in force  *)
(* asked for: FallbackInv is inductive.                                    *)

\* Which configuration the switch and the pool are of.
ReloadInv ==
  /\ cfg.kill = (IF reload.at \in {"smart", "kill"} THEN reload.old.kill
                 ELSE reload.new.kill)
  /\ Pool = (IF reload.at \in {"smart", "kill", "pool"} THEN reload.old.pool
             ELSE reload.new.pool)

\* What a connection remembers of the configurations it ran under.
Remembers(t) ==
  /\ conn[t].at \in Running => InForce \subseteq conn[t].seen
  /\ conn[t].at \in {"no_node", "fallback"} => \E c \in conn[t].seen : c.pool = <<>>
  /\ conn[t].at = "fallback" => \E c \in conn[t].seen : ~c.kill

LEMMA PartsOfFallbackInv ==
  FallbackInv <=> ReloadInv /\ \A t \in Callers : Remembers(t)
BY DEF FallbackInv, FallbackIsConfigured, ReloadInv, Remembers

LEMMA InForceHasBoth ==
  ASSUME ReloadInv
  PROVE  /\ \E c \in InForce : c.pool = Pool
         /\ \E c \in InForce : c.kill = cfg.kill
BY DEF ReloadInv, InForce

LEMMA InitFallbackInv == ConnectInit => FallbackInv
<1> SUFFICES ASSUME ConnectInit PROVE FallbackInv
  OBVIOUS
<1>1. PICK c \in Configs :
         /\ names[0] = c.pool
         /\ cfg = [smart |-> c.smart, kill |-> c.kill]
         /\ reload = [at |-> "idle", old |-> c, new |-> c]
  BY DEF ConnectInit
<1>2. gen = 0
  BY DEF ConnectInit, PoolInit
<1>3. ReloadInv
  BY <1>1, <1>2 DEF ReloadInv, Pool
<1>4. \A t \in Callers : Remembers(t)
  BY DEF ConnectInit, Idle, Remembers, Running
<1> QED
  BY <1>3, <1>4, PartsOfFallbackInv

\* Only the console, in update_config, changes what a connection reads.
LEMMA OnlyReloadChanges ==
  ASSUME TypeOK, ConnTypeOK, [ConnectNext]_connVars,
         ~ReloadStep, \A f \in Configs \cup {Broken} : ~ReloadBegin(f)
  PROVE  UNCHANGED <<list, cfg, reload>>
<1>1. ASSUME NEW t \in Callers, ConnStep(t) PROVE UNCHANGED <<list, cfg, reload>>
  <2>1. CASE Select(t) \/ Reselect(t)
    BY <2>1, CallEffect DEF Select, Reselect, Elsewhere
  <2>2. CASE Succeed(t) \/ Fail(t)
    <3>1. held[t] # NoNode
      BY <2>2 DEF Succeed, Fail, ConnTypeOK, Trying, Running
    <3>2. MarkStep(t) \/ MarkCall(t)
      BY <2>2, <3>1 DEF Succeed, Fail, MarkCall
    <3> QED
      BY <2>2, <3>2, MarkEffect DEF Succeed, Fail, Marked, Elsewhere
  <2>3. CASE Route(t) \/ NoNodeLeft(t) \/ Try(t)
    BY <2>3 DEF Route, NoNodeLeft, Try, Elsewhere, poolVars
  <2> QED
    BY <1>1, <2>1, <2>2, <2>3 DEF ConnStep
<1>2. ASSUME NEW t \in Callers, NEW x \in Targets, Accept(t, x)
      PROVE  UNCHANGED <<list, cfg, reload>>
  BY <1>2 DEF Accept, Elsewhere, poolVars
<1>3. ASSUME NEW s \in Sweepers, Health(s) PROVE UNCHANGED <<list, cfg, reload>>
  BY <1>3, OtherEffect DEF Health
<1>4. CASE Operator
  BY <1>4, OtherEffect DEF Operator
<1>5. ASSUME NEW n, Flip(n) PROVE UNCHANGED <<list, cfg, reload>>
  BY <1>5 DEF Flip, poolVars
<1>6. CASE UNCHANGED connVars
  BY <1>6 DEF connVars, poolVars
<1> QED
  BY <1>1, <1>2, <1>3, <1>4, <1>5, <1>6 DEF ConnectNext

LEMMA ReloadInvStep ==
  ASSUME TypeOK, ConnTypeOK, ReloadInv, [ConnectNext]_connVars
  PROVE  ReloadInv'
<1>1. cfg \in [smart : BOOLEAN, kill : BOOLEAN] /\ DOMAIN reload = {"at", "old", "new"}
  BY DEF ConnTypeOK
<1>2. ASSUME NEW p, Then(p)
      PROVE  reload'.at = p /\ reload'.old = reload.old /\ reload'.new = reload.new
  BY <1>1, <1>2 DEF Then
<1>3. CASE StoreSmart
  <2>1. cfg'.kill = cfg.kill /\ Pool' = Pool
    BY <1>1, <1>3 DEF StoreSmart, poolVars, list, Pool
  <2> QED
    BY <1>2, <1>3, <2>1 DEF StoreSmart, ReloadInv
<1>4. CASE StoreKill
  <2>1. cfg'.kill = reload.new.kill /\ Pool' = Pool
    BY <1>1, <1>4 DEF StoreKill, poolVars, list, Pool
  <2> QED
    BY <1>2, <1>4, <2>1 DEF StoreKill, ReloadInv
<1>5. CASE InitPool
  <2>1. Pool' = reload.new.pool
    <3>1. /\ gen' = gen + 1 /\ gen < MaxReloads
          /\ names' = [names EXCEPT ![gen + 1] = reload.new.pool]
      BY <1>5 DEF InitPool, Reload
    <3>2. gen \in 0 .. MaxReloads /\ DOMAIN names = 0 .. MaxReloads /\ MaxReloads \in Nat
      BY BoundAssumption DEF TypeOK, ListOK
    <3> QED
      BY <3>1, <3>2 DEF Pool
  <2> QED
    BY <1>2, <1>5, <2>1 DEF InitPool, ReloadInv
<1>6. CASE ClearRules \/ SetDefault \/ FillRules
  <2>1. cfg' = cfg /\ Pool' = Pool
    BY <1>6 DEF ClearRules, SetDefault, FillRules, poolVars, list, Pool
  <2> QED
    BY <1>2, <1>6, <2>1 DEF ClearRules, SetDefault, FillRules, ReloadInv
<1>7. ASSUME NEW f, ReloadBegin(f) PROVE ReloadInv'
  BY <1>7 DEF ReloadBegin, ReloadInv, poolVars, list, Pool
<1>8. CASE UNCHANGED <<list, cfg, reload>>
  BY <1>8 DEF ReloadInv, list, Pool
<1> QED
  BY <1>3, <1>4, <1>5, <1>6, <1>7, <1>8, OnlyReloadChanges DEF ReloadStep

\* A step within one configuration, or one that ends a reload, leaves no
\* configuration in force that was not.
LEMMA InForceShrinks ==
  ASSUME ConnTypeOK, [ConnectNext]_connVars, TypeOK,
         \A f \in Configs \cup {Broken} : ~ReloadBegin(f)
  PROVE  InForce' \subseteq InForce
<1>1. DOMAIN reload = {"at", "old", "new"}
  BY DEF ConnTypeOK
<1>2. CASE reload' = reload
  BY <1>2 DEF InForce
<1>3. ASSUME NEW p, Then(p), reload.at # "idle" PROVE InForce' \subseteq InForce
  <2>1. reload'.old = reload.old /\ reload'.new = reload.new
    BY <1>1, <1>3 DEF Then
  <2> QED
    BY <1>3, <2>1 DEF InForce
<1>4. CASE ReloadStep
  BY <1>3, <1>4 DEF ReloadStep, StoreSmart, StoreKill, InitPool, ClearRules,
                    SetDefault, FillRules
<1> QED
  BY <1>2, <1>4, OnlyReloadChanges

\* A connection that stays where it is, or goes where nothing is asked of it,
\* remembers what it did.
LEMMA RemembersFrame ==
  ASSUME NEW t \in Callers, Remembers(t), InForce' \subseteq InForce,
         conn'[t].seen = conn[t].seen,
         conn'[t].at \in Running => conn[t].at \in Running,
         conn'[t].at \in {"no_node", "fallback"} => conn'[t].at = conn[t].at
  PROVE  Remembers(t)'
BY DEF Remembers

\* A step of the thread itself.
LEMMA RemembersConnStep ==
  ASSUME TypeOK, ConnTypeOK, ReloadInv, NEW t \in Callers, Remembers(t),
         ConnStep(t)
  PROVE  Remembers(t)'
<1>1. conn \in [Callers -> ConnType] /\ conn[t].at \in Running
  BY DEF ConnTypeOK, ConnStep, Route, Select, NoNodeLeft, Try, Succeed, Fail,
         Reselect, Running
<1>2. InForce' \subseteq InForce
  BY DEF ConnStep, Route, Select, NoNodeLeft, Try, Succeed, Fail, Reselect,
         Marked, Elsewhere, InForce
<1>3. ASSUME NEW p \in Points \ {"no_node", "fallback"}, Go(t, p)
      PROVE  Remembers(t)'
  <2>1. conn'[t].seen = conn[t].seen /\ conn'[t].at = p
    BY <1>1, <1>3, GoOK
  <2> QED
    BY <1>1, <1>2, <1>3, <2>1, RemembersFrame
<1>4. CASE UNCHANGED conn
  BY <1>2, <1>4, RemembersFrame
<1>5. CASE Select(t)
  <2>1. CASE held'[t] = NoNode /\ Go(t, "no_node")
    <3>1. conn'[t].seen = conn[t].seen /\ conn'[t].at = "no_node"
      BY <1>1, <2>1, GoOK DEF Points, Running
    <3>2. conn' # conn
      BY <1>1, <1>5, <3>1 DEF Select
    <3>3. Size = 0
      <4>1. CallStep(t) /\ lock' = Free
        BY <1>5, <3>2 DEF Select
      <4>2. t # Free
        BY ValueAssumption
      <4> QED
        BY <2>1, <4>1, <4>2, CallEffect
    <3>4. Pool = <<>>
      BY <3>3, SizeOK DEF TypeOK, Size
    <3>5. \E c \in conn[t].seen : c.pool = <<>>
      BY <1>1, <3>4, InForceHasBoth DEF Remembers
    <3> QED
      BY <1>1, <1>2, <3>1, <3>5 DEF Remembers
  <2>2. CASE Go(t, "try")
    BY <1>3, <2>2 DEF Points, Running
  <2> QED
    BY <1>4, <1>5, <2>1, <2>2 DEF Select
<1>6. CASE NoNodeLeft(t)
  <2>1. CASE cfg.kill
    BY <1>3, <1>6, <2>1 DEF NoNodeLeft, Points, Finished
  <2>2. CASE ~cfg.kill
    <3>1. Go(t, "fallback") /\ conn[t].at = "no_node"
      BY <1>6, <2>2 DEF NoNodeLeft
    <3>2. conn'[t].seen = conn[t].seen /\ conn'[t].at = "fallback"
      BY <1>1, <3>1, GoOK DEF Points, Finished
    <3>3. \E c \in conn[t].seen : ~c.kill
      BY <1>1, <2>2, InForceHasBoth DEF Remembers
    <3>4. \E c \in conn[t].seen : c.pool = <<>>
      BY <3>1 DEF Remembers
    <3> QED
      BY <1>1, <1>2, <3>2, <3>3, <3>4 DEF Remembers, Running
  <2> QED
    BY <2>1, <2>2
<1>7. CASE Route(t)
  BY <1>3, <1>7 DEF Route, Points, Running, Finished
<1>8. CASE Try(t)
  BY <1>3, <1>8 DEF Try, Points, Running
<1>9. CASE Succeed(t)
  BY <1>3, <1>4, <1>9 DEF Succeed, Marked, Points, Finished
<1>10. CASE Fail(t)
  <2>1. CASE Go(t, IF conn[t].at = "failure" THEN "reselect" ELSE "failed")
    BY <1>3, <2>1 DEF Points, Running, Finished
  <2> QED
    BY <1>4, <1>10, <2>1 DEF Fail, Marked
<1>11. CASE Reselect(t)
  <2>1. CASE Go(t, IF IsBackup(t) THEN "retry" ELSE "failed")
    BY <1>3, <2>1 DEF Points, Running, Finished
  <2> QED
    BY <1>4, <1>11, <2>1 DEF Reselect
<1> QED
  BY <1>5, <1>6, <1>7, <1>8, <1>9, <1>10, <1>11 DEF ConnStep

LEMMA RemembersStep ==
  ASSUME TypeOK, ConnTypeOK, ReloadInv, NEW t \in Callers, Remembers(t),
         [ConnectNext]_connVars
  PROVE  Remembers(t)'
<1>1. conn \in [Callers -> ConnType] /\ reload.old \in ConfigType
      /\ reload.new \in ConfigType
  BY DEF ConnTypeOK
<1>2. CASE ConnStep(t)
  BY <1>2, RemembersConnStep
<1>3. ASSUME NEW f \in Configs \cup {Broken}, ReloadBegin(f) PROVE Remembers(t)'
  <2> DEFINE g == LoadFromFile(f)
  <2>1. conn'[t] = IF conn[t].at \in Running
                   THEN [conn[t] EXCEPT !.seen = @ \cup {g}, !.calm = FALSE]
                   ELSE conn[t]
    BY <1>3 DEF ReloadBegin
  <2>2. InForce' = {reload.new, g} /\ InForce = {reload.new}
    BY <1>3 DEF ReloadBegin, InForce
  <2> HIDE DEF g
  <2>3. CASE conn[t].at \in Running
    <3>1. conn[t] \in ConnType
      BY <1>1
    <3>2. conn'[t].at = conn[t].at /\ conn'[t].seen = conn[t].seen \cup {g}
      BY <2>1, <2>3, <3>1 DEF ConnType
    <3> QED
      BY <2>2, <2>3, <3>2 DEF Remembers
  <2>4. CASE conn[t].at \notin Running
    <3>1. conn'[t] = conn[t]
      BY <2>1, <2>4
    <3> QED
      BY <2>4, <3>1 DEF Remembers
  <2> QED
    BY <2>3, <2>4
<1>4. ASSUME NEW x \in Targets, Accept(t, x) PROVE Remembers(t)'
  <2>1. conn'[t].at = "route" /\ conn'[t].seen = InForce /\ InForce' = InForce
    BY <1>1, <1>4 DEF Accept, Elsewhere, InForce
  <2> QED
    BY <2>1 DEF Remembers
<1>5. ASSUME conn'[t] = conn[t], InForce' \subseteq InForce PROVE Remembers(t)'
  BY <1>5, RemembersFrame
<1>6. ASSUME NEW u \in Callers \ {t}, ConnStep(u) \/ \E x \in Targets : Accept(u, x)
      PROVE  conn'[t] = conn[t] /\ UNCHANGED reload
  BY <1>1, <1>6 DEF ConnStep, Route, Select, NoNodeLeft, Try, Succeed, Fail,
                    Reselect, Marked, Elsewhere, Go, Accept
<1>7. CASE ReloadStep
  <2>1. conn' = conn /\ reload.at # "idle"
    BY <1>7 DEF ReloadStep, StoreSmart, StoreKill, InitPool, ClearRules,
                SetDefault, FillRules
  <2>2. \A f : ~ReloadBegin(f)
    BY <2>1 DEF ReloadBegin
  <2> QED
    BY <1>5, <2>1, <2>2, InForceShrinks
<1>8. ASSUME UNCHANGED <<conn, reload>> PROVE Remembers(t)'
  BY <1>5, <1>8 DEF InForce
<1>9. CASE \/ \E s \in Sweepers : Health(s)
           \/ Operator
           \/ \E n \in Names : Flip(n)
           \/ UNCHANGED connVars
  BY <1>8, <1>9 DEF Health, Operator, Flip, connVars
<1> QED
  BY <1>2, <1>3, <1>4, <1>5, <1>6, <1>7, <1>9 DEF ConnectNext, InForce

\* A connection goes out directly for want of a node only if a configuration
\* in force since it was accepted lists no node and one leaves the kill
\* switch off, wherever reloads meet it.
THEOREM FallbackCorrect == ConnectSpec => []FallbackIsConfigured
<1>1. ConnectInit => FallbackInv
  BY InitFallbackInv
<1>2. TypeOK /\ ConnTypeOK /\ FallbackInv /\ [ConnectNext]_connVars => FallbackInv'
  <2> SUFFICES ASSUME TypeOK, ConnTypeOK, FallbackInv, [ConnectNext]_connVars
               PROVE  FallbackInv'
    OBVIOUS
  <2>1. ReloadInv /\ \A t \in Callers : Remembers(t)
    BY PartsOfFallbackInv
  <2>2. ReloadInv'
    BY <2>1, ReloadInvStep
  <2>3. \A t \in Callers : Remembers(t)'
    BY <2>1, RemembersStep
  <2> QED
    BY <2>2, <2>3 DEF FallbackInv, FallbackIsConfigured, ReloadInv, Remembers
<1>3. FallbackInv => FallbackIsConfigured
  BY DEF FallbackInv
<1> QED
  BY <1>1, <1>2, <1>3, ConnectTypes, PTL DEF ConnectSpec
-----------------------------------------------------------------------------
(* A connection no reload overlaps is treated as the configuration in      *)
(* force says.                                                             *)

\* The default route of every configuration is one the router keeps: with
\* REJECT as the default, RejectIsBlocked fails, and SettledRoute with it.
DefaultsAreKept ==
  \A c \in Configs \cup {Default} : c.default \in {"DIRECT", "PROXY"}

\* How far the console has come with what connect_target reads, one field
\* after another; between two reloads all of it is of the last file.
LoadedInv ==
  /\ reload.new \in Configs \cup {Default}
  /\ cfg.smart = (IF reload.at = "smart" THEN reload.old.smart ELSE reload.new.smart)
  /\ router.default = ServerRoute(IF reload.at \in {"rules", "idle"}
                                 THEN reload.new.default ELSE reload.old.default)
  /\ router.rule = (IF reload.at \in {"default", "rules"} THEN "none"
                   ELSE IF reload.at = "idle" THEN reload.new.rule ELSE reload.old.rule)
  /\ router.stale \subseteq (IF reload.at = "idle" THEN {} ELSE {reload.old.rule})

\* A connection under way that no reload has overlapped runs under the last
\* configuration loaded, and past its routing it is one to be proxied.
CalmInv(t) ==
  /\ conn[t].at \in Running /\ conn[t].calm =>
        reload.at = "idle" /\ conn[t].seen = {reload.new}
  /\ conn[t].at \in Running \ {"route"} /\ conn[t].calm =>
        \A c \in conn[t].seen : RouteOf(c) = "PROXY"
  /\ conn[t].at \in Finished /\ conn[t].calm =>
        \A c \in conn[t].seen : conn[t].at \in EndsOf(RouteOf(c))

SettledInv == LoadedInv /\ \A t \in Callers : CalmInv(t)

LEMMA InitSettledInv == ConnectInit => SettledInv
<1> SUFFICES ASSUME ConnectInit PROVE SettledInv
  OBVIOUS
<1>1. PICK c \in Configs :
         /\ cfg = [smart |-> c.smart, kill |-> c.kill]
         /\ router = [rule |-> c.rule, default |-> ServerRoute(c.default),
                      stale |-> {}]
         /\ reload = [at |-> "idle", old |-> c, new |-> c]
  BY DEF ConnectInit
<1>2. LoadedInv
  BY <1>1 DEF LoadedInv
<1>3. \A t \in Callers : CalmInv(t)
  BY DEF ConnectInit, Idle, CalmInv, Running, Finished
<1> QED
  BY <1>2, <1>3 DEF SettledInv

LEMMA LoadedStep ==
  ASSUME TypeOK, ConnTypeOK, LoadedInv, [ConnectNext]_connVars
  PROVE  LoadedInv'
<1>1. /\ cfg \in [smart : BOOLEAN, kill : BOOLEAN]
      /\ router \in [rule : Actions \cup {"none"}, default : {"DIRECT", "PROXY"},
                     stale : SUBSET Actions]
      /\ DOMAIN reload = {"at", "old", "new"}
  BY DEF ConnTypeOK
<1>2. ASSUME NEW p, Then(p)
      PROVE  reload'.at = p /\ reload'.new = reload.new /\ reload'.old = reload.old
  BY <1>1, <1>2 DEF Then
<1>3. CASE StoreSmart
  <2>1. cfg'.smart = reload.new.smart /\ router' = router
    BY <1>1, <1>3 DEF StoreSmart
  <2> QED
    BY <1>2, <1>3, <2>1 DEF StoreSmart, LoadedInv
<1>4. CASE StoreKill \/ InitPool
  <2>1. cfg'.smart = cfg.smart /\ router' = router
    BY <1>1, <1>4 DEF StoreKill, InitPool
  <2> QED
    BY <1>2, <1>4, <2>1 DEF StoreKill, InitPool, LoadedInv
<1>11. CASE ClearRules
  <2>1. /\ router'.rule = "none" /\ router'.stale = {router.rule} \ {"none"}
        /\ router'.default = router.default /\ cfg' = cfg /\ reload.at = "clear"
    BY <1>1, <1>11 DEF ClearRules
  <2>2. reload'.at = "default" /\ reload'.new = reload.new /\ reload'.old = reload.old
    BY <1>2, <1>11 DEF ClearRules
  <2> QED
    BY <2>1, <2>2 DEF LoadedInv
<1>5. CASE SetDefault
  <2>1. router'.default = ServerRoute(reload.new.default) /\ cfg' = cfg
        /\ router'.rule = router.rule /\ router'.stale = router.stale
        /\ reload.at = "default"
    BY <1>1, <1>5 DEF SetDefault
  <2> QED
    BY <1>2, <1>5, <2>1 DEF SetDefault, LoadedInv
<1>10. CASE FillRules
  <2>1. /\ router'.rule = (IF router.rule = "none" THEN reload.new.rule ELSE router.rule)
        /\ router'.stale = {}
        /\ router'.default = router.default /\ cfg' = cfg /\ reload.at = "rules"
    BY <1>1, <1>10 DEF FillRules
  <2>2. router.rule = "none"
    BY <2>1 DEF LoadedInv
  <2> QED
    BY <1>2, <1>10, <2>1, <2>2 DEF FillRules, LoadedInv
<1>6. ASSUME NEW f \in Configs \cup {Broken}, ReloadBegin(f) PROVE LoadedInv'
  BY <1>6 DEF ReloadBegin, LoadFromFile, LoadedInv
<1>7. CASE UNCHANGED <<cfg, router, reload>>
  BY <1>7 DEF LoadedInv
<1>8. ASSUME NEW t \in Callers,
             ConnStep(t) \/ \E x \in Targets : Accept(t, x)
      PROVE  UNCHANGED <<cfg, router, reload>>
  BY <1>8 DEF ConnStep, Route, Select, NoNodeLeft, Try, Succeed, Fail, Reselect,
              Marked, Elsewhere, Accept
<1>9. CASE \/ \E s \in Sweepers : Health(s)
           \/ Operator
           \/ \E n \in Names : Flip(n)
           \/ UNCHANGED connVars
  BY <1>7, <1>9 DEF Health, Operator, Flip, connVars
<1> QED
  BY <1>3, <1>4, <1>5, <1>6, <1>7, <1>8, <1>9, <1>10, <1>11 DEF ConnectNext, ReloadStep

\* Routing does what the configuration in force says.
LEMMA CalmRoute ==
  ASSUME ConnTypeOK, LoadedInv, DefaultsAreKept, NEW t \in Callers, CalmInv(t), Route(t)
  PROVE  CalmInv(t)'
<1>1. conn \in [Callers -> ConnType] /\ conn[t].at = "route" /\ reload' = reload
  BY DEF ConnTypeOK, Route, Elsewhere
<1>2. PICK a \in Matches :
         \/ a = "REJECT" /\ Go(t, "rejected")
         \/ a = "DIRECT" /\ Go(t, "direct")
         \/ a = "PROXY" /\ Go(t, "select")
  BY DEF Route
<1>3. /\ conn'[t].seen = conn[t].seen /\ conn'[t].calm = conn[t].calm
      /\ \/ a = "REJECT" /\ conn'[t].at = "rejected"
         \/ a = "DIRECT" /\ conn'[t].at = "direct"
         \/ a = "PROXY" /\ conn'[t].at = "select"
  BY <1>1, <1>2, GoOK DEF Points, Running, Finished
<1>4. CASE conn[t].calm
  <2>1. reload.at = "idle" /\ conn[t].seen = {reload.new}
    BY <1>1, <1>4 DEF CalmInv, Running
  <2>2. a = RouteOf(reload.new)
    <3>1. /\ cfg.smart = reload.new.smart /\ router.rule = reload.new.rule
          /\ router.stale = {} /\ router.default = ServerRoute(reload.new.default)
      BY <2>1 DEF LoadedInv
    <3>2. ServerRoute(reload.new.default) = reload.new.default
      BY DEF LoadedInv, DefaultsAreKept, ServerRoute
    <3> QED
      BY <1>1, <1>2, <3>1, <3>2 DEF Matches, RouteOf
  <2>3. conn'[t].at \in Finished => conn'[t].at \in EndsOf(a)
    BY <1>3 DEF EndsOf, Finished
  <2>4. conn'[t].at \in Running => a = "PROXY"
    BY <1>3 DEF Running
  <2> QED
    BY <1>1, <1>3, <2>1, <2>2, <2>3, <2>4 DEF CalmInv
<1>5. CASE ~conn[t].calm
  BY <1>3, <1>5 DEF CalmInv
<1> QED
  BY <1>4, <1>5

\* From its routing on, a connection that is to be proxied ends as one.
LEMMA CalmConnStep ==
  ASSUME ConnTypeOK, LoadedInv, DefaultsAreKept, NEW t \in Callers, CalmInv(t),
         ConnStep(t)
  PROVE  CalmInv(t)'
<1>1. conn \in [Callers -> ConnType] /\ reload' = reload
  BY DEF ConnTypeOK, ConnStep, Route, Select, NoNodeLeft, Try, Succeed, Fail, Reselect,
         Marked, Elsewhere
<1>2. CASE Route(t)
  BY <1>2, CalmRoute
<1>3. CASE UNCHANGED conn
  BY <1>1, <1>3 DEF CalmInv
<1>4. ASSUME NEW p \in (Running \cup Finished) \ {"route", "rejected", "direct"}, Go(t, p),
             conn[t].at \in Running \ {"route"}
      PROVE  CalmInv(t)'
  <2>1. conn'[t].seen = conn[t].seen /\ conn'[t].calm = conn[t].calm /\ conn'[t].at = p
    BY <1>1, <1>4, GoOK DEF Points
  <2>2. p \in Finished => p \in EndsOf("PROXY")
    BY <1>4 DEF EndsOf
  <2> QED
    BY <1>1, <1>4, <2>1, <2>2 DEF CalmInv
<1>5. CASE Select(t) \/ NoNodeLeft(t) \/ Try(t)
  BY <1>3, <1>4, <1>5 DEF Select, NoNodeLeft, Try, Running, Finished
<1>6. CASE Succeed(t) \/ Fail(t)
  BY <1>3, <1>4, <1>6 DEF Succeed, Fail, Marked, Running, Finished
<1>7. CASE Reselect(t)
  BY <1>3, <1>4, <1>7 DEF Reselect, Running, Finished
<1> QED
  BY <1>2, <1>5, <1>6, <1>7 DEF ConnStep

LEMMA CalmStep ==
  ASSUME TypeOK, ConnTypeOK, LoadedInv, DefaultsAreKept, NEW t \in Callers, CalmInv(t),
         [ConnectNext]_connVars
  PROVE  CalmInv(t)'
<1>1. conn \in [Callers -> ConnType] /\ conn[t] \in ConnType
  BY DEF ConnTypeOK
<1>2. CASE ConnStep(t)
  BY <1>2, CalmConnStep
<1>3. ASSUME NEW f \in Configs \cup {Broken}, ReloadBegin(f) PROVE CalmInv(t)'
  <2>1. CASE conn[t].at \in Running
    <3>1. ~conn'[t].calm
      BY <1>1, <1>3, <2>1 DEF ReloadBegin, ConnType
    <3> QED
      BY <3>1 DEF CalmInv
  <2>2. CASE conn[t].at \notin Running
    <3>1. conn'[t] = conn[t]
      BY <1>3, <2>2 DEF ReloadBegin
    <3> QED
      BY <2>2, <3>1 DEF CalmInv
  <2> QED
    BY <2>1, <2>2
<1>4. ASSUME NEW x \in Targets, Accept(t, x) PROVE CalmInv(t)'
  <2>1. /\ conn'[t].at = "route" /\ conn'[t].seen = InForce
        /\ conn'[t].calm = (reload.at = "idle") /\ reload' = reload
    BY <1>1, <1>4 DEF Accept, Elsewhere
  <2> QED
    BY <2>1 DEF CalmInv, InForce, Finished
<1>5. ASSUME NEW u \in Callers \ {t}, ConnStep(u) \/ \E x \in Targets : Accept(u, x)
      PROVE  conn'[t] = conn[t] /\ UNCHANGED reload
  BY <1>1, <1>5 DEF ConnStep, Route, Select, NoNodeLeft, Try, Succeed, Fail,
                    Reselect, Marked, Elsewhere, Go, Accept
<1>6. CASE ReloadStep
  <2>1. conn' = conn /\ reload.at # "idle"
    BY <1>6 DEF ReloadStep, StoreSmart, StoreKill, InitPool, ClearRules,
                SetDefault, FillRules
  <2> QED
    BY <2>1 DEF CalmInv
<1>7. CASE conn'[t] = conn[t] /\ UNCHANGED reload
  BY <1>7 DEF CalmInv
<1>8. CASE \/ \E s \in Sweepers : Health(s)
           \/ Operator
           \/ \E n \in Names : Flip(n)
           \/ UNCHANGED connVars
  BY <1>7, <1>8 DEF Health, Operator, Flip, connVars
<1> QED
  BY <1>2, <1>3, <1>4, <1>5, <1>6, <1>7, <1>8 DEF ConnectNext

\* A connection that no reload overlaps is rejected, connected directly or
\* given to the pool as the configuration in force says, whatever files were
\* loaded before it, field by field, and whatever rules they left behind
\* (update_config, load_rules, connect_target).
THEOREM SettledRouteCorrect ==
  ASSUME DefaultsAreKept
  PROVE  ConnectSpec => []SettledRoute
<1>1. ConnectInit => SettledInv
  BY InitSettledInv
<1>2. TypeOK /\ ConnTypeOK /\ SettledInv /\ [ConnectNext]_connVars => SettledInv'
  BY LoadedStep, CalmStep DEF SettledInv
<1>3. SettledInv => SettledRoute
  BY DEF SettledInv, CalmInv, SettledRoute
<1> QED
  BY <1>1, <1>2, <1>3, ConnectTypes, PTL DEF ConnectSpec

-----------------------------------------------------------------------------
(* A connection that a reload overlaps is routed as some configuration in  *)
(* force allows.                                                           *)

\* From its routing on, a connection that is to be proxied remembers a
\* configuration that leaves room for it.
RoutedInv(t) ==
  /\ conn[t].at \in Running \ {"route"} => Allows(conn[t].seen, "PROXY")
  /\ \A a \in Actions : conn[t].at \in EndsOf(a) => Allows(conn[t].seen, a)

\* What is allowed stays allowed as more configurations come into force.
LEMMA AllowsMonotone ==
  ASSUME NEW S, NEW U, S \subseteq U, NEW a \in Actions, Allows(S, a)
  PROVE  Allows(U, a)
BY DEF Allows, Actions

\* What a match answers, some configurations in force allow.
LEMMA MatchAllowed ==
  ASSUME ConnTypeOK, LoadedInv, NEW a \in Matches
  PROVE  a \in Actions /\ Allows(InForce, a)
<1>1. /\ InForce = IF reload.at = "idle" THEN {reload.new} ELSE {reload.old, reload.new}
      /\ \E c \in InForce : cfg.smart = c.smart
      /\ \E c \in InForce : router.default = ServerRoute(c.default)
      /\ router.rule = "none" \/ \E c \in InForce : router.rule = c.rule
      /\ \A b \in router.stale : \E c \in InForce : b = c.rule
  BY DEF LoadedInv, InForce
<1>2. /\ router.rule \in Actions \cup {"none"} /\ router.default \in {"DIRECT", "PROXY"}
      /\ router.stale \subseteq Actions /\ cfg.smart \in BOOLEAN
  BY DEF ConnTypeOK
<1>3. CASE ~cfg.smart
  <2>1. a = "PROXY" /\ \E c \in InForce : ~c.smart
    BY <1>1, <1>3 DEF Matches
  <2> QED
    BY <2>1 DEF Allows, Actions
<1>4. CASE cfg.smart
  <2>1. \E c \in InForce : c.smart
    BY <1>1, <1>4
  <2>2. \/ a \in Actions /\ \E c \in InForce : a = c.rule
        \/ a = router.default
    BY <1>1, <1>2, <1>4 DEF Matches
  <2>3. ASSUME a \in Actions, NEW c \in InForce, a = c.rule PROVE Allows(InForce, a)
    BY <2>1, <2>3 DEF Allows, Actions
  <2>4. CASE a = router.default
    <3>1. PICK c \in InForce : a = ServerRoute(c.default)
      BY <1>1, <2>4
    <3>2. \/ a = "DIRECT" /\ c.default = "DIRECT"
          \/ a = "PROXY" /\ c.default # "DIRECT"
      BY <3>1 DEF ServerRoute
    <3> QED
      BY <2>1, <3>2 DEF Allows, Actions
  <2> QED
    BY <2>2, <2>3, <2>4
<1> QED
  BY <1>2, <1>3, <1>4

LEMMA RoutedConnStep ==
  ASSUME ConnTypeOK, LoadedInv, NEW t \in Callers, Remembers(t), RoutedInv(t),
         ConnStep(t)
  PROVE  RoutedInv(t)'
<1>1. conn \in [Callers -> ConnType]
  BY DEF ConnTypeOK
<1>2. ASSUME NEW p \in Points, NEW a \in Actions, Go(t, p), Allows(conn[t].seen, a),
             p \in Running => p # "route" /\ a = "PROXY",
             p \in Finished => p \in EndsOf(a)
      PROVE  RoutedInv(t)'
  <2>1. conn'[t].seen = conn[t].seen /\ conn'[t].at = p
    BY <1>1, <1>2, GoOK
  <2>2. \A b \in Actions : p \in EndsOf(b) => b = a
    <3>1. \A b \in Actions : p \in EndsOf(b) => p \in Finished
      BY DEF EndsOf, Actions, Finished
    <3> QED
      BY <1>2, <3>1 DEF EndsOf, Actions
  <2>3. p \in Running \ {"route"} => a = "PROXY"
    BY <1>2
  <2>4. conn'[t].at \in Running \ {"route"} => Allows(conn'[t].seen, "PROXY")
    BY <1>2, <2>1, <2>3
  <2>5. \A b \in Actions : conn'[t].at \in EndsOf(b) => Allows(conn'[t].seen, b)
    BY <1>2, <2>1, <2>2
  <2> QED
    BY <2>4, <2>5 DEF RoutedInv
<1>3. CASE Route(t)
  <2>1. PICK a \in Matches :
           \/ a = "REJECT" /\ Go(t, "rejected")
           \/ a = "DIRECT" /\ Go(t, "direct")
           \/ a = "PROXY" /\ Go(t, "select")
    BY <1>3 DEF Route
  <2>2. a \in Actions /\ Allows(InForce, a)
    BY MatchAllowed
  <2>3. Allows(conn[t].seen, a)
    <3>1. InForce \subseteq conn[t].seen
      BY <1>3 DEF Remembers, Route, Running
    <3> QED
      BY <2>2, <3>1, AllowsMonotone
  <2> QED
    BY <1>2, <2>1, <2>2, <2>3 DEF Points, Running, Finished, EndsOf
<1>4. ASSUME NEW p \in (Running \cup Finished) \ {"route", "rejected", "direct"}, Go(t, p),
             conn[t].at \in Running \ {"route"}
      PROVE  RoutedInv(t)'
  <2>1. p \in Finished => p \in EndsOf("PROXY")
    BY <1>4 DEF EndsOf
  <2> QED
    BY <1>2, <1>4, <2>1 DEF RoutedInv, Points, Actions
<1>5. CASE UNCHANGED conn
  BY <1>5 DEF RoutedInv
<1>6. CASE Select(t) \/ NoNodeLeft(t) \/ Try(t)
  BY <1>4, <1>5, <1>6 DEF Select, NoNodeLeft, Try, Running, Finished
<1>7. CASE Succeed(t) \/ Fail(t)
  BY <1>4, <1>5, <1>7 DEF Succeed, Fail, Marked, Running, Finished
<1>8. CASE Reselect(t)
  BY <1>4, <1>5, <1>8 DEF Reselect, Running, Finished
<1> QED
  BY <1>3, <1>6, <1>7, <1>8 DEF ConnStep

LEMMA RoutedStep ==
  ASSUME ConnTypeOK, LoadedInv, NEW t \in Callers, Remembers(t), RoutedInv(t),
         [ConnectNext]_connVars
  PROVE  RoutedInv(t)'
<1>1. conn \in [Callers -> ConnType] /\ conn[t] \in ConnType
  BY DEF ConnTypeOK
<1>2. CASE ConnStep(t)
  BY <1>2, RoutedConnStep
<1>3. ASSUME conn'[t].at = conn[t].at, conn[t].seen \subseteq conn'[t].seen
      PROVE  RoutedInv(t)'
  <2>1. "PROXY" \in Actions
    BY DEF Actions
  <2> QED
    BY <1>3, <2>1, AllowsMonotone DEF RoutedInv
<1>4. ASSUME NEW f \in Configs \cup {Broken}, ReloadBegin(f) PROVE RoutedInv(t)'
  <2>1. conn'[t].at = conn[t].at /\ conn[t].seen \subseteq conn'[t].seen
    BY <1>1, <1>4 DEF ReloadBegin, ConnType
  <2> QED
    BY <1>3, <2>1
<1>5. ASSUME NEW x \in Targets, Accept(t, x) PROVE RoutedInv(t)'
  <2>1. conn'[t].at = "route"
    BY <1>1, <1>5 DEF Accept
  <2> QED
    BY <2>1 DEF RoutedInv, EndsOf, Actions, Finished
<1>6. ASSUME NEW u \in Callers \ {t}, ConnStep(u) \/ \E x \in Targets : Accept(u, x)
      PROVE  conn'[t] = conn[t]
  BY <1>1, <1>6 DEF ConnStep, Route, Select, NoNodeLeft, Try, Succeed, Fail,
                    Reselect, Marked, Go, Accept
<1>7. CASE \/ ReloadStep
           \/ \E s \in Sweepers : Health(s)
           \/ Operator
           \/ \E n \in Names : Flip(n)
           \/ UNCHANGED connVars
  BY <1>3, <1>7 DEF ReloadStep, StoreSmart, StoreKill, InitPool, ClearRules, SetDefault,
                    FillRules, Health, Operator, Flip, connVars
<1> QED
  BY <1>2, <1>3, <1>4, <1>5, <1>6, <1>7 DEF ConnectNext

\* A connection goes out directly, is rejected or is given to the pool only as
\* configurations in force since it was accepted allow, whatever reload
\* replaces the switch, the default and the rules under it (update_config,
\* load_rules, connect_target).
THEOREM RouteIsConfiguredCorrect == ConnectSpec => []RouteIsConfigured
<1> DEFINE Routed == /\ LoadedInv /\ FallbackInv
                     /\ \A t \in Callers : RoutedInv(t)
<1>1. ConnectInit => Routed
  <2>1. ASSUME ConnectInit, NEW t \in Callers PROVE RoutedInv(t)
    <3>1. conn[t].at = "idle"
      BY <2>1 DEF ConnectInit, Idle
    <3> QED
      BY <3>1 DEF RoutedInv, Running, EndsOf, Actions, Finished
  <2> QED
    BY <2>1, InitFallbackInv, InitSettledInv DEF SettledInv
<1>2. TypeOK /\ ConnTypeOK /\ Routed /\ [ConnectNext]_connVars => Routed'
  <2> SUFFICES ASSUME TypeOK, ConnTypeOK, Routed, [ConnectNext]_connVars
               PROVE  Routed'
    OBVIOUS
  <2>1. ReloadInv /\ \A t \in Callers : Remembers(t)
    BY PartsOfFallbackInv
  <2>2. FallbackInv'
    <3>1. ReloadInv' /\ \A t \in Callers : Remembers(t)'
      BY <2>1, ReloadInvStep, RemembersStep
    <3> QED
      BY <3>1 DEF FallbackInv, FallbackIsConfigured, ReloadInv, Remembers
  <2>3. LoadedInv'
    BY LoadedStep
  <2>4. \A t \in Callers : RoutedInv(t)'
    BY <2>1, RoutedStep
  <2> QED
    BY <2>2, <2>3, <2>4
<1>3. Routed => RouteIsConfigured
  BY DEF RoutedInv, RouteIsConfigured
<1> QED
  BY <1>1, <1>2, <1>3, ConnectTypes, PTL DEF ConnectSpec
=============================================================================
