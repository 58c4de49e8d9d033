------------------------ MODULE UpstreamPool_proofs ------------------------
(* Theorems about UpstreamPool, for all values of its constants. *)
EXTENDS UpstreamPool, FiniteSetTheorems, TLAPS

LEMMA WatchOK ==
  ASSUME WindowOK, Watch
  PROVE  WindowOK'
BY DEF WindowOK, Watch

LEMMA InitTypeOK == PoolInit => TypeOK
<1> SUFFICES ASSUME PoolInit PROVE TypeOK
  OBVIOUS
<1>1. ListOK
  <2>1. PICK p \in Pools : names = [g \in 0 .. MaxReloads |->
                                       IF g = 0 THEN p ELSE <<>>]
    BY DEF PoolInit
  <2>2. <<>> \in Seq(Names) /\ Len(<<>>) = 0
    OBVIOUS
  <2>3. p \in Seq(Names) /\ Len(p) <= MaxNodes
    BY PoolAssumption
  <2>4. gen \in 0 .. MaxReloads
    BY BoundAssumption DEF PoolInit
  <2> QED
    BY <2>1, <2>2, <2>3, <2>4, BoundAssumption DEF ListOK
<1>2. NodeOK
  <2>1. alive \in [Obj -> BOOLEAN]
    BY DEF PoolInit
  <2>2. latency \in [Obj -> Latencies \cup {-1, 0}]
    BY DEF PoolInit
  <2>3. fails \in [Obj -> 0 .. FailCap]
    BY BoundAssumption DEF PoolInit
  <2> QED
    BY <2>1, <2>2, <2>3 DEF NodeOK
<1>3. HeldOK /\ WindowOK
  BY DEF PoolInit, HeldOK, WindowOK
<1>4. ModeOK
  <2>1. strategy \in Strategies /\ override \in Names \cup {NoName}
    BY DEF PoolInit
  <2>2. pinned \in Nat /\ rr \in 0 .. RRPeriod - 1 /\ rrLast \in -1 .. MaxNodes
    BY BoundAssumption DEF PoolInit
  <2> QED
    BY <2>1, <2>2 DEF ModeOK
<1>5. InsideOK
  <2>1. Size \in Nat
    BY <1>1 DEF ListOK, Size, Pool
  <2> QED
    BY <2>1, BoundAssumption DEF PoolInit, InsideOK, OutOfLock
<1>6. SweepOK
  BY BoundAssumption DEF PoolInit, SweepOK, IdleSweep, SweepPoints
<1> QED
  BY <1>1, <1>2, <1>3, <1>4, <1>5, <1>6 DEF TypeOK

-----------------------------------------------------------------------------
(* What entering, going on with and leaving the critical section preserve. *)

Crit == [at : {"out"} \cup ScanPoints \cup MarkPoints,
         i : 0 .. MaxNodes, best : 0 .. MaxNodes, ms : Latencies \cup {0}]

LEMMA SizeOK ==
  ASSUME ListOK
  PROVE  /\ Size \in Nat /\ Size <= MaxNodes
         /\ Pool \in Seq(Names)
         /\ \A i \in 1 .. Size : At(i) \in Obj /\ Pool[i] \in Names
<1>1. gen \in 0 .. MaxReloads /\ Pool \in Seq(Names) /\ Size <= MaxNodes
  BY DEF ListOK, Pool, Size
<1>2. Size \in Nat
  BY <1>1 DEF Size
<1>3. \A i \in 1 .. Size : At(i) \in Obj
  BY <1>1, <1>2, BoundAssumption DEF At, Obj
<1>4. \A i \in 1 .. Size : Pool[i] \in Names
  BY <1>1, <1>2 DEF Size
<1> QED
  BY <1>1, <1>2, <1>3, <1>4

LEMMA ReturnOK ==
  ASSUME ListOK, HeldOK, NEW t \in Callers, NEW o \in Obj \cup {NoNode},
         Return(t, o), UNCHANGED list
  PROVE  InsideOK' /\ HeldOK'
<1>1. HeldOK'
  BY DEF HeldOK, Return
<1>2. Size' = Size /\ Size \in Nat
  BY SizeOK DEF list, Size, Pool
<1>3. lock' = Free /\ crit' = OutOfLock
  BY DEF Return, Release
<1> QED
  BY <1>1, <1>2, <1>3, BoundAssumption DEF InsideOK, OutOfLock

LEMMA HoldOK ==
  ASSUME ListOK, NEW t \in Callers, NEW c \in Crit,
         c.at # "out", c.i \in 1 .. Size, c.best <= Size,
         Hold(t, c), UNCHANGED list
  PROVE  InsideOK'
<1>1. Size' = Size
  BY DEF list, Size, Pool
<1>2. lock' = t /\ crit' = c /\ t # Free
  BY ValueAssumption DEF Hold
<1> QED
  BY <1>1, <1>2 DEF InsideOK, Crit

LEMMA GoOnOK ==
  ASSUME ListOK, HeldOK, NEW t \in Callers, NEW c \in Crit,
         c.at # "out", c.i \in 1 .. Size, c.best <= Size,
         GoOn(t, c), UNCHANGED list
  PROVE  InsideOK' /\ HeldOK'
BY HoldOK DEF GoOn, HeldOK

\* A record with which a scan of any kind starts, or goes on.
LEMMA ScanAtOK ==
  ASSUME ListOK, NEW p \in ScanPoints, NEW k \in 1 .. Size
  PROVE  /\ ScanAt(p, k) \in Crit
         /\ ScanAt(p, k).at # "out"
         /\ ScanAt(p, k).i \in 1 .. Size
         /\ ScanAt(p, k).best <= Size
BY SizeOK, BoundAssumption DEF ScanAt, Crit, ScanPoints

LEMMA StrategyScanOK ==
  ASSUME ListOK, Size > 0
  PROVE  /\ StrategyScan \in Crit
         /\ StrategyScan.at # "out"
         /\ StrategyScan.i \in 1 .. Size
         /\ StrategyScan.best <= Size
<1> DEFINE p == CASE strategy = "BEST_LATENCY" -> "best_alive"
                  [] strategy = "ROUND_ROBIN"  -> "round_robin"
                  [] OTHER                     -> "failover"
<1>1. p \in ScanPoints
  BY DEF ScanPoints
<1>2. StrategyScan = ScanAt(p, 1)
  BY DEF StrategyScan
<1>3. 1 \in 1 .. Size
  BY SizeOK
<1> HIDE DEF p
<1> QED
  BY <1>1, <1>2, <1>3, ScanAtOK

-----------------------------------------------------------------------------
(* The steps of select_node. *)

\* What every step of a scan leaves alone keeps its type.
LEMMA ScanFrame ==
  ASSUME TypeOK, InsideOK', HeldOK', UNCHANGED <<list, node, mode, sweep>>,
         rr' \in 0 .. RRPeriod - 1, rrLast' \in -1 .. MaxNodes, Watch
  PROVE  TypeOK'
<1>1. ListOK' /\ SweepOK'
  BY DEF TypeOK, ListOK, SweepOK, list
<1>2. NodeOK' /\ ModeOK'
  BY DEF TypeOK, NodeOK, ModeOK, node, mode
<1>3. WindowOK'
  BY WatchOK DEF TypeOK
<1> QED
  BY <1>1, <1>2, <1>3 DEF TypeOK

LEMMA BestTypeOK ==
  ASSUME TypeOK, NEW t \in Callers, lock = t, NEW c \in Crit,
         crit.at \in ScanPoints, c.best <= Size, NextBest(t, c),
         UNCHANGED list
  PROVE  InsideOK' /\ HeldOK'
<1> USE DEF TypeOK
<1>1. crit.i \in 1 .. Size /\ Size \in Nat /\ Size <= MaxNodes
  BY SizeOK, ValueAssumption DEF InsideOK
<1>2. CASE /\ crit.i < Size
           /\ GoOn(t, [c EXCEPT !.at = "best_alive", !.i = crit.i + 1])
  <2> DEFINE d == [c EXCEPT !.at = "best_alive", !.i = crit.i + 1]
  <2>1. d \in Crit /\ d.at # "out" /\ d.i \in 1 .. Size /\ d.best <= Size
    <3>1. crit.i + 1 \in 1 .. Size /\ crit.i + 1 \in 0 .. MaxNodes
      BY <1>1, <1>2, BoundAssumption
    <3>2. d.at = "best_alive" /\ d.i = crit.i + 1 /\ d.best = c.best
      BY DEF Crit
    <3>3. d \in Crit
      BY <3>1 DEF Crit, ScanPoints
    <3> QED
      BY <3>1, <3>2, <3>3
  <2>2. GoOn(t, d)
    BY <1>2
  <2> HIDE DEF d
  <2> QED
    BY <2>1, <2>2, GoOnOK
<1>3. CASE crit.i = Size /\ c.best # 0 /\ Return(t, At(c.best))
  <2>1. At(c.best) \in Obj
    BY <1>1, <1>3, SizeOK DEF Crit
  <2> QED
    BY <1>3, <2>1, ReturnOK
<1>4. CASE crit.i = Size /\ c.best = 0 /\ GoOn(t, ScanAt("failover", 1))
  <2>1. 1 \in 1 .. Size /\ "failover" \in ScanPoints
    BY <1>1 DEF ScanPoints
  <2> QED
    BY <1>4, <2>1, ScanAtOK, GoOnOK
<1> QED
  BY <1>2, <1>3, <1>4 DEF NextBest

LEMMA CallTypeOK ==
  ASSUME TypeOK, NEW t \in Callers, CallStep(t)
  PROVE  TypeOK'
<1> USE DEF TypeOK
<1>1. /\ rr \in 0 .. RRPeriod - 1 /\ rrLast \in -1 .. MaxNodes
      /\ Size \in Nat /\ Size <= MaxNodes
      /\ \A i \in 1 .. Size : At(i) \in Obj
      /\ crit \in Crit
  BY SizeOK DEF ModeOK, InsideOK, Crit
<1>2. lock = t => crit.i \in 1 .. Size /\ crit.best <= Size
  BY ValueAssumption DEF InsideOK
<1>3. lock = t /\ crit.i < Size => crit.i + 1 \in 1 .. Size
  BY <1>1, <1>2
<1>4. lock = t => 1 \in 1 .. Size
  BY <1>1, <1>2
<1>5. ScanPoints = {"override", "best_alive", "best_latency", "round_robin",
                    "failover"}
  BY DEF ScanPoints
<1>6. CASE SelectNode(t)
  <2>1. InsideOK' /\ HeldOK'
    <3>1. CASE Size = 0 /\ Return(t, NoNode)
      BY <1>6, <3>1, ReturnOK DEF SelectNode
    <3>2. CASE Size > 0 /\ GoOn(t, IF override # NoName
                                   THEN ScanAt("override", 1)
                                   ELSE StrategyScan)
      <4>1. 1 \in 1 .. Size
        BY <1>1, <3>2
      <4>2. CASE override # NoName
        BY <1>5, <1>6, <3>2, <4>1, <4>2, ScanAtOK, GoOnOK DEF SelectNode
      <4>3. CASE override = NoName
        BY <1>6, <3>2, <4>3, StrategyScanOK, GoOnOK DEF SelectNode
      <4> QED
        BY <4>2, <4>3
    <3> QED
      BY <1>6, <3>1, <3>2 DEF SelectNode
  <2> QED
    BY <1>1, <1>6, <2>1, ScanFrame DEF SelectNode, turn
<1>7. CASE ScanOverride(t)
  <2> DEFINE hit == Pool[crit.i] = override /\ alive[At(crit.i)]
  <2>1. lock = t /\ UNCHANGED <<list, node, mode, turn, sweep>> /\ Watch
    BY <1>7 DEF ScanOverride
  <2>2. \/ Return(t, At(crit.i))
        \/ crit.i < Size /\ GoOn(t, ScanAt("override", crit.i + 1))
        \/ GoOn(t, StrategyScan)
    BY <1>7 DEF ScanOverride
  <2>3. InsideOK' /\ HeldOK'
    <3>1. CASE Return(t, At(crit.i))
      BY <1>1, <1>2, <2>1, <3>1, ReturnOK
    <3>2. CASE crit.i < Size /\ GoOn(t, ScanAt("override", crit.i + 1))
      BY <1>3, <1>5, <2>1, <3>2, ScanAtOK, GoOnOK
    <3>3. CASE GoOn(t, StrategyScan)
      BY <1>1, <1>2, <2>1, <3>3, StrategyScanOK, GoOnOK
    <3> QED
      BY <2>2, <3>1, <3>2, <3>3
  <2> QED
    BY <1>1, <2>1, <2>3, ScanFrame DEF turn
<1>8. CASE ScanBestAlive(t)
  <2>1. /\ lock = t /\ crit.at = "best_alive" /\ Watch
        /\ UNCHANGED <<list, node, mode, turn, sweep>>
        /\ \/ GoOn(t, [crit EXCEPT !.at = "best_latency"])
           \/ NextBest(t, crit)
    BY <1>8 DEF ScanBestAlive
  <2>2. InsideOK' /\ HeldOK'
    <3>1. CASE GoOn(t, [crit EXCEPT !.at = "best_latency"])
      <4> DEFINE d == [crit EXCEPT !.at = "best_latency"]
      <4>1. d.at = "best_latency" /\ d.i = crit.i /\ d.best = crit.best
        BY <1>1 DEF Crit
      <4>2. d \in Crit
        BY <1>1, <1>5 DEF Crit
      <4> HIDE DEF d
      <4> QED
        BY <1>2, <2>1, <3>1, <4>1, <4>2, GoOnOK DEF d
    <3>2. CASE NextBest(t, crit)
      BY <1>1, <1>2, <1>5, <2>1, <3>2, BestTypeOK
    <3> QED
      BY <2>1, <3>1, <3>2
  <2> QED
    BY <1>1, <2>1, <2>2, ScanFrame DEF turn
<1>9. CASE ScanBestLatency(t)
  <2> DEFINE lat == latency[At(crit.i)]
             c   == IF Faster(lat)
                    THEN [crit EXCEPT !.best = crit.i, !.ms = lat]
                    ELSE crit
  <2>1. /\ lock = t /\ crit.at = "best_latency" /\ Watch
        /\ UNCHANGED <<list, node, mode, turn, sweep>>
        /\ NextBest(t, c)
    BY <1>9 DEF ScanBestLatency
  <2>2. c \in Crit /\ c.best <= Size
    <3>1. lat \in Latencies \cup {-1, 0}
      BY <1>1, <1>2, <2>1 DEF NodeOK
    <3>2. CASE Faster(lat)
      <4>1. lat \in Latencies \cup {0}
        BY <3>1, <3>2 DEF Faster
      <4>2. c = [crit EXCEPT !.best = crit.i, !.ms = lat]
        BY <3>2
      <4>3. crit.i \in 0 .. MaxNodes
        BY <1>1 DEF Crit
      <4> HIDE DEF lat, c
      <4>4. c \in Crit
        BY <1>1, <4>1, <4>2, <4>3 DEF Crit
      <4>5. c.best = crit.i
        BY <1>1, <4>2 DEF Crit
      <4> QED
        BY <1>2, <2>1, <4>4, <4>5
    <3>3. CASE ~Faster(lat)
      BY <1>1, <1>2, <2>1, <3>3
    <3> QED
      BY <3>2, <3>3
  <2> HIDE DEF c
  <2>3. InsideOK' /\ HeldOK'
    BY <1>5, <2>1, <2>2, BestTypeOK
  <2> QED
    BY <1>1, <2>1, <2>3, ScanFrame DEF turn
<1>10. CASE ScanRoundRobin(t)
  <2>1. /\ lock = t /\ Watch
        /\ UNCHANGED <<list, node, mode, sweep>>
        /\ rr' = (rr + 1) % RRPeriod
        /\ \/ Return(t, At(RRIndex)) /\ rrLast' = RRIndex
           \/ /\ UNCHANGED rrLast
              /\ GoOn(t, IF crit.i < Size THEN ScanAt("round_robin", crit.i + 1)
                                          ELSE ScanAt("failover", 1))
    BY <1>10 DEF ScanRoundRobin
  <2>2. RRIndex \in 1 .. Size
    BY <1>1, <1>4, <2>1 DEF RRIndex
  <2>3. rr' \in 0 .. RRPeriod - 1 /\ rrLast' \in -1 .. MaxNodes
    BY <1>1, <2>1, <2>2, BoundAssumption
  <2>4. InsideOK' /\ HeldOK'
    <3>1. CASE Return(t, At(RRIndex))
      BY <1>1, <2>1, <2>2, <3>1, ReturnOK
    <3>2. CASE crit.i < Size /\ GoOn(t, ScanAt("round_robin", crit.i + 1))
      BY <1>3, <1>5, <2>1, <3>2, ScanAtOK, GoOnOK
    <3>3. CASE GoOn(t, ScanAt("failover", 1))
      BY <1>4, <1>5, <2>1, <3>3, ScanAtOK, GoOnOK
    <3> QED
      BY <2>1, <3>1, <3>2, <3>3
  <2> QED
    BY <2>1, <2>3, <2>4, ScanFrame
<1>11. CASE ScanFailover(t)
  <2>1. /\ lock = t /\ Watch
        /\ UNCHANGED <<list, node, mode, turn, sweep>>
        /\ \/ Return(t, At(crit.i))
           \/ crit.i < Size /\ GoOn(t, ScanAt("failover", crit.i + 1))
           \/ Return(t, At(1))
    BY <1>11 DEF ScanFailover
  <2>2. InsideOK' /\ HeldOK'
    <3>1. CASE Return(t, At(crit.i))
      BY <1>1, <1>2, <2>1, <3>1, ReturnOK
    <3>2. CASE crit.i < Size /\ GoOn(t, ScanAt("failover", crit.i + 1))
      BY <1>3, <1>5, <2>1, <3>2, ScanAtOK, GoOnOK
    <3>3. CASE Return(t, At(1))
      BY <1>1, <1>4, <2>1, <3>3, ReturnOK
    <3> QED
      BY <2>1, <3>1, <3>2, <3>3
  <2> QED
    BY <1>1, <2>1, <2>2, ScanFrame DEF turn
<1> QED
  BY <1>6, <1>7, <1>8, <1>9, <1>10, <1>11 DEF CallStep

-----------------------------------------------------------------------------
(* The steps of mark_node_failure and mark_node_success. *)

LEMMA MarkAtOK ==
  ASSUME ListOK, NEW p \in MarkPoints, NEW k \in 1 .. Size,
         NEW lat \in Latencies \cup {0}
  PROVE  /\ MarkAt(p, k, lat) \in Crit
         /\ MarkAt(p, k, lat).at # "out"
         /\ MarkAt(p, k, lat).i \in 1 .. Size
         /\ MarkAt(p, k, lat).best <= Size
BY SizeOK, BoundAssumption DEF MarkAt, Crit, MarkPoints

\* What every mark leaves alone keeps its type.
LEMMA MarkFrame ==
  ASSUME TypeOK, NodeOK', InsideOK', UNCHANGED <<list, mode, turn, held, sweep>>,
         Watch
  PROVE  TypeOK'
<1>1. ListOK' /\ SweepOK' /\ HeldOK'
  BY DEF TypeOK, ListOK, SweepOK, HeldOK, list
<1>2. ModeOK'
  BY DEF TypeOK, ModeOK, mode, turn
<1>3. WindowOK'
  BY WatchOK DEF TypeOK
<1> QED
  BY <1>1, <1>2, <1>3 DEF TypeOK

LEMMA BumpOK ==
  ASSUME NEW k \in 0 .. FailCap
  PROVE  Bump(k) \in 0 .. FailCap
BY BoundAssumption DEF Bump

\* Release, seen from any step that keeps the vector.
LEMMA ReleaseOK ==
  ASSUME ListOK, Release, UNCHANGED list
  PROVE  InsideOK'
<1>1. Size' = Size /\ Size \in Nat
  BY SizeOK DEF list, Size, Pool
<1>2. lock' = Free /\ crit' = OutOfLock
  BY DEF Release
<1> QED
  BY <1>1, <1>2, BoundAssumption DEF InsideOK, OutOfLock

LEMMA MarkTypeOK ==
  ASSUME TypeOK, NEW t \in Callers, MarkStep(t) \/ MarkCall(t)
  PROVE  TypeOK'
<1> USE DEF TypeOK
<1>1. /\ Size \in Nat /\ Size <= MaxNodes
      /\ \A i \in 1 .. Size : At(i) \in Obj
      /\ crit \in Crit
  BY SizeOK DEF InsideOK, Crit
<1>2. lock = t => crit.i \in 1 .. Size /\ crit.best <= Size
  BY ValueAssumption DEF InsideOK
<1>3. /\ alive \in [Obj -> BOOLEAN]
      /\ latency \in [Obj -> Latencies \cup {-1, 0}]
      /\ fails \in [Obj -> 0 .. FailCap]
  BY DEF NodeOK
<1>4. CASE SetOffline(t)
  <2>1. NodeOK'
    BY <1>3, <1>4 DEF SetOffline, NodeOK
  <2>2. InsideOK'
    BY <1>4, ReleaseOK DEF SetOffline
  <2> QED
    BY <1>4, <2>1, <2>2, MarkFrame DEF SetOffline
<1>5. CASE ResetFails(t)
  <2>1. NodeOK'
    <3>1. fails' \in [Obj -> 0 .. FailCap]
      <4>1. 0 \in 0 .. FailCap
        BY BoundAssumption
      <4> QED
        BY <1>3, <1>5, <4>1 DEF ResetFails
    <3> QED
      BY <1>3, <1>5, <3>1 DEF ResetFails, NodeOK
  <2>2. InsideOK'
    <3> DEFINE c == [crit EXCEPT !.at = "set_latency"]
    <3>1. c.at = "set_latency" /\ c.i = crit.i /\ c.best = crit.best
      BY <1>1 DEF Crit
    <3>2. c \in Crit
      BY <1>1 DEF Crit, MarkPoints
    <3>3. lock = t /\ Hold(t, c) /\ UNCHANGED list
      BY <1>5 DEF ResetFails
    <3> HIDE DEF c
    <3> QED
      BY <1>2, <3>1, <3>2, <3>3, HoldOK
  <2> QED
    BY <1>5, <2>1, <2>2, MarkFrame DEF ResetFails
<1>6. CASE SetLatency(t)
  <2>1. NodeOK'
    BY <1>1, <1>3, <1>6 DEF SetLatency, NodeOK, Crit
  <2>2. InsideOK'
    BY <1>6, ReleaseOK DEF SetLatency
  <2> QED
    BY <1>6, <2>1, <2>2, MarkFrame DEF SetLatency
<1>7. ASSUME NEW n, MarkFailure(t, n)
      PROVE  TypeOK'
  <2>1. PICK i \in FirstOf(n) :
           /\ fails' = [fails EXCEPT ![At(i)] = Bump(@)]
           /\ Hold(t, MarkAt("set_offline", i, 0)) \/ Release
    BY <1>7 DEF MarkFailure
  <2>2. i \in 1 .. Size
    BY DEF FirstOf
  <2>3. UNCHANGED <<list, alive, latency, mode, turn, held, sweep>> /\ Watch
    BY <1>7 DEF MarkFailure
  <2>4. NodeOK'
    <3>1. Bump(fails[At(i)]) \in 0 .. FailCap
      BY <1>1, <1>3, <2>2, BumpOK
    <3>2. fails' \in [Obj -> 0 .. FailCap]
      BY <1>3, <2>1, <3>1
    <3> QED
      BY <1>3, <2>3, <3>2 DEF NodeOK
  <2>5. InsideOK'
    <3>1. CASE Release
      BY <2>3, <3>1, ReleaseOK
    <3>2. CASE Hold(t, MarkAt("set_offline", i, 0))
      <4>1. "set_offline" \in MarkPoints
        BY DEF MarkPoints
      <4> QED
        BY <2>2, <2>3, <3>2, <4>1, MarkAtOK, HoldOK
    <3> QED
      BY <2>1, <3>1, <3>2
  <2> QED
    BY <2>3, <2>4, <2>5, MarkFrame
<1>8. ASSUME NEW n, NEW lat \in Latencies, MarkSuccess(t, n, lat)
      PROVE  TypeOK'
  <2>1. PICK i \in FirstOf(n) :
           /\ alive' = [alive EXCEPT ![At(i)] = TRUE]
           /\ Hold(t, MarkAt("reset_fails", i, lat))
    BY <1>8 DEF MarkSuccess
  <2>2. i \in 1 .. Size
    BY DEF FirstOf
  <2>3. UNCHANGED <<list, latency, fails, mode, turn, held, sweep>> /\ Watch
    BY <1>8 DEF MarkSuccess
  <2>4. NodeOK'
    BY <1>3, <2>1, <2>3 DEF NodeOK
  <2>5. InsideOK'
    <3>1. "reset_fails" \in MarkPoints
      BY DEF MarkPoints
    <3> QED
      BY <2>1, <2>2, <2>3, <3>1, MarkAtOK, HoldOK
  <2> QED
    BY <2>3, <2>4, <2>5, MarkFrame
<1>9. ASSUME NEW n, MarkUnlisted(t, n)
      PROVE  TypeOK'
  <2>1. UNCHANGED <<list, node, mode, turn, inside, held, sweep>> /\ Watch
    BY <1>9 DEF MarkUnlisted
  <2>2. NodeOK' /\ InsideOK'
    BY <2>1 DEF NodeOK, InsideOK, node, inside, list, Size, Pool
  <2> QED
    BY <2>1, <2>2, MarkFrame
<1> QED
  BY <1>4, <1>5, <1>6, <1>7, <1>8, <1>9 DEF MarkStep, MarkCall

-----------------------------------------------------------------------------
(* The steps of a health sweep. *)

\* What every step of a sweep leaves alone keeps its type.
LEMMA SweepFrame ==
  ASSUME TypeOK, NodeOK', SweepOK', UNCHANGED <<list, mode, turn, inside, held>>,
         Watch
  PROVE  TypeOK'
<1>1. ListOK' /\ HeldOK'
  BY DEF TypeOK, ListOK, HeldOK, list
<1>2. ModeOK'
  BY DEF TypeOK, ModeOK, mode, turn
<1>3. InsideOK'
  BY DEF TypeOK, InsideOK, inside, list, Size, Pool
<1>4. WindowOK'
  BY WatchOK DEF TypeOK
<1> QED
  BY <1>1, <1>2, <1>3, <1>4 DEF TypeOK

SweepRecord == [at : SweepPoints, gen : 0 .. MaxReloads,
                i : 0 .. MaxNodes, lat : Latencies \cup {-1}]

\* A sweep that moves to a program point within its copy of the vector.
LEMMA SweepMoveOK ==
  ASSUME SweepOK, ListOK, UNCHANGED list, NEW s \in Sweepers,
         NEW r \in SweepRecord, sweep' = [sweep EXCEPT ![s] = r],
         r.at # "idle" => r.gen <= gen /\ r.i \in 1 .. Len(names[r.gen])
  PROVE  SweepOK'
<1>1. sweep' \in [Sweepers -> SweepRecord]
  BY DEF SweepOK, SweepRecord
<1>2. ASSUME NEW u \in Sweepers, sweep'[u].at # "idle"
      PROVE  sweep'[u].gen <= gen' /\ sweep'[u].i \in 1 .. Len(names'[sweep'[u].gen])
  BY <1>2 DEF SweepOK, list
<1> QED
  BY <1>1, <1>2 DEF SweepOK, SweepRecord

LEMMA SweepTypeOK ==
  ASSUME TypeOK, NEW s \in Sweepers,
         \/ SweepBegin(s) \/ SweepStep(s)
         \/ \E lat \in Latencies \cup {-1} : Probe(s, lat)
  PROVE  TypeOK'
<1> USE DEF TypeOK
<1> DEFINE w == sweep[s]
<1>1. w \in SweepRecord
  BY DEF SweepOK, SweepRecord
<1>2. w.at # "idle" =>
         /\ w.gen \in 0 .. MaxReloads /\ w.gen <= gen
         /\ w.i \in 1 .. Len(names[w.gen])
  BY <1>1 DEF SweepOK, SweepRecord
<1>3. w.at # "idle" => SweepNode(s) \in Obj
  <2>1. ASSUME w.at # "idle" PROVE SweepNode(s) \in Obj
    <3>1. Len(names[w.gen]) \in Nat /\ Len(names[w.gen]) <= MaxNodes
      BY <1>2, <2>1 DEF ListOK
    <3>2. w.i \in 1 .. MaxNodes
      BY <1>2, <2>1, <3>1, BoundAssumption
    <3> QED
      BY <1>2, <2>1, <3>2 DEF SweepNode, Obj
  <2> QED
    BY <2>1
<1>4. /\ alive \in [Obj -> BOOLEAN]
      /\ latency \in [Obj -> Latencies \cup {-1, 0}]
      /\ fails \in [Obj -> 0 .. FailCap]
  BY DEF NodeOK
<1>5. CASE SweepBegin(s)
  <2> DEFINE r == [at |-> "probe", gen |-> gen, i |-> 1, lat |-> -1]
  <2>1. Size \in Nat /\ Size > 0 /\ Size <= MaxNodes
    BY <1>5, SizeOK DEF SweepBegin
  <2>2. r \in SweepRecord
    BY <2>1, BoundAssumption DEF SweepRecord, SweepPoints, ListOK
  <2>3. r.gen <= gen /\ r.i \in 1 .. Len(names[r.gen])
    BY <2>1 DEF Size, Pool, ListOK
  <2>4. UNCHANGED <<list, node, mode, turn, inside, held>> /\ Watch
    BY <1>5 DEF SweepBegin
  <2>5. sweep' = [sweep EXCEPT ![s] = r]
    BY <1>5 DEF SweepBegin
  <2> HIDE DEF r
  <2>6. SweepOK'
    BY <2>2, <2>3, <2>4, <2>5, SweepMoveOK
  <2>7. NodeOK'
    BY <2>4 DEF NodeOK, node
  <2> QED
    BY <2>4, <2>6, <2>7, SweepFrame
<1>6. ASSUME NEW lat \in Latencies \cup {-1}, Probe(s, lat)
      PROVE  TypeOK'
  <2> DEFINE r == [w EXCEPT !.at = "alive", !.lat = lat]
  <2>1. w.at = "probe" /\ sweep' = [sweep EXCEPT ![s] = r]
    BY <1>6 DEF Probe, SweepOK
  <2>2. r \in SweepRecord /\ r.gen = w.gen /\ r.i = w.i
    BY <1>1 DEF SweepRecord, SweepPoints
  <2>3. UNCHANGED <<list, node, mode, turn, inside, held>> /\ Watch
    BY <1>6 DEF Probe
  <2> HIDE DEF r
  <2>4. SweepOK'
    BY <1>2, <2>1, <2>2, <2>3, SweepMoveOK
  <2>5. NodeOK'
    BY <2>3 DEF NodeOK, node
  <2> QED
    BY <2>3, <2>4, <2>5, SweepFrame
<1>7. CASE SweepAlive(s)
  <2> DEFINE r == [w EXCEPT !.at = "latency"]
  <2>1. w.at = "alive" /\ sweep' = [sweep EXCEPT ![s] = r]
    BY <1>7 DEF SweepAlive, SweepOK
  <2>2. r \in SweepRecord /\ r.gen = w.gen /\ r.i = w.i
    BY <1>1 DEF SweepRecord, SweepPoints
  <2>3. UNCHANGED <<list, latency, fails, mode, turn, inside, held>> /\ Watch
    BY <1>7 DEF SweepAlive
  <2>4. NodeOK'
    <3> DEFINE b == w.lat >= 0
    <3>1. b \in BOOLEAN /\ alive' = [alive EXCEPT ![SweepNode(s)] = b]
      BY <1>7 DEF SweepAlive
    <3> HIDE DEF b
    <3> QED
      BY <1>4, <2>3, <3>1 DEF NodeOK
  <2> HIDE DEF r
  <2>5. SweepOK'
    BY <1>2, <2>1, <2>2, <2>3, SweepMoveOK
  <2> QED
    BY <2>3, <2>4, <2>5, SweepFrame
<1>8. CASE SweepLatency(s)
  <2> DEFINE r == [w EXCEPT !.at = "fails"]
  <2>1. w.at = "latency" /\ sweep' = [sweep EXCEPT ![s] = r]
    BY <1>8 DEF SweepLatency, SweepOK
  <2>2. r \in SweepRecord /\ r.gen = w.gen /\ r.i = w.i
    BY <1>1 DEF SweepRecord, SweepPoints
  <2>3. UNCHANGED <<list, alive, fails, mode, turn, inside, held>> /\ Watch
    BY <1>8 DEF SweepLatency
  <2>4. w.lat \in Latencies \cup {-1, 0}
    BY <1>1 DEF SweepRecord
  <2>5. NodeOK'
    BY <1>4, <1>8, <2>3, <2>4 DEF NodeOK, SweepLatency
  <2> HIDE DEF r
  <2>6. SweepOK'
    BY <1>2, <2>1, <2>2, <2>3, SweepMoveOK
  <2> QED
    BY <2>3, <2>5, <2>6, SweepFrame
<1>9. CASE SweepFails(s)
  <2> DEFINE k == IF w.lat >= 0 THEN 0 ELSE Bump(fails[SweepNode(s)])
             r == IF w.i < Len(names[w.gen])
                  THEN [w EXCEPT !.at = "probe", !.i = w.i + 1, !.lat = -1]
                  ELSE IdleSweep
  <2>1. /\ w.at = "fails" /\ sweep' = [sweep EXCEPT ![s] = r]
        /\ fails' = [fails EXCEPT ![SweepNode(s)] = k]
    <3>1. w.at = "fails" /\ fails' = [fails EXCEPT ![SweepNode(s)] = k]
      BY <1>9 DEF SweepFails
    <3>2. sweep' = [sweep EXCEPT ![s] = r]
      BY <1>9 DEF SweepFails
    <3> QED
      BY <3>1, <3>2
  <2>2. UNCHANGED <<list, alive, latency, mode, turn, inside, held>> /\ Watch
    BY <1>9 DEF SweepFails
  <2>3. k \in 0 .. FailCap
    BY <1>3, <1>4, <2>1, BumpOK, BoundAssumption
  <2> HIDE DEF k
  <2>4. NodeOK'
    BY <1>4, <2>1, <2>2, <2>3 DEF NodeOK
  <2>5. r \in SweepRecord /\ (r.at # "idle" =>
                                r.gen <= gen /\ r.i \in 1 .. Len(names[r.gen]))
    <3>1. Len(names[w.gen]) \in Nat /\ Len(names[w.gen]) <= MaxNodes
      BY <1>2, <2>1 DEF ListOK
    <3>2. CASE w.i < Len(names[w.gen])
      <4>1. w.i + 1 \in 1 .. Len(names[w.gen]) /\ w.i + 1 \in 0 .. MaxNodes
        BY <1>2, <2>1, <3>1, <3>2, BoundAssumption
      <4>2. r = [w EXCEPT !.at = "probe", !.i = w.i + 1, !.lat = -1]
        BY <3>2
      <4> HIDE DEF r
      <4>3. r.gen = w.gen /\ r.i = w.i + 1
        BY <1>1, <4>2 DEF SweepRecord
      <4>4. r \in SweepRecord
        BY <1>1, <4>1, <4>2 DEF SweepRecord, SweepPoints
      <4> QED
        BY <1>2, <2>1, <4>1, <4>3, <4>4
    <3>3. CASE ~(w.i < Len(names[w.gen]))
      BY <3>3, BoundAssumption DEF IdleSweep, SweepRecord, SweepPoints
    <3> QED
      BY <3>2, <3>3
  <2> HIDE DEF r
  <2>6. SweepOK'
    BY <2>1, <2>2, <2>5, SweepMoveOK
  <2> QED
    BY <2>2, <2>4, <2>6, SweepFrame
<1> QED
  BY <1>5, <1>6, <1>7, <1>8, <1>9 DEF SweepStep

-----------------------------------------------------------------------------
(* The operations of the console and the API, and the reload. *)

\* What every operation leaves alone keeps its type.
LEMMA OperateFrame ==
  ASSUME TypeOK, ModeOK', UNCHANGED <<list, node, inside, held, sweep>>, Watch
  PROVE  TypeOK'
<1>1. ListOK' /\ NodeOK' /\ HeldOK'
  BY DEF TypeOK, ListOK, NodeOK, HeldOK, list, node
<1>2. InsideOK'
  BY DEF TypeOK, InsideOK, inside, list, Size, Pool
<1>3. SweepOK'
  BY DEF TypeOK, SweepOK, list
<1>4. WindowOK'
  BY WatchOK DEF TypeOK
<1> QED
  BY <1>1, <1>2, <1>3, <1>4 DEF TypeOK

LEMMA ManualSelectTypeOK ==
  ASSUME TypeOK, NEW w \in Words, ManualSelect(w)
  PROVE  TypeOK'
<1> USE DEF TypeOK
<1>1. Size \in Nat /\ \A i \in 1 .. Size : Pool[i] \in Names
  BY SizeOK
<1>2. UNCHANGED <<list, node, strategy, turn, inside, held, sweep>> /\ Watch
  BY DEF ManualSelect
<1>3. FirstOf(w) \subseteq Nat /\ (FirstOf(w) # {} => w \in Names)
  BY <1>1 DEF FirstOf
<1>4. override' \in Names \cup {NoName}
  BY <1>1, <1>3 DEF ManualSelect, IsIndex
<1>5. pinned' \in Nat
  <2>1. LeadingNumber[w] \in Nat
    BY WordAssumption
  <2>2. Meant(w) \subseteq Nat
    BY <1>3, <2>1 DEF Meant
  <2> QED
    BY <2>2 DEF ManualSelect
<1>6. ModeOK'
  BY <1>2, <1>4, <1>5 DEF ModeOK, turn
<1> QED
  BY <1>2, <1>6, OperateFrame

LEMMA SetStrategyTypeOK ==
  ASSUME TypeOK, NEW st \in Strategies, SetStrategy(st)
  PROVE  TypeOK'
<1>1. UNCHANGED <<list, node, turn, inside, held, sweep>> /\ Watch
  BY DEF SetStrategy
<1>2. strategy' = st /\ override' = NoName /\ pinned' = 0
  BY DEF SetStrategy
<1>3. ModeOK'
  BY <1>1, <1>2 DEF TypeOK, ModeOK, turn
<1> QED
  BY <1>1, <1>3, OperateFrame

LEMMA ReloadTypeOK ==
  ASSUME TypeOK, NEW p \in Pools, NEW st \in Strategies, Reload(p, st)
  PROVE  TypeOK'
<1> USE DEF TypeOK
<1>1. gen \in Nat /\ gen + 1 \in 0 .. MaxReloads
  BY BoundAssumption DEF Reload, ListOK
<1>2. gen' = gen + 1 /\ names' = [names EXCEPT ![gen + 1] = p]
  BY DEF Reload
<1>3. p \in Seq(Names) /\ Len(p) <= MaxNodes
  BY PoolAssumption
<1>4. ListOK'
  BY <1>1, <1>2, <1>3 DEF ListOK
<1>5. NodeOK'
  <2>1. /\ alive \in [Obj -> BOOLEAN]
        /\ latency \in [Obj -> Latencies \cup {-1, 0}]
        /\ fails \in [Obj -> 0 .. FailCap]
    BY DEF NodeOK
  <2>2. alive' \in [Obj -> BOOLEAN]
    <3>1. \A o \in Obj : (IF o[1] = gen + 1 THEN TRUE ELSE alive[o]) \in BOOLEAN
      BY <2>1
    <3> QED
      BY <3>1 DEF Reload
  <2>3. latency' \in [Obj -> Latencies \cup {-1, 0}]
    BY <2>1 DEF Reload
  <2>4. fails' \in [Obj -> 0 .. FailCap]
    <3>1. \A o \in Obj : (IF o[1] = gen + 1 THEN 0 ELSE fails[o]) \in 0 .. FailCap
      BY <2>1, BoundAssumption
    <3> QED
      BY <3>1 DEF Reload
  <2> QED
    BY <2>2, <2>3, <2>4 DEF NodeOK
<1>6. ModeOK'
  <2>1. /\ strategy' = st /\ override' = override /\ pinned' = 0
        /\ rr' = rr /\ rrLast' = -1
    BY DEF Reload
  <2> QED
    BY <2>1, BoundAssumption DEF ModeOK
<1>7. lock = Free /\ UNCHANGED <<inside, held, sweep>> /\ Watch
  BY DEF Reload
<1>8. InsideOK'
  BY <1>4, <1>7, SizeOK DEF InsideOK, inside, Size, Pool
<1>9. HeldOK' /\ WindowOK'
  BY <1>7, WatchOK DEF HeldOK
<1>10. SweepOK'
  <2>1. \A g \in 0 .. MaxReloads : g <= gen => names'[g] = names[g]
    BY <1>1, <1>2 DEF ListOK
  <2>2. ASSUME NEW u \in Sweepers, sweep[u].at # "idle"
        PROVE  /\ sweep[u].gen <= gen'
               /\ sweep[u].i \in 1 .. Len(names'[sweep[u].gen])
    BY <1>1, <1>2, <2>1, <2>2 DEF SweepOK
  <2> QED
    BY <1>7, <2>2 DEF SweepOK
<1> QED
  BY <1>4, <1>5, <1>6, <1>8, <1>9, <1>10

LEMMA TypeStep ==
  ASSUME TypeOK, [PoolNext]_poolVars
  PROVE  TypeOK'
<1>1. CASE UNCHANGED poolVars
  BY <1>1 DEF poolVars, list, node, mode, turn, inside, TypeOK, ListOK, NodeOK,
              ModeOK, InsideOK, HeldOK, SweepOK, WindowOK, Size, Pool
<1>2. CASE PoolNext
  BY <1>2, CallTypeOK, MarkTypeOK, SweepTypeOK, ManualSelectTypeOK,
     SetStrategyTypeOK, ReloadTypeOK DEF PoolNext
<1> QED
  BY <1>1, <1>2

\* The type invariant holds in every reachable state of the pool, for any
\* number of nodes, callers, sweeps and reloads: no scan reads past the
\* vector and no sweep past the copy it walks.
THEOREM TypeCorrect == PoolSpec => []TypeOK
<1>1. PoolInit => TypeOK
  BY InitTypeOK
<1>2. TypeOK /\ [PoolNext]_poolVars => TypeOK'
  BY TypeStep
<1> QED
  BY <1>1, <1>2, PTL DEF PoolSpec
-----------------------------------------------------------------------------
(* The breaker: how many failures a node that is online can have.          *)

\* Sweeps that have found node o silent and have not counted it yet, sweeps
\* that have found it answering, and whether a caller is half-way in a mark.
Failing(o) == {s \in Sweepers : /\ sweep[s].at \in {"latency", "fails"}
                                /\ SweepNode(s) = o /\ sweep[s].lat < 0}
Answered(o) == \E s \in Sweepers : /\ sweep[s].at \in {"latency", "fails"}
                                   /\ SweepNode(s) = o /\ sweep[s].lat >= 0
Marking(o) == lock # Free /\ crit.at \in {"reset_fails", "set_offline"} /\ At(crit.i) = o

\* A node that is online has at most one failure more than there are sweeps,
\* counting those the sweeps have still to add; unless a store that settles
\* it is on its way: a reset of the counter, or `alive` to FALSE.
Bounded(o) == alive[o] => \/ Answered(o) \/ Marking(o)
                          \/ fails[o] + Cardinality(Failing(o)) <= 1 + Cardinality(Sweepers)
OverrunInv == \A o \in Obj : Bounded(o)

LEMMA FailingFinite ==
  ASSUME IsFiniteSet(Sweepers), NEW o
  PROVE  /\ IsFiniteSet(Failing(o)) /\ Cardinality(Sweepers) \in Nat
         /\ Cardinality(Failing(o)) \in Nat
         /\ Cardinality(Failing(o)) <= Cardinality(Sweepers)
<1>1. Failing(o) \in SUBSET Sweepers
  BY DEF Failing
<1> QED
  BY <1>1, FS_Subset, FS_CardinalityType

\* A step that neither counts a failure nor stores in `alive`, and moves no
\* sweep or mark, leaves the bound.
LEMMA BoundedKept ==
  ASSUME NEW o, Bounded(o), alive'[o] => alive[o], fails'[o] = fails[o],
         UNCHANGED sweep, Marking(o) => Marking(o)'
  PROVE  Bounded(o)'
<1>1. Failing(o)' = Failing(o) /\ (Answered(o)' <=> Answered(o))
  BY DEF Failing, Answered, SweepNode
<1> QED
  BY <1>1 DEF Bounded

\* With at most one failure counted, the bound holds whatever the sweeps do.
LEMMA BoundedByOne ==
  ASSUME IsFiniteSet(Sweepers), NEW o, fails'[o] \in {0, 1}
  PROVE  Bounded(o)'
<1>1. /\ Cardinality(Failing(o)') \in Nat /\ Cardinality(Sweepers) \in Nat
      /\ Cardinality(Failing(o)') <= Cardinality(Sweepers)
  <2>1. Failing(o)' \in SUBSET Sweepers
    BY DEF Failing
  <2> QED
    BY <2>1, FS_Subset, FS_CardinalityType
<1> DEFINE n == Cardinality(Sweepers)
           k == Cardinality(Failing(o)')
           f == fails'[o]
<1>2. n \in Nat /\ k \in Nat /\ k <= n /\ f \in {0, 1}
  BY <1>1
<1> HIDE DEF n, k, f
<1>3. f + k <= 1 + n
  BY <1>2
<1> QED
  BY <1>3 DEF Bounded, n, k, f

LEMMA OverrunOfMarks ==
  ASSUME TypeOK, OverrunInv, IsFiniteSet(Sweepers), NEW t \in Callers, MarkStep(t) \/ MarkCall(t)
  PROVE  OverrunInv'
<1> SUFFICES ASSUME NEW o \in Obj PROVE Bounded(o)'
  BY DEF OverrunInv
<1>1. /\ Bounded(o) /\ t # Free /\ list' = list /\ sweep' = sweep
      /\ \A i \in 1 .. Size : At(i) \in Obj /\ At(i)' = At(i)
  BY SizeOK, ValueAssumption DEF OverrunInv, TypeOK, MarkStep, SetOffline, ResetFails, SetLatency,
     MarkCall, MarkFailure, MarkSuccess, MarkUnlisted, list, At
<1>2. /\ alive \in [Obj -> BOOLEAN] /\ fails \in [Obj -> 0 .. FailCap] /\ FailCap \in Nat
      /\ lock = t => crit.i \in 1 .. Size
      /\ DOMAIN crit = {"at", "i", "best", "ms"}
  BY <1>1, BoundAssumption DEF TypeOK, NodeOK, InsideOK
<1>3. ASSUME NEW n, MarkFailure(t, n) PROVE Bounded(o)'
  <2>1. PICK i \in FirstOf(n) :
           /\ fails' = [fails EXCEPT ![At(i)] = Bump(@)]
           /\ \/ Bump(fails[At(i)]) >= 2 /\ Hold(t, MarkAt("set_offline", i, 0))
              \/ Bump(fails[At(i)]) < 2 /\ Release
    BY <1>3 DEF MarkFailure
  <2>2. i \in 1 .. Size /\ At(i) \in Obj /\ At(i)' = At(i) /\ alive' = alive /\ lock = Free
    BY <1>1, <1>3, <2>1 DEF FirstOf, MarkFailure
  <2>3. CASE o # At(i)
    BY <1>1, <1>2, <2>1, <2>2, <2>3, BoundedKept DEF Marking
  <2>4. CASE o = At(i) /\ Bump(fails[At(i)]) < 2
    <3>1. fails'[o] \in {0, 1}
      BY <1>2, <2>1, <2>2, <2>4 DEF Bump
    <3> QED
      BY <3>1, BoundedByOne
  <2>5. CASE o = At(i) /\ Bump(fails[At(i)]) >= 2
    <3>1. lock' = t /\ crit'.at = "set_offline" /\ crit'.i = i
      BY <1>2, <2>1, <2>2, <2>5 DEF Hold, MarkAt, Bump
    <3> QED
      BY <1>1, <2>2, <2>5, <3>1 DEF Bounded, Marking, At, list
  <2>6. Bump(fails[At(i)]) \in Nat
    BY <1>2, <2>2 DEF Bump
  <2> QED
    BY <2>3, <2>4, <2>5, <2>6
<1>4. ASSUME NEW n, NEW lat, MarkSuccess(t, n, lat) PROVE Bounded(o)'
  <2>1. PICK i \in FirstOf(n) : alive' = [alive EXCEPT ![At(i)] = TRUE]
                                /\ Hold(t, MarkAt("reset_fails", i, lat))
    BY <1>4 DEF MarkSuccess
  <2>2. i \in 1 .. Size /\ At(i) \in Obj /\ fails' = fails /\ lock = Free
    BY <1>1, <1>4, <2>1 DEF FirstOf, MarkSuccess
  <2>3. CASE o # At(i)
    BY <1>1, <1>2, <2>1, <2>2, <2>3, BoundedKept DEF Marking
  <2>4. CASE o = At(i)
    <3>1. lock' = t /\ crit'.at = "reset_fails" /\ crit'.i = i
      BY <2>1 DEF Hold, MarkAt
    <3> QED
      BY <1>1, <2>2, <2>4, <3>1 DEF Bounded, Marking, At, list
  <2> QED
    BY <2>3, <2>4
<1>5. CASE SetOffline(t)
  <2>1. /\ lock = t /\ crit.at = "set_offline" /\ alive' = [alive EXCEPT ![At(crit.i)] = FALSE]
        /\ fails' = fails /\ At(crit.i) \in Obj
    BY <1>1, <1>2, <1>5 DEF SetOffline
  <2>2. CASE o = At(crit.i)
    BY <1>2, <2>1, <2>2 DEF Bounded
  <2>3. CASE o # At(crit.i)
    BY <1>1, <1>2, <2>1, <2>3, BoundedKept DEF Marking
  <2> QED
    BY <2>2, <2>3
<1>6. CASE ResetFails(t)
  <2>1. /\ lock = t /\ crit.at = "reset_fails" /\ fails' = [fails EXCEPT ![At(crit.i)] = 0]
        /\ alive' = alive /\ At(crit.i) \in Obj
    BY <1>1, <1>2, <1>6 DEF ResetFails
  <2>2. CASE o = At(crit.i)
    BY <1>2, <2>1, <2>2, BoundedByOne
  <2>3. CASE o # At(crit.i)
    BY <1>1, <1>2, <2>1, <2>3, BoundedKept DEF Marking
  <2> QED
    BY <2>2, <2>3
<1>7. CASE SetLatency(t)
  <2>1. lock = t /\ crit.at = "set_latency" /\ fails' = fails /\ alive' = alive
    BY <1>7 DEF SetLatency
  <2> QED
    BY <1>1, <2>1, BoundedKept DEF Marking
<1>8. ASSUME NEW n, MarkUnlisted(t, n) PROVE Bounded(o)'
  <2>1. lock = Free /\ fails' = fails /\ alive' = alive
    BY <1>8 DEF MarkUnlisted, node
  <2> QED
    BY <1>1, <2>1, BoundedKept DEF Marking
<1> QED
  BY <1>3, <1>4, <1>5, <1>6, <1>7, <1>8 DEF MarkStep, MarkCall

LEMMA OverrunOfSweeps ==
  ASSUME TypeOK, OverrunInv, IsFiniteSet(Sweepers), NEW s \in Sweepers,
         \/ SweepBegin(s) \/ SweepStep(s)
         \/ \E lat \in Latencies \cup {-1} : Probe(s, lat)
  PROVE  OverrunInv'
<1> SUFFICES ASSUME NEW o \in Obj PROVE Bounded(o)'
  BY DEF OverrunInv
<1>1. /\ Bounded(o) /\ UNCHANGED <<list, inside>>
      /\ \A u \in Sweepers \ {s} : sweep'[u] = sweep[u]
  BY DEF OverrunInv, TypeOK, SweepOK, SweepBegin, SweepStep, SweepAlive, SweepLatency, SweepFails, Probe
<1>2. /\ alive \in [Obj -> BOOLEAN] /\ fails \in [Obj -> 0 .. FailCap] /\ FailCap \in Nat
      /\ \A u \in Sweepers : sweep[u].lat \in Int /\ DOMAIN sweep[u] = {"at", "gen", "i", "lat"}
      /\ DOMAIN sweep = Sweepers
  <2>1. alive \in [Obj -> BOOLEAN] /\ fails \in [Obj -> 0 .. FailCap] /\ FailCap \in Nat
    BY BoundAssumption DEF TypeOK, NodeOK
  <2>2. sweep \in [Sweepers -> [at : SweepPoints, gen : 0 .. MaxReloads,
                               i : 0 .. MaxNodes, lat : Latencies \cup {-1}]]
    BY DEF TypeOK, SweepOK
  <2>3. Latencies \cup {-1} \subseteq Int
    BY ValueAssumption
  <2> QED
    BY <2>1, <2>2, <2>3
<1>3. Marking(o)' <=> Marking(o)
  BY <1>1 DEF Marking, At, list, inside
<1>4. \A u \in Sweepers \ {s} : SweepNode(u)' = SweepNode(u)
  BY <1>1 DEF SweepNode
<1>5. CASE sweep[s].at \notin {"latency", "fails"} /\ sweep'[s].at \notin {"latency", "fails"}
  <2>1. UNCHANGED <<alive, fails>>
    BY <1>2, <1>5 DEF SweepBegin, SweepStep, SweepAlive, SweepLatency, SweepFails, Probe, node
  <2>2. Failing(o)' = Failing(o) /\ (Answered(o)' <=> Answered(o))
    BY <1>1, <1>4, <1>5 DEF Failing, Answered
  <2> QED
    BY <1>1, <1>3, <2>1, <2>2 DEF Bounded
<1>6. CASE SweepBegin(s) \/ \E lat \in Latencies \cup {-1} : Probe(s, lat)
  BY <1>2, <1>5, <1>6 DEF SweepBegin, Probe
<1>7. CASE SweepAlive(s)
  <2>1. /\ sweep[s].at = "alive" /\ fails' = fails
        /\ alive' = [alive EXCEPT ![SweepNode(s)] = (sweep[s].lat >= 0)]
        /\ sweep'[s].at = "latency" /\ sweep'[s].lat = sweep[s].lat /\ SweepNode(s)' = SweepNode(s)
    BY <1>2, <1>7 DEF SweepAlive, SweepNode
  <2>2. CASE o = SweepNode(s) /\ sweep[s].lat >= 0
    <3>1. Answered(o)'
      BY <2>1, <2>2 DEF Answered
    <3> QED
      BY <3>1 DEF Bounded
  <2>3. CASE o = SweepNode(s) /\ ~(sweep[s].lat >= 0)
    <3>1. ~alive'[o]
      BY <1>2, <2>1, <2>3
    <3> QED
      BY <3>1 DEF Bounded
  <2>4. CASE o # SweepNode(s)
    <3>1. Failing(o)' = Failing(o) /\ (Answered(o)' <=> Answered(o))
      BY <1>1, <1>4, <2>1, <2>4 DEF Failing, Answered
    <3>2. alive'[o] = alive[o]
      BY <1>2, <2>1, <2>4
    <3> QED
      BY <1>1, <1>3, <2>1, <3>1, <3>2 DEF Bounded
  <2> QED
    BY <2>2, <2>3, <2>4
<1>8. CASE SweepLatency(s)
  <2>1. /\ sweep[s].at = "latency" /\ UNCHANGED <<alive, fails>>
        /\ sweep'[s].at = "fails" /\ sweep'[s].lat = sweep[s].lat /\ SweepNode(s)' = SweepNode(s)
    BY <1>2, <1>8 DEF SweepLatency, SweepNode
  <2>2. Failing(o)' = Failing(o) /\ (Answered(o)' <=> Answered(o))
    BY <1>1, <1>4, <2>1 DEF Failing, Answered
  <2> QED
    BY <1>1, <1>3, <2>1, <2>2 DEF Bounded
<1>9. CASE SweepFails(s)
  <2> DEFINE more == sweep[s].i < Len(names[sweep[s].gen])
  <2>1. /\ sweep[s].at = "fails" /\ alive' = alive
        /\ fails' = [fails EXCEPT ![SweepNode(s)] = IF sweep[s].lat >= 0 THEN 0 ELSE Bump(@)]
        /\ sweep'[s].at \in {"probe", "idle"}
    BY <1>2, <1>9 DEF SweepFails, IdleSweep
  <2>2. CASE o # SweepNode(s)
    <3>1. Failing(o)' = Failing(o) /\ (Answered(o)' <=> Answered(o))
      BY <1>1, <1>4, <2>1, <2>2 DEF Failing, Answered
    <3>2. fails'[o] = fails[o]
      BY <1>2, <2>1, <2>2
    <3> QED
      BY <1>1, <1>3, <2>1, <3>1, <3>2 DEF Bounded
  <2>3. CASE o = SweepNode(s) /\ sweep[s].lat >= 0
    BY <1>2, <2>1, <2>3, BoundedByOne
  <2>4. CASE o = SweepNode(s) /\ sweep[s].lat < 0
    <3>1. Failing(o)' = Failing(o) \ {s} /\ s \in Failing(o) /\ (Answered(o)' <=> Answered(o))
      BY <1>1, <1>2, <1>4, <2>1, <2>4 DEF Failing, Answered
    <3> DEFINE n == Cardinality(Sweepers)
               k == Cardinality(Failing(o))
               m == Cardinality(Failing(o)')
               f == fails[o]
               g == fails'[o]
    <3>2. m = k - 1 /\ k \in Nat /\ n \in Nat
      BY <3>1, FailingFinite, FS_RemoveElement
    <3>3. f \in Nat /\ g \in Nat /\ g <= f + 1
      BY <1>2, <2>1, <2>4 DEF Bump
    <3> HIDE DEF n, k, m, f, g
    <3>4. f + k <= 1 + n => g + m <= 1 + n
      BY <3>2, <3>3
    <3>5. alive[o] => Answered(o) \/ Marking(o) \/ f + k <= 1 + n
      BY <1>1 DEF Bounded, f, k, n
    <3>6. alive'[o] => Answered(o)' \/ Marking(o)' \/ g + m <= 1 + n
      BY <1>3, <2>1, <3>1, <3>4, <3>5
    <3> QED
      BY <3>6 DEF Bounded, g, m, n
  <2> QED
    BY <1>2, <2>2, <2>3, <2>4
<1> QED
  BY <1>6, <1>7, <1>8, <1>9 DEF SweepStep

LEMMA OverrunOfReload ==
  ASSUME TypeOK, OverrunInv, IsFiniteSet(Sweepers), NEW p, NEW st, Reload(p, st)
  PROVE  OverrunInv'
<1> SUFFICES ASSUME NEW o \in Obj PROVE Bounded(o)'
  BY DEF OverrunInv
<1>1. Bounded(o) /\ lock = Free /\ UNCHANGED sweep
  BY DEF OverrunInv, Reload
<1>2. CASE o[1] = gen + 1
  <2>1. fails'[o] = 0
    BY <1>2 DEF Reload
  <2> QED
    BY <2>1, BoundedByOne
<1>3. CASE o[1] # gen + 1
  <2>1. alive'[o] = alive[o] /\ fails'[o] = fails[o]
    BY <1>3 DEF Reload
  <2> QED
    BY <1>1, <2>1, BoundedKept DEF Marking
<1> QED
  BY <1>2, <1>3

LEMMA OverrunStep ==
  ASSUME TypeOK, OverrunInv, IsFiniteSet(Sweepers), [PoolNext]_poolVars
  PROVE  OverrunInv'
<1>1. ASSUME UNCHANGED <<list, alive, fails, sweep>>,
             \/ UNCHANGED inside
             \/ lock = Free
             \/ crit.at \in ScanPoints
      PROVE  OverrunInv'
  BY <1>1, BoundedKept DEF OverrunInv, Marking, ScanPoints, inside, list, At
<1>2. ASSUME NEW t \in Callers, CallStep(t) PROVE OverrunInv'
  BY <1>1, <1>2 DEF CallStep, SelectNode, ScanOverride, ScanBestAlive, ScanBestLatency, ScanRoundRobin,
     ScanFailover, ScanPoints, node
<1>3. ASSUME NEW w, ManualSelect(w) PROVE OverrunInv'
  BY <1>1, <1>3 DEF ManualSelect, node
<1>4. ASSUME NEW st, SetStrategy(st) PROVE OverrunInv'
  BY <1>1, <1>4 DEF SetStrategy, node
<1>5. CASE UNCHANGED poolVars
  BY <1>1, <1>5 DEF poolVars, node, list, inside
<1> QED
  BY <1>2, <1>3, <1>4, <1>5, OverrunOfMarks, OverrunOfSweeps, OverrunOfReload DEF PoolNext

\* mark_node_* stops at two failures, but the sweeps count theirs store by
\* store: with n sweeps, a node that is online and of which no store is in
\* flight never has more than n + 1, however many callers mark it, and
\* whatever vectors replace the one it is in.
THEOREM OverrunBoundCorrect ==
  ASSUME IsFiniteSet(Sweepers)
  PROVE  PoolSpec => []OverrunBound
<1>1. PoolInit => OverrunInv
  <2> SUFFICES ASSUME PoolInit, NEW o \in Obj PROVE Bounded(o)
    BY DEF OverrunInv
  <2>1. fails[o] = 0
    BY DEF PoolInit
  <2> DEFINE n == Cardinality(Sweepers)
             k == Cardinality(Failing(o))
  <2>2. n \in Nat /\ k \in Nat /\ k <= n
    BY FailingFinite
  <2> HIDE DEF n, k
  <2>3. 0 + k <= 1 + n
    BY <2>2
  <2> QED
    BY <2>1, <2>3 DEF Bounded, n, k
<1>2. TypeOK /\ OverrunInv /\ [PoolNext]_poolVars => OverrunInv'
  BY OverrunStep
<1>3. TypeOK /\ OverrunInv => OverrunBound
  <2> SUFFICES ASSUME TypeOK, OverrunInv, NEW o \in Obj, Settled(o), alive[o]
               PROVE  fails[o] <= 1 + Cardinality(Sweepers)
    BY DEF OverrunBound
  <2>1. Failing(o) = {} /\ ~Answered(o) /\ ~Marking(o)
    BY DEF Settled, Failing, Answered, Marking
  <2>2. fails[o] + Cardinality(Failing(o)) <= 1 + Cardinality(Sweepers)
    BY <2>1 DEF OverrunInv, Bounded
  <2>3. Cardinality(Failing(o)) = 0 /\ fails[o] \in Int
    BY <2>1, FS_EmptySet DEF TypeOK, NodeOK
  <2> QED
    BY <2>2, <2>3
<1> QED
  BY <1>1, <1>2, <1>3, TypeCorrect, PTL DEF PoolSpec

(***************************************************************************)
(* What select_node promises, for all values of the constants: the         *)
(* inductive invariant ScanInv and the action properties that follow.      *)
(***************************************************************************)

(* A step that leaves the critical section establishes ScanInv'.           *)
LEMMA FreeScanInv ==
  ASSUME lock' = Free, crit' = OutOfLock
  PROVE  ScanInv'
<1>1. crit'.at = "out"
  BY DEF OutOfLock
<1> QED
  BY <1>1 DEF ScanInv, Seen, OverridePassed, FailoverPassed, BestPassed,
              ScanPoints

(* While the mutex is held the window only grows, and it holds every       *)
(* object in its new state.                                                *)
LEMMA WindowGrows ==
  ASSUME Watch, lock' # Free
  PROVE  /\ wasDown \subseteq wasDown' /\ wasUp \subseteq wasUp'
         /\ moved \subseteq moved'
         /\ \A o \in Obj : latency'[o] # latency[o] => o \in moved'
         /\ Seen'
BY DEF Watch, Seen

(* A step of somebody else: the scan stays where it is.                    *)
LEMMA StayScanInv ==
  ASSUME TypeOK, ScanInv, UNCHANGED <<list, override, inside>>, Watch
  PROVE  ScanInv'
<1>1. Size' = Size /\ Pool' = Pool /\ crit' = crit /\ lock' = lock
      /\ override' = override /\ \A i : At(i)' = At(i)
  BY DEF list, inside, Size, Pool, At
<1>2. CASE lock = Free
  <2>1. crit = OutOfLock
    BY <1>2 DEF TypeOK, InsideOK
  <2> QED
    BY <1>1, <1>2, <2>1, FreeScanInv
<1>3. CASE lock # Free
  <2>1. /\ wasDown \subseteq wasDown' /\ wasUp \subseteq wasUp'
        /\ moved \subseteq moved'
        /\ \A o \in Obj : latency'[o] # latency[o] => o \in moved'
        /\ Seen'
    BY <1>1, <1>3, WindowGrows
  <2>2. OverridePassed'
    BY <1>1, <2>1 DEF ScanInv, OverridePassed
  <2>3. FailoverPassed'
    BY <1>1, <2>1 DEF ScanInv, FailoverPassed
  <2>4. BestPassed'
    <3> SUFFICES ASSUME crit.at \in {"best_alive", "best_latency"}
                 PROVE  BestPassed'
      BY <1>1 DEF BestPassed
    <3>1. /\ crit.i \in 1 .. Size /\ Size \in Nat
          /\ crit.best \in 0 .. Size
          /\ \A i \in 1 .. Size : At(i) \in Obj
      BY <1>3, SizeOK DEF TypeOK, InsideOK
    <3>2. BestPassed
      BY DEF ScanInv
    <3>3. crit.at = "best_latency" => At(crit.i) \in wasUp'
      BY <2>1, <3>2 DEF BestPassed
    <3>4. crit.best # 0 =>
             /\ At(crit.best) \in wasUp'
             /\ At(crit.best) \in moved' \/ latency'[At(crit.best)] = crit.ms
      BY <2>1, <3>1, <3>2 DEF BestPassed
    <3>5. ASSUME NEW j \in 1 .. crit.i - 1
          PROVE  \/ At(j) \in wasDown' \cup moved' \/ latency'[At(j)] < 0
                 \/ crit.best # 0 /\ crit.ms <= latency'[At(j)]
      <4>1. At(j) \in Obj
        BY <3>1
      <4> QED
        BY <2>1, <3>2, <4>1 DEF BestPassed
    <3> QED
      BY <1>1, <3>3, <3>4, <3>5 DEF BestPassed
  <2> QED
    BY <2>1, <2>2, <2>3, <2>4 DEF ScanInv
<1> QED
  BY <1>2, <1>3

(* Starting the scan of a strategy, once the override is out of the way.   *)
LEMMA StartScanInv ==
  ASSUME TypeOK, NEW t \in Callers, GoOn(t, StrategyScan),
         UNCHANGED <<list, override>>, Watch,
         override # NoName =>
            \A j \in 1 .. Size : Pool[j] = override => At(j) \in wasDown'
  PROVE  ScanInv'
<1>1. lock' = t /\ t # Free /\ crit' = StrategyScan
  BY ValueAssumption DEF GoOn, Hold
<1>2. Size' = Size /\ Pool' = Pool /\ override' = override
      /\ \A i : At(i)' = At(i)
  BY DEF list, Size, Pool, At
<1>3. /\ crit'.at \in {"best_alive", "round_robin", "failover"}
      /\ crit'.i = 1 /\ crit'.best = 0
  BY <1>1 DEF StrategyScan, ScanAt
<1>4. Seen'
  BY <1>1, WindowGrows
<1>5. OverridePassed'
  BY <1>2 DEF OverridePassed
<1>6. FailoverPassed' /\ BestPassed'
  BY <1>3 DEF FailoverPassed, BestPassed
<1> QED
  BY <1>4, <1>5, <1>6 DEF ScanInv

(* Going on, or falling back, to the failover scan.                        *)
LEMMA FailoverScanInv ==
  ASSUME TypeOK, ScanInv, NEW t \in Callers, lock = t,
         crit.at \in ScanPoints, crit.at # "override",
         NEW k \in Nat, GoOn(t, ScanAt("failover", k)),
         \A j \in 1 .. k - 1 : At(j) \in wasDown',
         UNCHANGED <<list, override>>, Watch
  PROVE  ScanInv'
<1>1. lock' = t /\ t # Free /\ crit' = ScanAt("failover", k)
  BY ValueAssumption DEF GoOn, Hold
<1>2. Size' = Size /\ Pool' = Pool /\ override' = override
      /\ \A i : At(i)' = At(i)
  BY DEF list, Size, Pool, At
<1>3. crit'.at = "failover" /\ crit'.i = k
  BY <1>1 DEF ScanAt
<1>4. Seen' /\ wasDown \subseteq wasDown'
  BY <1>1, WindowGrows
<1>5. OverridePassed'
  BY <1>2, <1>3, <1>4 DEF ScanInv, OverridePassed
<1>6. FailoverPassed' /\ BestPassed'
  BY <1>2, <1>3 DEF FailoverPassed, BestPassed
<1> QED
  BY <1>4, <1>5, <1>6 DEF ScanInv

(* The end of an iteration of the BEST_LATENCY loop, with the best so far. *)
LEMMA NextBestScanInv ==
  ASSUME TypeOK, ScanInv, NEW t \in Callers, lock = t, NEW c \in Crit,
         crit.at \in {"best_alive", "best_latency"}, c.best \in 0 .. Size,
         NextBest(t, c), UNCHANGED <<list, node, override>>, Watch,
         c.best # 0 =>
            /\ At(c.best) \in wasUp
            /\ At(c.best) \in moved \/ latency[At(c.best)] = c.ms,
         \A j \in 1 .. crit.i :
            \/ At(j) \in wasDown \cup moved \/ latency[At(j)] < 0
            \/ c.best # 0 /\ c.ms <= latency[At(j)],
         c.best = 0 => \A j \in 1 .. crit.i : At(j) \in wasDown \cup moved
                                              \/ latency[At(j)] < 0
  PROVE  ScanInv'
<1>1. t # Free /\ crit.i \in 1 .. Size /\ Size \in Nat
  BY ValueAssumption, SizeOK DEF TypeOK, InsideOK
<1>2. Size' = Size /\ Pool' = Pool /\ override' = override
      /\ latency' = latency /\ \A i : At(i)' = At(i)
  BY DEF list, node, Size, Pool, At
<1>3. CASE /\ crit.i < Size
           /\ GoOn(t, [c EXCEPT !.at = "best_alive", !.i = crit.i + 1])
  <2>1. lock' = t /\ crit'.at = "best_alive" /\ crit'.i = crit.i + 1
        /\ crit'.best = c.best /\ crit'.ms = c.ms
    BY <1>3 DEF GoOn, Hold, Crit
  <2>2. /\ wasDown \subseteq wasDown' /\ wasUp \subseteq wasUp'
        /\ moved \subseteq moved' /\ Seen'
    BY <1>1, <2>1, WindowGrows
  <2>3. OverridePassed'
    BY <1>2, <2>1, <2>2 DEF ScanInv, OverridePassed, ScanPoints
  <2>4. FailoverPassed'
    BY <2>1 DEF FailoverPassed
  <2>5. 1 .. crit'.i - 1 = 1 .. crit.i
    BY <1>1, <2>1
  <2>6. BestPassed'
    BY <1>2, <2>1, <2>2, <2>5 DEF BestPassed
  <2> QED
    BY <2>2, <2>3, <2>4, <2>6 DEF ScanInv
<1>4. CASE \E o \in Obj \cup {NoNode} : Return(t, o)
  BY <1>4, FreeScanInv DEF Return, Release
<1>5. CASE GoOn(t, ScanAt("failover", 1))
  <2>1. \A j \in 1 .. 1 - 1 : At(j) \in wasDown'
    OBVIOUS
  <2>2. crit.at \in ScanPoints /\ crit.at # "override"
    BY DEF ScanPoints
  <2> QED
    BY <1>5, <2>1, <2>2, FailoverScanInv
<1>6. c.best # 0 => At(c.best) \in Obj
  BY SizeOK DEF TypeOK
<1> QED
  BY <1>3, <1>4, <1>5, <1>6 DEF NextBest

LEMMA CallScanInv ==
  ASSUME TypeOK, ScanInv, NEW t \in Callers, CallStep(t)
  PROVE  ScanInv'
<1>1. Size \in Nat /\ \A i \in 1 .. Size : At(i) \in Obj
  BY SizeOK DEF TypeOK
<1>2. t # Free /\ (lock = t => crit.i \in 1 .. Size /\ crit.best \in 0 .. Size)
  BY <1>1, ValueAssumption DEF TypeOK, InsideOK
<1>3. crit \in Crit
  BY DEF TypeOK, InsideOK, Crit
<1>4. ASSUME NEW o, Return(t, o)
      PROVE  ScanInv'
  BY <1>4, FreeScanInv DEF Return, Release
<1>5. lock = t => \A o \in Obj : o \in (IF alive[o] THEN wasUp ELSE wasDown)
  BY <1>2 DEF ScanInv, Seen
<1>6. CASE SelectNode(t)
  <2>1. UNCHANGED <<list, override>> /\ Watch
    BY <1>6 DEF SelectNode, mode
  <2>2. CASE Return(t, NoNode)
    BY <1>4, <2>2
  <2>3. CASE override # NoName /\ GoOn(t, ScanAt("override", 1))
    <3>1. lock' = t /\ crit'.at = "override" /\ crit'.i = 1
      BY <2>3 DEF GoOn, Hold, ScanAt
    <3>2. Seen'
      BY <1>2, <2>1, <3>1, WindowGrows
    <3>3. OverridePassed' /\ FailoverPassed' /\ BestPassed'
      BY <3>1 DEF OverridePassed, FailoverPassed, BestPassed
    <3> QED
      BY <3>2, <3>3 DEF ScanInv
  <2>4. CASE override = NoName /\ GoOn(t, StrategyScan)
    BY <2>1, <2>4, StartScanInv
  <2> QED
    BY <1>6, <2>2, <2>3, <2>4 DEF SelectNode
<1>7. CASE ScanOverride(t)
  <2> DEFINE hit == Pool[crit.i] = override /\ alive[At(crit.i)]
  <2>1. /\ lock = t /\ crit.at = "override"
        /\ UNCHANGED <<list, node, override>> /\ Watch
    BY <1>7 DEF ScanOverride, mode
  <2>2. \/ Return(t, At(crit.i))
        \/ ~hit /\ crit.i < Size /\ GoOn(t, ScanAt("override", crit.i + 1))
        \/ ~hit /\ crit.i = Size /\ GoOn(t, StrategyScan)
    BY <1>7 DEF ScanOverride
  <2>3. CASE Return(t, At(crit.i))
    BY <1>4, <2>3
  <2>4. ASSUME ~hit, lock' # Free, override # NoName
        PROVE  \A j \in 1 .. crit.i : Pool[j] = override => At(j) \in wasDown'
    <3>1. wasDown \subseteq wasDown'
      BY <2>1, <2>4, WindowGrows
    <3>2. \A j \in 1 .. crit.i - 1 : Pool[j] = override => At(j) \in wasDown
      BY <1>1, <1>2, <2>1, <2>4 DEF ScanInv, OverridePassed, ScanPoints
    <3>3. Pool[crit.i] = override => At(crit.i) \in wasDown
      BY <1>1, <1>2, <1>5, <2>1, <2>4
    <3> QED
      BY <1>2, <2>1, <3>1, <3>2, <3>3
  <2>5. CASE ~hit /\ crit.i < Size /\ GoOn(t, ScanAt("override", crit.i + 1))
    <3>1. lock' = t /\ crit'.at = "override" /\ crit'.i = crit.i + 1
      BY <2>5 DEF GoOn, Hold, ScanAt
    <3>2. Size' = Size /\ Pool' = Pool /\ override' = override
          /\ \A i : At(i)' = At(i)
      BY <2>1 DEF list, Size, Pool, At
    <3>3. Seen'
      BY <1>2, <2>1, <3>1, WindowGrows
    <3>4. OverridePassed'
      BY <1>1, <1>2, <2>1, <2>4, <2>5, <3>1, <3>2 DEF OverridePassed
    <3>5. FailoverPassed' /\ BestPassed'
      BY <3>1 DEF FailoverPassed, BestPassed
    <3> QED
      BY <3>3, <3>4, <3>5 DEF ScanInv
  <2>6. CASE ~hit /\ crit.i = Size /\ GoOn(t, StrategyScan)
    <3>1. lock' # Free
      BY <1>2, <2>6 DEF GoOn, Hold
    <3> QED
      BY <2>1, <2>4, <2>6, <3>1, StartScanInv
  <2> QED
    BY <2>2, <2>3, <2>5, <2>6
<1>8. CASE ScanBestAlive(t)
  <2>1. /\ lock = t /\ crit.at = "best_alive" /\ Watch
        /\ UNCHANGED <<list, node, override>>
    BY <1>8 DEF ScanBestAlive, mode
  <2>2. BestPassed
    BY DEF ScanInv
  <2>3. CASE /\ alive[At(crit.i)]
             /\ GoOn(t, [crit EXCEPT !.at = "best_latency"])
    <3>1. /\ lock' = t /\ crit'.at = "best_latency" /\ crit'.i = crit.i
          /\ crit'.best = crit.best /\ crit'.ms = crit.ms
      BY <1>3, <2>3 DEF GoOn, Hold, Crit
    <3>2. Size' = Size /\ Pool' = Pool /\ override' = override
          /\ latency' = latency /\ \A i : At(i)' = At(i)
      BY <2>1 DEF list, node, Size, Pool, At
    <3>3. /\ wasDown \subseteq wasDown' /\ wasUp \subseteq wasUp'
          /\ moved \subseteq moved' /\ Seen'
      BY <1>2, <2>1, <3>1, WindowGrows
    <3>4. At(crit.i) \in wasUp
      BY <1>1, <1>2, <1>5, <2>1, <2>3
    <3>5. OverridePassed'
      BY <2>1, <3>1, <3>2, <3>3 DEF ScanInv, OverridePassed, ScanPoints
    <3>6. FailoverPassed'
      BY <3>1 DEF FailoverPassed
    <3>7. BestPassed'
      BY <2>1, <2>2, <3>1, <3>2, <3>3, <3>4 DEF BestPassed
    <3> QED
      BY <3>3, <3>5, <3>6, <3>7 DEF ScanInv
  <2>4. CASE ~alive[At(crit.i)] /\ NextBest(t, crit)
    <3>1. At(crit.i) \in wasDown
      BY <1>1, <1>2, <1>5, <2>1, <2>4
    <3>2. \A j \in 1 .. crit.i :
             \/ At(j) \in wasDown \cup moved \/ latency[At(j)] < 0
             \/ crit.best # 0 /\ crit.ms <= latency[At(j)]
      BY <1>1, <1>2, <2>1, <2>2, <3>1 DEF BestPassed
    <3> QED
      BY <1>2, <1>3, <2>1, <2>2, <2>4, <3>2, NextBestScanInv DEF BestPassed
  <2> QED
    BY <1>8, <2>3, <2>4 DEF ScanBestAlive
<1>9. CASE ScanBestLatency(t)
  <2> DEFINE lat == latency[At(crit.i)]
             c   == IF Faster(lat)
                    THEN [crit EXCEPT !.best = crit.i, !.ms = lat]
                    ELSE crit
  <2>1. /\ lock = t /\ crit.at = "best_latency" /\ Watch
        /\ UNCHANGED <<list, node, override>> /\ NextBest(t, c)
    BY <1>9 DEF ScanBestLatency, mode
  <2>2. BestPassed
    BY DEF ScanInv
  <2>3. lat \in Latencies \cup {-1, 0} /\ lat \in Int /\ crit.ms \in Int
    BY <1>1, <1>2, <1>3, <2>1, ValueAssumption DEF TypeOK, NodeOK, Crit
  <2>4. \A j \in 1 .. crit.i - 1 : latency[At(j)] \in Int
    BY <1>1, <1>2, <2>1, ValueAssumption DEF TypeOK, NodeOK
  <2>5. CASE Faster(lat)
    <3>1. lat \in Latencies \cup {0} /\ crit.i \in 0 .. MaxNodes
      BY <1>3, <2>3, <2>5 DEF Faster, Crit
    <3>2. c = [crit EXCEPT !.best = crit.i, !.ms = lat]
      BY <2>5
    <3> HIDE DEF lat, c
    <3>3. c \in Crit /\ c.best = crit.i /\ c.ms = lat
      BY <1>3, <3>1, <3>2 DEF Crit
    <3>4. At(c.best) \in wasUp /\ latency[At(c.best)] = c.ms
      BY <2>1, <2>2, <3>3 DEF BestPassed, lat
    <3>5. \A j \in 1 .. crit.i :
             \/ At(j) \in wasDown \cup moved \/ latency[At(j)] < 0
             \/ c.ms <= latency[At(j)]
      <4>1. ASSUME NEW j \in 1 .. crit.i - 1
            PROVE  \/ At(j) \in wasDown \cup moved \/ latency[At(j)] < 0
                   \/ c.ms <= latency[At(j)]
        BY <2>1, <2>2, <2>3, <2>4, <2>5, <3>3 DEF BestPassed, Faster
      <4>2. c.ms <= latency[At(crit.i)]
        BY <2>3, <3>3 DEF lat
      <4> QED
        BY <1>2, <2>1, <4>1, <4>2
    <3>6. c.best # 0 /\ c.best \in 0 .. Size
      BY <1>2, <2>1, <3>3
    <3> QED
      BY <2>1, <3>3, <3>4, <3>5, <3>6, NextBestScanInv
  <2>6. CASE ~Faster(lat)
    <3>1. c = crit
      BY <2>6
    <3> HIDE DEF c
    <3>2. latency[At(crit.i)] < 0 \/ (crit.best # 0 /\ crit.ms <= latency[At(crit.i)])
      BY <2>3, <2>6 DEF Faster
    <3>3. \A j \in 1 .. crit.i :
             \/ At(j) \in wasDown \cup moved \/ latency[At(j)] < 0
             \/ crit.best # 0 /\ crit.ms <= latency[At(j)]
      BY <1>2, <2>1, <2>2, <3>2 DEF BestPassed
    <3> QED
      BY <1>2, <1>3, <2>1, <2>2, <3>1, <3>3, NextBestScanInv DEF BestPassed
  <2> QED
    BY <2>5, <2>6
<1>10. CASE ScanRoundRobin(t)
  <2>1. /\ lock = t /\ crit.at = "round_robin" /\ Watch
        /\ UNCHANGED <<list, node, override>>
        /\ \/ Return(t, At(RRIndex))
           \/ GoOn(t, ScanAt("round_robin", crit.i + 1))
           \/ GoOn(t, ScanAt("failover", 1))
    BY <1>10 DEF ScanRoundRobin, mode
  <2>2. CASE Return(t, At(RRIndex))
    BY <1>4, <2>2
  <2>3. CASE GoOn(t, ScanAt("round_robin", crit.i + 1))
    <3>1. lock' = t /\ crit'.at = "round_robin"
      BY <2>3 DEF GoOn, Hold, ScanAt
    <3>2. Size' = Size /\ Pool' = Pool /\ override' = override
          /\ \A i : At(i)' = At(i)
      BY <2>1 DEF list, Size, Pool, At
    <3>3. Seen' /\ wasDown \subseteq wasDown'
      BY <1>2, <2>1, <3>1, WindowGrows
    <3>4. OverridePassed'
      BY <2>1, <3>1, <3>2, <3>3 DEF ScanInv, OverridePassed, ScanPoints
    <3>5. FailoverPassed' /\ BestPassed'
      BY <3>1 DEF FailoverPassed, BestPassed
    <3> QED
      BY <3>3, <3>4, <3>5 DEF ScanInv
  <2>4. CASE GoOn(t, ScanAt("failover", 1))
    <3>1. \A j \in 1 .. 1 - 1 : At(j) \in wasDown'
      OBVIOUS
    <3>2. crit.at \in ScanPoints /\ crit.at # "override"
      BY <2>1 DEF ScanPoints
    <3> QED
      BY <2>1, <2>4, <3>1, <3>2, FailoverScanInv
  <2> QED
    BY <2>1, <2>2, <2>3, <2>4
<1>11. CASE ScanFailover(t)
  <2>1. /\ lock = t /\ crit.at = "failover" /\ Watch
        /\ UNCHANGED <<list, node, override>>
        /\ \/ Return(t, At(crit.i))
           \/ ~alive[At(crit.i)] /\ GoOn(t, ScanAt("failover", crit.i + 1))
           \/ Return(t, At(1))
    BY <1>11 DEF ScanFailover, mode
  <2>2. CASE Return(t, At(crit.i)) \/ Return(t, At(1))
    BY <1>4, <2>2
  <2>3. CASE ~alive[At(crit.i)] /\ GoOn(t, ScanAt("failover", crit.i + 1))
    <3>1. lock' # Free
      BY <1>2, <2>3 DEF GoOn, Hold
    <3>2. wasDown \subseteq wasDown'
      BY <2>1, <3>1, WindowGrows
    <3>3. \A j \in 1 .. crit.i - 1 : At(j) \in wasDown
      BY <2>1 DEF ScanInv, FailoverPassed
    <3>4. At(crit.i) \in wasDown
      BY <1>1, <1>2, <1>5, <2>1, <2>3
    <3>5. \A j \in 1 .. (crit.i + 1) - 1 : At(j) \in wasDown'
      BY <1>2, <2>1, <3>2, <3>3, <3>4
    <3>6. crit.at \in ScanPoints /\ crit.at # "override" /\ crit.i + 1 \in Nat
      BY <1>2, <2>1 DEF ScanPoints
    <3> QED
      BY <2>1, <2>3, <3>5, <3>6, FailoverScanInv
  <2> QED
    BY <2>1, <2>2, <2>3
<1> QED
  BY <1>6, <1>7, <1>8, <1>9, <1>10, <1>11 DEF CallStep

(* A mark holds the mutex but scans nothing.                               *)
LEMMA MarkingScanInv ==
  ASSUME NEW t \in Callers, NEW c, Hold(t, c), c.at \in MarkPoints, Watch
  PROVE  ScanInv'
<1>1. lock' = t /\ t # Free /\ crit' = c
  BY ValueAssumption DEF Hold
<1>2. Seen'
  BY <1>1, WindowGrows
<1>3. OverridePassed' /\ FailoverPassed' /\ BestPassed'
  BY <1>1 DEF OverridePassed, FailoverPassed, BestPassed, ScanPoints, MarkPoints
<1> QED
  BY <1>2, <1>3 DEF ScanInv

LEMMA MarkScanInv ==
  ASSUME TypeOK, ScanInv, NEW t \in Callers, MarkStep(t) \/ MarkCall(t)
  PROVE  ScanInv'
<1>1. ASSUME Release PROVE ScanInv'
  BY <1>1, FreeScanInv DEF Release
<1>2. CASE SetOffline(t) \/ SetLatency(t)
  BY <1>1, <1>2 DEF SetOffline, SetLatency
<1>3. CASE ResetFails(t)
  <2> DEFINE c == [crit EXCEPT !.at = "set_latency"]
  <2>1. Hold(t, c) /\ Watch
    BY <1>3 DEF ResetFails
  <2>2. c.at \in MarkPoints
    BY DEF TypeOK, InsideOK, MarkPoints
  <2> HIDE DEF c
  <2> QED
    BY <2>1, <2>2, MarkingScanInv
<1>4. ASSUME NEW n, MarkFailure(t, n) PROVE ScanInv'
  <2>1. PICK i \in FirstOf(n) :
           Hold(t, MarkAt("set_offline", i, 0)) \/ Release
    BY <1>4 DEF MarkFailure
  <2>2. MarkAt("set_offline", i, 0).at \in MarkPoints
    BY DEF MarkAt, MarkPoints
  <2>3. Watch
    BY <1>4 DEF MarkFailure
  <2> QED
    BY <1>1, <2>1, <2>2, <2>3, MarkingScanInv
<1>5. ASSUME NEW n, NEW lat, MarkSuccess(t, n, lat) PROVE ScanInv'
  <2>1. PICK i \in FirstOf(n) : Hold(t, MarkAt("reset_fails", i, lat))
    BY <1>5 DEF MarkSuccess
  <2>2. MarkAt("reset_fails", i, lat).at \in MarkPoints
    BY DEF MarkAt, MarkPoints
  <2>3. Watch
    BY <1>5 DEF MarkSuccess
  <2> QED
    BY <2>1, <2>2, <2>3, MarkingScanInv
<1>6. ASSUME NEW n, MarkUnlisted(t, n) PROVE ScanInv'
  BY <1>6, StayScanInv DEF MarkUnlisted, mode
<1> QED
  BY <1>2, <1>3, <1>4, <1>5, <1>6 DEF MarkStep, MarkCall

LEMMA SweepScanInv ==
  ASSUME TypeOK, ScanInv, NEW s \in Sweepers,
         \/ SweepBegin(s) \/ SweepStep(s)
         \/ \E lat \in Latencies \cup {-1} : Probe(s, lat)
  PROVE  ScanInv'
BY StayScanInv DEF SweepBegin, Probe, SweepStep, SweepAlive, SweepLatency,
                   SweepFails, mode

LEMMA OperateScanInv ==
  ASSUME TypeOK, lock = Free, UNCHANGED inside
  PROVE  ScanInv'
BY FreeScanInv DEF TypeOK, InsideOK, inside

\* What every scan has established so far holds in every reachable state.
THEOREM ScanCorrect == PoolSpec => [](TypeOK /\ ScanInv)
<1>1. PoolInit => TypeOK /\ ScanInv
  <2>1. PoolInit => ScanInv
    BY DEF PoolInit, ScanInv, Seen, OverridePassed, FailoverPassed, BestPassed,
           OutOfLock, ScanPoints
  <2> QED
    BY <2>1, InitTypeOK
<1>2. TypeOK /\ ScanInv /\ [PoolNext]_poolVars => ScanInv'
  <2> SUFFICES ASSUME TypeOK, ScanInv, [PoolNext]_poolVars PROVE ScanInv'
    OBVIOUS
  <2>1. CASE UNCHANGED poolVars
    <3>1. /\ lock' = lock /\ crit' = crit /\ override' = override
          /\ alive' = alive /\ latency' = latency
          /\ wasDown' = wasDown /\ wasUp' = wasUp /\ moved' = moved
          /\ gen' = gen /\ names' = names
      BY <2>1 DEF poolVars, inside, mode, node, list
    <3> QED
      BY <3>1 DEF ScanInv, Seen, OverridePassed, FailoverPassed, BestPassed,
                  Size, Pool, At
  <2>2. ASSUME NEW w \in Words, ManualSelect(w) PROVE ScanInv'
    BY <2>2, OperateScanInv DEF ManualSelect
  <2>3. ASSUME NEW st \in Strategies, SetStrategy(st) PROVE ScanInv'
    BY <2>3, OperateScanInv DEF SetStrategy
  <2>4. ASSUME NEW p \in Pools, NEW st \in Strategies, Reload(p, st)
        PROVE  ScanInv'
    BY <2>4, OperateScanInv DEF Reload
  <2> QED
    BY <2>1, <2>2, <2>3, <2>4, CallScanInv, MarkScanInv, SweepScanInv DEF PoolNext
<1>3. TypeOK /\ [PoolNext]_poolVars => TypeOK'
  BY TypeStep
<1> QED
  BY <1>1, <1>2, <1>3, PTL DEF PoolSpec

-----------------------------------------------------------------------------
(* The step in which select_node returns. *)

\* Only a scan step of t makes select_node of t return.
LEMMA ReturnStep ==
  ASSUME TypeOK, [PoolNext]_poolVars, NEW t \in Callers, Returns(t)
  PROVE  \/ ScanOverride(t) \/ ScanBestAlive(t) \/ ScanBestLatency(t)
         \/ ScanRoundRobin(t) \/ ScanFailover(t)
<1>1. lock = t /\ t # Free /\ lock' = Free /\ crit.at \in ScanPoints
  BY ValueAssumption DEF Returns
<1>2. ~ UNCHANGED poolVars
  BY <1>1 DEF poolVars, inside
<1>3. ASSUME NEW u \in Callers, CallStep(u) PROVE u = t /\ ~SelectNode(t)
  BY <1>1, <1>3 DEF CallStep, SelectNode, ScanOverride, ScanBestAlive,
                    ScanBestLatency, ScanRoundRobin, ScanFailover
<1>4. ASSUME NEW u \in Callers PROVE ~MarkStep(u) /\ ~MarkCall(u)
  BY <1>1 DEF MarkStep, SetOffline, ResetFails, SetLatency, MarkCall,
              MarkFailure, MarkSuccess, MarkUnlisted, ScanPoints
<1>5. ASSUME NEW s \in Sweepers
      PROVE  /\ ~SweepBegin(s) /\ ~SweepStep(s)
             /\ \A lat \in Latencies \cup {-1} : ~Probe(s, lat)
  BY <1>1 DEF SweepBegin, SweepStep, SweepAlive, SweepLatency, SweepFails,
              Probe, inside
<1>6. /\ \A w \in Words : ~ManualSelect(w)
      /\ \A st \in Strategies : ~SetStrategy(st)
      /\ \A p \in Pools, st \in Strategies : ~Reload(p, st)
  BY <1>1 DEF ManualSelect, SetStrategy, Reload
<1> QED
  BY <1>2, <1>3, <1>4, <1>5, <1>6 DEF PoolNext, CallStep

\* What the best scan returns.
LEMMA BestReturns ==
  ASSUME TypeOK, ScanInv, NEW t \in Callers, Returns(t),
         ScanBestAlive(t) \/ ScanBestLatency(t)
  PROVE  \E b \in 1 .. Size :
            /\ held'[t] = At(b) /\ At(b) \in wasUp
            /\ \A j \in 1 .. Size :
                  \/ At(j) \in wasDown \cup moved \/ latency[At(j)] < 0
                  \/ At(b) \in moved \/ latency[At(b)] <= latency[At(j)]
<1>1. /\ lock = t /\ t # Free /\ lock' = Free
      /\ Size \in Nat /\ \A i \in 1 .. Size : At(i) \in Obj
      /\ crit.i \in 1 .. Size /\ crit.best \in 0 .. Size /\ crit \in Crit
  BY SizeOK, ValueAssumption DEF Returns, TypeOK, InsideOK, Crit
<1>2. Seen /\ BestPassed
  BY DEF ScanInv
<1>3. ASSUME NEW o PROVE Return(t, o) => held'[t] = o
  BY DEF Return, TypeOK, HeldOK
<1>4. ASSUME NEW c PROVE ~GoOn(t, c)
  BY <1>1 DEF GoOn, Hold
<1>5. crit.ms \in Int /\ \A j \in 1 .. Size : latency[At(j)] \in Int
  <2>1. Latencies \cup {-1, 0} \subseteq Int
    BY ValueAssumption
  <2>2. latency \in [Obj -> Latencies \cup {-1, 0}]
    BY DEF TypeOK, NodeOK
  <2>3. crit.ms \in Latencies \cup {-1, 0}
    BY <1>1 DEF Crit
  <2> QED
    BY <1>1, <2>1, <2>2, <2>3
<1>6. CASE ScanBestAlive(t)
  <2>1. crit.at = "best_alive" /\ ~alive[At(crit.i)] /\ crit.i = Size
        /\ crit.best # 0 /\ Return(t, At(crit.best))
    BY <1>4, <1>6 DEF ScanBestAlive, NextBest
  <2>2. At(crit.i) \in wasDown
    BY <1>1, <1>2, <2>1 DEF Seen
  <2>3. /\ At(crit.best) \in wasUp
        /\ At(crit.best) \in moved \/ latency[At(crit.best)] = crit.ms
        /\ \A j \in 1 .. crit.i - 1 :
              \/ At(j) \in wasDown \cup moved \/ latency[At(j)] < 0
              \/ crit.ms <= latency[At(j)]
    BY <1>2, <2>1 DEF BestPassed
  <2>4. \A j \in 1 .. Size :
              \/ At(j) \in wasDown \cup moved \/ latency[At(j)] < 0
              \/ crit.ms <= latency[At(j)]
    BY <1>1, <2>1, <2>2, <2>3
  <2>5. crit.best \in 1 .. Size
    BY <1>1, <2>1
  <2> QED
    BY <1>3, <2>1, <2>3, <2>4, <2>5
<1>7. CASE ScanBestLatency(t)
  <2> DEFINE lat == latency[At(crit.i)]
  <2>1. crit.at = "best_latency" /\ crit.i = Size
    BY <1>4, <1>7 DEF ScanBestLatency, NextBest
  <2>2. lat \in Int /\ crit.ms \in Int
    BY <1>1, <1>5
  <2>3. CASE Faster(lat)
    <3>1. Return(t, At(crit.i))
      <4> DEFINE c == [crit EXCEPT !.best = crit.i, !.ms = lat]
      <4>1. NextBest(t, c)
        BY <1>7, <2>3 DEF ScanBestLatency
      <4>2. c.best = crit.i
        BY <1>1 DEF Crit
      <4> HIDE DEF c
      <4> QED
        BY <1>1, <1>4, <4>1, <4>2 DEF NextBest
    <3>2. At(crit.i) \in wasUp
      BY <1>2, <2>1 DEF BestPassed
    <3>3. ASSUME NEW j \in 1 .. Size
          PROVE  \/ At(j) \in wasDown \cup moved \/ latency[At(j)] < 0
                 \/ lat <= latency[At(j)]
      <4>1. CASE j = crit.i
        BY <2>2, <4>1
      <4>2. CASE j \in 1 .. crit.i - 1
        <5>1. \/ At(j) \in wasDown \cup moved \/ latency[At(j)] < 0
              \/ crit.best # 0 /\ crit.ms <= latency[At(j)]
          BY <1>2, <2>1, <4>2 DEF BestPassed
        <5> QED
          BY <1>5, <2>2, <2>3, <5>1 DEF Faster
      <4> QED
        BY <1>1, <2>1, <4>1, <4>2
    <3> QED
      BY <1>1, <1>3, <3>1, <3>2, <3>3
  <2>4. CASE ~Faster(lat)
    <3>1. NextBest(t, crit)
      BY <1>7, <2>4 DEF ScanBestLatency
    <3>2. crit.best # 0 /\ Return(t, At(crit.best))
      BY <1>4, <3>1 DEF NextBest
    <3>3. lat < 0 \/ crit.ms <= lat
      BY <2>2, <2>4, <3>2 DEF Faster
    <3>4. /\ At(crit.best) \in wasUp
          /\ At(crit.best) \in moved \/ latency[At(crit.best)] = crit.ms
          /\ \A j \in 1 .. crit.i - 1 :
                \/ At(j) \in wasDown \cup moved \/ latency[At(j)] < 0
                \/ crit.ms <= latency[At(j)]
      BY <1>2, <2>1, <3>2 DEF BestPassed
    <3>5. \A j \in 1 .. Size :
                \/ At(j) \in wasDown \cup moved \/ latency[At(j)] < 0
                \/ crit.ms <= latency[At(j)]
      BY <1>1, <2>1, <3>3, <3>4
    <3>6. crit.best \in 1 .. Size
      BY <1>1, <3>2
    <3> QED
      BY <1>3, <3>2, <3>4, <3>5, <3>6
  <2> QED
    BY <2>3, <2>4
<1> QED
  BY <1>6, <1>7

\* BEST_LATENCY never returns a node slower than one that was online with the
\* same measured latency during the whole call, whatever sweeps and marks
\* store while it scans.
THEOREM BestIsFastestCorrect == PoolSpec => BestIsFastest
<1>1. ASSUME TypeOK, ScanInv, [PoolNext]_poolVars PROVE BestIsFastestStep
  <2> SUFFICES ASSUME NEW t \in Callers, Returns(t),
                      crit.at \in {"best_alive", "best_latency"},
                      NEW i \in 1 .. Size
               PROVE  \/ At(i) \in wasDown \cup moved \/ latency[At(i)] < 0
                      \/ held'[t] \in moved
                      \/ latency[held'[t]] <= latency[At(i)]
    BY DEF BestIsFastestStep
  <2>1. ScanBestAlive(t) \/ ScanBestLatency(t)
    BY <1>1, ReturnStep DEF ScanOverride, ScanRoundRobin, ScanFailover
  <2> QED
    BY <1>1, <2>1, BestReturns
<1> QED
  BY <1>1, ScanCorrect, PTL DEF PoolSpec, BestIsFastest

\* Every return of select_node, by the scan that makes it.
LEMMA ReturnForms ==
  ASSUME TypeOK, ScanInv, [PoolNext]_poolVars, NEW t \in Callers, Returns(t)
  PROVE  \E k \in 1 .. Size :
            /\ held'[t] = At(k)
            /\ At(k) \in wasUp \/ \A j \in 1 .. Size : At(j) \in wasDown
            /\ crit.at = "failover" => \A j \in 1 .. k - 1 : At(j) \in wasDown
            /\ \/ crit.at = "override" /\ Pool[k] = override
               \/ override = NoName
               \/ \A j \in 1 .. Size : Pool[j] = override => At(j) \in wasDown
<1>1. /\ lock = t /\ t # Free /\ lock' = Free /\ crit.at \in ScanPoints
      /\ Size \in Nat /\ \A i \in 1 .. Size : At(i) \in Obj
      /\ crit.i \in 1 .. Size
  BY SizeOK, ValueAssumption DEF Returns, TypeOK, InsideOK
<1>2. \A i \in 1 .. Size : At(i) \in (IF alive[At(i)] THEN wasUp ELSE wasDown)
  BY <1>1 DEF ScanInv, Seen
<1>3. ASSUME NEW o PROVE Return(t, o) => held'[t] = o
  BY DEF Return, TypeOK, HeldOK
<1>4. ASSUME NEW c PROVE ~GoOn(t, c)
  BY <1>1 DEF GoOn, Hold
<1>5. crit.at # "override" =>
         \/ override = NoName
         \/ \A j \in 1 .. Size : Pool[j] = override => At(j) \in wasDown
  BY <1>1 DEF ScanInv, OverridePassed
<1>6. CASE ScanOverride(t)
  <2>1. /\ crit.at = "override" /\ Pool[crit.i] = override
        /\ alive[At(crit.i)] /\ Return(t, At(crit.i))
    BY <1>4, <1>6 DEF ScanOverride
  <2> QED
    BY <1>1, <1>2, <1>3, <2>1
<1>7. CASE ScanBestAlive(t) \/ ScanBestLatency(t)
  <2>1. crit.at # "override" /\ crit.at # "failover"
    BY <1>7 DEF ScanBestAlive, ScanBestLatency
  <2>2. \E b \in 1 .. Size : held'[t] = At(b) /\ At(b) \in wasUp
    BY <1>7, BestReturns
  <2> QED
    BY <1>5, <2>1, <2>2
<1>8. CASE ScanRoundRobin(t)
  <2>1. /\ crit.at = "round_robin" /\ alive[At(RRIndex)]
        /\ Return(t, At(RRIndex))
    BY <1>4, <1>8 DEF ScanRoundRobin
  <2>2. RRIndex \in 1 .. Size
    <3>1. rr \in Nat /\ Size > 0
      BY <1>1, BoundAssumption DEF TypeOK, ModeOK
    <3> QED
      BY <1>1, <3>1 DEF RRIndex
  <2> QED
    BY <1>2, <1>3, <1>5, <2>1, <2>2
<1>9. CASE ScanFailover(t)
  <2>1. /\ crit.at = "failover"
        /\ \/ alive[At(crit.i)] /\ Return(t, At(crit.i))
           \/ ~alive[At(crit.i)] /\ crit.i = Size /\ Return(t, At(1))
    BY <1>4, <1>9 DEF ScanFailover
  <2>2. \A j \in 1 .. crit.i - 1 : At(j) \in wasDown
    BY <2>1 DEF ScanInv, FailoverPassed
  <2>3. CASE alive[At(crit.i)] /\ Return(t, At(crit.i))
    BY <1>1, <1>2, <1>3, <1>5, <2>1, <2>2, <2>3
  <2>4. CASE ~alive[At(crit.i)] /\ crit.i = Size /\ Return(t, At(1))
    <3>1. \A j \in 1 .. Size : At(j) \in wasDown
      BY <1>1, <1>2, <2>2, <2>4
    <3>2. 1 \in 1 .. Size
      BY <1>1
    <3> QED
      BY <1>3, <1>5, <2>1, <2>4, <3>1, <3>2
  <2> QED
    BY <2>1, <2>3, <2>4
<1> QED
  BY <1>6, <1>7, <1>8, <1>9, ReturnStep

\* The fallback to nodes.front() is never taken past a node that stayed
\* online during the call, under any strategy.
THEOREM NoNeedlessFallbackCorrect == PoolSpec => NoNeedlessFallback
<1>1. ASSUME TypeOK, ScanInv, [PoolNext]_poolVars PROVE NoNeedlessFallbackStep
  <2> SUFFICES ASSUME NEW t \in Callers, Returns(t), held'[t] \notin wasUp
               PROVE  Others(held'[t]) \subseteq wasDown
    BY DEF NoNeedlessFallbackStep
  <2>1. \A j \in 1 .. Size : At(j) \in wasDown
    BY <1>1, ReturnForms
  <2> QED
    BY <2>1 DEF Others
<1> QED
  BY <1>1, ScanCorrect, PTL DEF PoolSpec, NoNeedlessFallback

\* The failover scan never passes over a node that stayed online.
THEOREM FailoverInOrderCorrect == PoolSpec => FailoverInOrder
<1>1. ASSUME TypeOK, ScanInv, [PoolNext]_poolVars PROVE FailoverInOrderStep
  <2> SUFFICES ASSUME NEW t \in Callers, Returns(t), crit.at = "failover"
               PROVE  \A i \in 1 .. held'[t][2] - 1 : At(i) \in wasDown
    BY DEF FailoverInOrderStep
  <2>1. PICK k \in 1 .. Size :
           held'[t] = At(k) /\ \A j \in 1 .. k - 1 : At(j) \in wasDown
    BY <1>1, ReturnForms
  <2> QED
    BY <2>1 DEF At
<1> QED
  BY <1>1, ScanCorrect, PTL DEF PoolSpec, FailoverInOrder

-----------------------------------------------------------------------------
(* What `switch` pins. *)

\* The position remembered for the operator is where the override name is.
PinInv == /\ Pool \in Pools
          /\ pinned # 0 => pinned \in 1 .. Size /\ Pool[pinned] = override

LEMMA PinStep ==
  ASSUME Unambiguous, TypeOK, PinInv, [PoolNext]_poolVars
  PROVE  PinInv'
<1>1. ASSUME UNCHANGED <<list, override, pinned>> PROVE PinInv'
  BY <1>1 DEF PinInv, list, Pool, Size
<1>2. CASE UNCHANGED poolVars
  BY <1>1, <1>2 DEF poolVars, mode
<1>3. ASSUME NEW t \in Callers, CallStep(t) \/ MarkStep(t) \/ MarkCall(t)
      PROVE  PinInv'
  <2>1. UNCHANGED <<list, override, pinned>>
    BY <1>3 DEF CallStep, SelectNode, ScanOverride, ScanBestAlive, ScanBestLatency,
                ScanRoundRobin, ScanFailover, MarkStep, SetOffline, ResetFails,
                SetLatency, MarkCall, MarkFailure, MarkSuccess, MarkUnlisted, mode
  <2> QED
    BY <1>1, <2>1
<1>4. ASSUME NEW s \in Sweepers,
             \/ SweepBegin(s) \/ SweepStep(s)
             \/ \E lat \in Latencies \cup {-1} : Probe(s, lat)
      PROVE  PinInv'
  BY <1>1, <1>4 DEF SweepBegin, SweepStep, SweepAlive, SweepLatency, SweepFails,
                    Probe, mode
<1>5. ASSUME NEW w \in Words, ManualSelect(w) PROVE PinInv'
  <2>1. UNCHANGED list /\ Size' = Size /\ Pool' = Pool
    BY <1>5 DEF ManualSelect, list, Size, Pool
  <2>2. Size \in Nat /\ Pool \in Seq(Names)
    BY SizeOK DEF TypeOK
  <2>3. FirstOf(w) # {} => w \in Names
    BY <2>2, SizeOK DEF FirstOf, TypeOK
  <2>4. IsIndex(w) => w \in Numerals /\ w \notin AutoWords
    BY <1>5, <2>2, WordAssumption DEF IsIndex, Unambiguous
  <2>5. CASE w \in AutoWords
    <3>1. pinned' = 0
      BY <1>5, <2>5 DEF ManualSelect, Meant
    <3> QED
      BY <2>1, <3>1 DEF PinInv
  <2>6. CASE IsIndex(w)
    <3>1. pinned' = LeadingNumber[w] /\ override' = Pool[LeadingNumber[w]]
      <4>1. Meant(w) = {LeadingNumber[w]}
        BY <2>4, <2>6 DEF Meant
      <4> QED
        BY <1>5, <2>4, <2>6, <4>1 DEF ManualSelect
    <3> QED
      BY <2>1, <2>6, <3>1 DEF PinInv, IsIndex
  <2>7. CASE w \notin AutoWords /\ ~IsIndex(w)
    <3>1. FirstOf(w) # {} /\ override' = w
      BY <1>5, <2>7 DEF ManualSelect
    <3>2. w \notin Numerals
      BY <2>3, <3>1 DEF Unambiguous
    <3>3. pinned' \in FirstOf(w)
      BY <1>5, <2>7, <3>1, <3>2 DEF ManualSelect, Meant
    <3> QED
      BY <2>1, <3>1, <3>3 DEF PinInv, FirstOf
  <2> QED
    BY <2>5, <2>6, <2>7
<1>6. ASSUME NEW st \in Strategies, SetStrategy(st) PROVE PinInv'
  BY <1>6 DEF SetStrategy, PinInv, list, Size, Pool
<1>7. ASSUME NEW p \in Pools, NEW st \in Strategies, Reload(p, st) PROVE PinInv'
  <2>1. gen' = gen + 1 /\ names' = [names EXCEPT ![gen + 1] = p] /\ pinned' = 0
    BY <1>7 DEF Reload
  <2>2. gen + 1 \in 0 .. MaxReloads
    BY <1>7, BoundAssumption DEF Reload, TypeOK, ListOK
  <2>3. Pool' = p
    BY <2>1, <2>2 DEF Pool, TypeOK, ListOK
  <2> QED
    BY <2>1, <2>3 DEF PinInv
<1> QED
  BY <1>2, <1>3, <1>4, <1>5, <1>6, <1>7 DEF PoolNext

\* With a list of distinct names and words that leave no doubt, every call
\* returns the node `switch` asked for unless it was offline during the call.
THEOREM PinHonouredCorrect ==
  ASSUME Unambiguous
  PROVE  PoolSpec => PinHonoured
<1>1. PoolInit => PinInv
  <2> SUFFICES ASSUME PoolInit PROVE PinInv
    OBVIOUS
  <2>1. PICK p \in Pools : names = [g \in 0 .. MaxReloads |->
                                       IF g = 0 THEN p ELSE <<>>]
    BY DEF PoolInit
  <2>2. names[0] = p
    BY <2>1, BoundAssumption
  <2> QED
    BY <2>2 DEF PoolInit, PinInv, Pool
<1>2. ASSUME TypeOK, ScanInv, PinInv, [PoolNext]_poolVars PROVE PinHonouredStep
  <2> SUFFICES ASSUME NEW t \in Callers, Returns(t), pinned # 0,
                      At(pinned) \notin wasDown
               PROVE  held'[t] = At(pinned)
    BY DEF PinHonouredStep
  <2>1. pinned \in 1 .. Size /\ Pool[pinned] = override /\ override # NoName
    BY <1>2, SizeOK, WordAssumption DEF PinInv, TypeOK
  <2>2. PICK k \in 1 .. Size : held'[t] = At(k) /\ Pool[k] = override
    BY <1>2, <2>1, ReturnForms
  <2>3. k = pinned
    BY <1>2, <2>1, <2>2 DEF PinInv, Unambiguous, Size
  <2> QED
    BY <2>2, <2>3
<1>3. TypeOK /\ PinInv /\ [PoolNext]_poolVars => PinInv'
  BY PinStep
<1> QED
  BY <1>1, <1>2, <1>3, ScanCorrect, PTL DEF PoolSpec, PinHonoured

-----------------------------------------------------------------------------
(* Whose turn it is. *)

LEMMA DivMod ==
  ASSUME NEW d \in Nat \ {0}, NEW x \in Int
  PROVE  x \div d \in Int /\ x % d \in 0 .. d - 1 /\ x = d * (x \div d) + (x % d)
BY SMTT(60)

LEMMA ModIs ==
  ASSUME NEW d \in Nat \ {0}, NEW q \in Int, NEW r \in 0 .. d - 1
  PROVE  (d * q + r) % d = r
OBVIOUS

LEMMA Distribute ==
  ASSUME NEW d \in Int, NEW q \in Int
  PROVE  d * (q + 1) = d * q + d /\ d * q \in Int
OBVIOUS

\* What one more does to a remainder.
LEMMA ModSucc ==
  ASSUME NEW d \in Nat \ {0}, NEW x \in Nat
  PROVE  (x + 1) % d = IF (x % d) + 1 < d THEN (x % d) + 1 ELSE 0
<1> DEFINE q == x \div d
           r == x % d
           m == d * q
           n == d * (q + 1)
<1>1. q \in Int /\ r \in 0 .. d - 1 /\ x = m + r /\ m \in Int
  BY DivMod
<1>2. n = m + d
  <2> HIDE DEF q
  <2> QED
    BY <1>1, Distribute
<1>3. \A s \in 0 .. d - 1 : (m + s) % d = s /\ (n + s) % d = s
  <2> HIDE DEF q
  <2>1. q + 1 \in Int
    BY <1>1
  <2> QED
    BY <1>1, <2>1, ModIs
<1> HIDE DEF q, r, m, n
<1>4. CASE r + 1 < d
  <2>1. x + 1 = m + (r + 1) /\ r + 1 \in 0 .. d - 1
    BY <1>1, <1>4
  <2> QED
    BY <1>3, <1>4, <2>1 DEF r
<1>5. CASE r + 1 = d
  <2>1. x + 1 = n + 0 /\ 0 \in 0 .. d - 1
    BY <1>1, <1>2, <1>5
  <2> QED
    BY <1>3, <1>5, <2>1 DEF r
<1> QED
  BY <1>1, <1>4, <1>5 DEF r

LEMMA ModSmall ==
  ASSUME NEW d \in Nat \ {0}, NEW y \in 0 .. d - 1
  PROVE  y % d = y
OBVIOUS

LEMMA ModBelow ==
  ASSUME NEW d \in Nat \ {0}, NEW y \in (-d) .. (-1)
  PROVE  y % d = y + d
OBVIOUS

\* The counter is kept modulo a multiple of the list's length, so its remainder
\* goes round as that of the code's counter does.
LEMMA CounterSucc ==
  ASSUME NEW d \in Nat \ {0}, NEW P \in Nat \ {0}, P % d = 0, NEW x \in 0 .. P - 1
  PROVE  ((x + 1) % P) % d = IF (x % d) + 1 < d THEN (x % d) + 1 ELSE 0
<1>1. x \in Nat /\ x + 1 \in Nat
  OBVIOUS
<1>2. (x + 1) % d = IF (x % d) + 1 < d THEN (x % d) + 1 ELSE 0
  BY <1>1, ModSucc
<1>3. CASE x + 1 < P
  <2>1. x + 1 \in 0 .. P - 1
    BY <1>1, <1>3
  <2>2. (x + 1) % P = x + 1
    BY <2>1, ModSmall
  <2> QED
    BY <1>2, <2>2
<1>4. CASE x + 1 = P
  <2>1. P % P = 0 /\ 0 % d = 0
    <3>1. P = P * 1 + 0 /\ 0 \in 0 .. P - 1 /\ 0 \in 0 .. d - 1
      OBVIOUS
    <3> QED
      BY <3>1, ModIs, ModSmall
  <2> QED
    BY <1>2, <1>4, <2>1
<1> QED
  BY <1>1, <1>3, <1>4

\* The position, less one, after the node returned last, and the one k turns
\* further on.
Following == IF rrLast = Size THEN 0 ELSE rrLast
Turned(k) == IF Following + k < Size THEN Following + k ELSE Following + k - Size

\* The counter stands where the next turn is; a scan has passed as many nodes as
\* it has taken turns, each of them offline at some moment of the call.
TurnInv ==
    /\ Pool \in Pools /\ rrLast <= Size
    /\ rrLast # -1 /\ Size > 0 =>
         /\ crit.at # "round_robin" => rr % Size = Following
         /\ crit.at = "round_robin" =>
              /\ rr % Size = Turned(crit.i - 1)
              /\ \A i \in 1 .. Size : TurnsTo(i) < crit.i - 1 => At(i) \in wasDown

\* Turns and positions are in step.
LEMMA TurnsAndPositions ==
  ASSUME Size \in Nat \ {0}, rrLast \in 0 .. Size
  PROVE  /\ \A i \in 1 .. Size : TurnsTo(i) \in 0 .. Size - 1 /\ i = Turned(TurnsTo(i)) + 1
         /\ \A k \in 0 .. Size - 1 :
               /\ Turned(k) + 1 \in 1 .. Size /\ TurnsTo(Turned(k) + 1) = k
               /\ Turned(k + 1) = IF Turned(k) + 1 < Size THEN Turned(k) + 1 ELSE 0
         /\ Turned(0) = Following /\ Turned(Size) = Following
<1>1. ASSUME NEW i \in 1 .. Size
      PROVE  TurnsTo(i) = IF i > rrLast THEN i - rrLast - 1 ELSE i - rrLast - 1 + Size
  <2> DEFINE y == i - rrLast - 1
  <2>1. y \in 0 .. Size - 1 \/ y \in (-Size) .. (-1)
    OBVIOUS
  <2>2. y \in 0 .. Size - 1 <=> i > rrLast
    OBVIOUS
  <2>3. TurnsTo(i) = y % Size
    BY DEF TurnsTo
  <2>4. CASE y \in 0 .. Size - 1
    BY <2>2, <2>3, <2>4, ModSmall
  <2>5. CASE y \in (-Size) .. (-1)
    <3>1. y % Size = y + Size
      BY <2>5, ModBelow
    <3>2. ~(i > rrLast)
      BY <2>5
    <3> QED
      BY <2>3, <3>1, <3>2
  <2> QED
    BY <2>1, <2>4, <2>5
<1> QED
  BY <1>1 DEF Turned, Following

\* What the steps of all but the round-robin scan do to the invariant.
LEMMA TurnFrame ==
  ASSUME UNCHANGED <<list, turn>>
  PROVE  /\ Size' = Size /\ Pool' = Pool /\ rr' = rr /\ rrLast' = rrLast
         /\ Following' = Following
         /\ \A i : At(i)' = At(i) /\ TurnsTo(i)' = TurnsTo(i)
         /\ \A k : Turned(k)' = Turned(k)
BY DEF list, turn, Size, Pool, Following, At, TurnsTo, Turned

LEMMA TurnElsewhere ==
  ASSUME TurnInv, UNCHANGED <<list, turn>>,
         crit.at # "round_robin", crit'.at # "round_robin"
  PROVE  TurnInv'
BY TurnFrame DEF TurnInv

LEMMA TurnStays ==
  ASSUME TypeOK, TurnInv, UNCHANGED <<list, turn, inside>>, Watch
  PROVE  TurnInv'
<1>1. lock' = lock /\ crit' = crit
  BY DEF inside
<1>2. CASE crit.at # "round_robin"
  BY <1>1, <1>2, TurnElsewhere
<1>3. CASE crit.at = "round_robin"
  <2>1. lock # Free
    BY <1>3 DEF TypeOK, InsideOK, OutOfLock
  <2>2. wasDown \subseteq wasDown'
    BY <1>1, <2>1, WindowGrows
  <2> QED
    BY <1>1, <1>3, <2>2, TurnFrame DEF TurnInv
<1> QED
  BY <1>2, <1>3

LEMMA TurnStarts ==
  ASSUME TypeOK, TurnInv, UNCHANGED <<list, turn>>, crit.at # "round_robin",
         crit'.at = "round_robin", crit'.i = 1
  PROVE  TurnInv'
<1>1. Size \in Nat /\ rrLast \in -1 .. Size
  BY SizeOK DEF TypeOK, ModeOK, TurnInv
<1>2. CASE rrLast = -1 \/ Size = 0
  BY <1>1, <1>2, TurnFrame DEF TurnInv
<1>3. CASE rrLast # -1 /\ Size > 0
  <2>1. Size \in Nat \ {0} /\ rrLast \in 0 .. Size
    BY <1>1, <1>3
  <2>2. /\ Turned(0) = Following
        /\ \A i \in 1 .. Size : TurnsTo(i) \in 0 .. Size - 1
    BY <2>1, TurnsAndPositions
  <2>3. crit'.i - 1 = 0
    OBVIOUS
  <2>4. ASSUME NEW i \in 1 .. Size PROVE ~(TurnsTo(i) < 0)
    BY <2>2
  <2>5. Size' = Size /\ rr' % Size = Turned(0)' /\ Pool' \in Pools /\ rrLast' <= Size'
    BY <1>3, <2>2, TurnFrame DEF TurnInv
  <2>6. \A i \in 1 .. Size' : ~(TurnsTo(i)' < 0)
    BY <2>4, TurnFrame
  <2> QED
    BY <2>3, <2>5, <2>6 DEF TurnInv
<1> QED
  BY <1>1, <1>2, <1>3

\* One turn of the round-robin scan.
LEMMA TurnTaken ==
  ASSUME TypeOK, ScanInv, TurnInv, NEW t \in Callers, ScanRoundRobin(t)
  PROVE  /\ TurnInv'
         /\ rrLast # -1 => RRIndex \in 1 .. Size /\ TurnsTo(RRIndex) = crit.i - 1
<1>1. /\ lock = t /\ t # Free /\ crit.at = "round_robin" /\ Watch
      /\ UNCHANGED <<list, node>> /\ rr' = (rr + 1) % RRPeriod
      /\ \/ lock' = Free /\ crit' = OutOfLock /\ rrLast' = RRIndex
         \/ /\ ~alive[At(RRIndex)] /\ rrLast' = rrLast /\ lock' = t
            /\ crit' = IF crit.i < Size THEN ScanAt("round_robin", crit.i + 1)
                                        ELSE ScanAt("failover", 1)
  BY ValueAssumption DEF ScanRoundRobin, Return, GoOn, Hold, Release
<1>2. /\ Size \in Nat \ {0} /\ crit.i \in 1 .. Size /\ rrLast \in -1 .. Size
      /\ rr \in 0 .. RRPeriod - 1 /\ RRPeriod \in Nat \ {0}
      /\ \A i \in 1 .. Size : At(i) \in Obj
  BY <1>1, SizeOK, BoundAssumption DEF TypeOK, ModeOK, InsideOK, TurnInv
<1>3. RRPeriod % Size = 0
  <2>1. Pool \in Pools /\ Pool # <<>>
    BY <1>2 DEF TurnInv, Size
  <2> QED
    BY <2>1, PoolAssumption DEF Size
<1>4. rr' % Size = IF (rr % Size) + 1 < Size THEN (rr % Size) + 1 ELSE 0
  BY <1>1, <1>2, <1>3, CounterSucc
<1>5. /\ Size' = Size /\ Pool' = Pool /\ \A i : At(i)' = At(i)
  BY <1>1 DEF list, Size, Pool, At
<1>6. rr % Size \in 0 .. Size - 1 /\ RRIndex = (rr % Size) + 1 /\ RRIndex \in 1 .. Size
  <2>1. rr \in Int
    BY <1>2
  <2>2. rr % Size \in 0 .. Size - 1
    BY <1>2, <2>1, DivMod
  <2> HIDE DEF Size
  <2> QED
    BY <1>2, <2>2 DEF RRIndex
<1> DEFINE m == rr % Size
           k == crit.i - 1
<1>7. k \in 0 .. Size - 1 /\ m \in 0 .. Size - 1
  BY <1>2, <1>6
<1>8. rrLast # -1 => /\ m = Turned(k)
                     /\ \A i \in 1 .. Size : TurnsTo(i) < k => At(i) \in wasDown
  BY <1>1, <1>2 DEF TurnInv
<1>9. rrLast # -1 => /\ TurnsTo(RRIndex) = k
                     /\ Turned(k + 1) = IF m + 1 < Size THEN m + 1 ELSE 0
                     /\ Turned(Size) = Following
                     /\ \A i \in 1 .. Size : TurnsTo(i) = k => i = RRIndex
                     /\ \A i \in 1 .. Size : TurnsTo(i) \in Int
  <2> SUFFICES ASSUME rrLast # -1
               PROVE  /\ TurnsTo(RRIndex) = k
                      /\ Turned(k + 1) = IF m + 1 < Size THEN m + 1 ELSE 0
                      /\ Turned(Size) = Following
                      /\ \A i \in 1 .. Size : TurnsTo(i) = k => i = RRIndex
                      /\ \A i \in 1 .. Size : TurnsTo(i) \in Int
    OBVIOUS
  <2>1. rrLast \in 0 .. Size
    BY <1>2
  <2> HIDE DEF m, k
  <2>2. RRIndex = Turned(k) + 1
    BY <1>6, <1>8 DEF m
  <2>3. \A i \in 1 .. Size : TurnsTo(i) \in 0 .. Size - 1 /\ i = Turned(TurnsTo(i)) + 1
    BY <1>2, <2>1, TurnsAndPositions
  <2>4. /\ TurnsTo(Turned(k) + 1) = k
        /\ Turned(k + 1) = IF Turned(k) + 1 < Size THEN Turned(k) + 1 ELSE 0
        /\ Turned(Size) = Following
    BY <1>2, <1>7, <2>1, TurnsAndPositions
  <2> QED
    BY <1>8, <2>2, <2>3, <2>4
<1>10. TurnInv'
  <2>1. CASE lock' = Free /\ crit' = OutOfLock /\ rrLast' = RRIndex
    <3>1. crit'.at # "round_robin"
      BY <2>1 DEF OutOfLock
    <3>2. Following' = IF RRIndex = Size THEN 0 ELSE RRIndex
      <4> HIDE DEF Size
      <4> QED
        BY <1>5, <2>1 DEF Following
    <3>3. rr' % Size' = Following'
      <4> HIDE DEF m
      <4>1. rr' % Size = IF m + 1 < Size THEN m + 1 ELSE 0
        BY <1>4 DEF m
      <4>2. RRIndex = m + 1
        BY <1>6 DEF m
      <4>3. Size' = Size /\ Size \in Nat /\ m \in 0 .. Size - 1
        BY <1>2, <1>5, <1>7
      <4> HIDE DEF Size
      <4>4. rr' % Size' = rr' % Size
        BY <4>3
      <4> QED
        BY <3>2, <4>1, <4>2, <4>3, <4>4
    <3>4. Pool' \in Pools /\ rrLast' <= Size'
      <4>1. Pool' \in Pools
        BY <1>5 DEF TurnInv
      <4>2. RRIndex <= Size
        BY <1>2, <1>6
      <4> QED
        BY <1>5, <2>1, <4>1, <4>2
    <3> QED
      BY <3>1, <3>3, <3>4 DEF TurnInv
  <2>2. CASE /\ ~alive[At(RRIndex)] /\ rrLast' = rrLast /\ lock' = t
             /\ crit' = IF crit.i < Size THEN ScanAt("round_robin", crit.i + 1)
                                         ELSE ScanAt("failover", 1)
    <3>1. /\ Following' = Following /\ \A j : Turned(j)' = Turned(j)
          /\ \A i : TurnsTo(i)' = TurnsTo(i)
      BY <1>5, <2>2 DEF Following, Turned, TurnsTo
    <3>2. Pool' \in Pools /\ rrLast' <= Size'
      BY <1>2, <1>5, <2>2 DEF TurnInv
    <3>3. CASE rrLast = -1
      BY <2>2, <3>2, <3>3 DEF TurnInv
    <3>4. CASE rrLast # -1
      <4>1. rr' % Size' = Turned(k + 1)
        BY <1>4, <1>5, <1>9, <3>4
      <4>2. CASE crit.i < Size
        <5>1. crit'.at = "round_robin" /\ crit'.i = crit.i + 1 /\ crit'.i - 1 = k + 1
          BY <1>2, <2>2, <4>2 DEF ScanAt
        <5>2. At(RRIndex) \in wasDown /\ wasDown \subseteq wasDown'
          BY <1>1, <1>2, <1>6, <2>2, WindowGrows DEF ScanInv, Seen
        <5>3. \A i \in 1 .. Size : TurnsTo(i) < k + 1 => At(i) \in wasDown'
          <6> SUFFICES ASSUME NEW i \in 1 .. Size, TurnsTo(i) < k + 1
                       PROVE  At(i) \in wasDown'
            OBVIOUS
          <6>1. TurnsTo(i) < k \/ TurnsTo(i) = k
            <7> HIDE DEF k
            <7> QED
              BY <1>7, <1>9, <3>4
          <6> QED
            BY <1>8, <1>9, <3>4, <5>2, <6>1
        <5>4. rr' % Size' = Turned(crit.i - 1)'
          <6>1. (crit.i - 1)' = k + 1
            BY <5>1
          <6> HIDE DEF k
          <6>2. Turned(crit.i - 1)' = Turned(k + 1)
            BY <1>5, <3>1, <6>1 DEF Turned
          <6> QED
            BY <4>1, <6>2
        <5>5. \A i \in 1 .. Size' : TurnsTo(i)' < crit'.i - 1 => At(i)' \in wasDown'
          BY <1>5, <3>1, <5>1, <5>3
        <5> QED
          BY <3>2, <5>1, <5>4, <5>5 DEF TurnInv
      <4>3. CASE crit.i = Size
        <5>1. crit'.at # "round_robin"
          BY <1>2, <2>2, <4>3 DEF ScanAt
        <5>2. rr' % Size' = Following'
          BY <1>2, <1>9, <3>1, <3>4, <4>1, <4>3
        <5> QED
          BY <3>2, <5>1, <5>2 DEF TurnInv
      <4> QED
        BY <1>2, <4>2, <4>3
    <3> QED
      BY <3>3, <3>4
  <2> QED
    BY <1>1, <2>1, <2>2
<1> QED
  BY <1>6, <1>9, <1>10

\* The steps of select_node but that one.
LEMMA TurnOfCalls ==
  ASSUME TypeOK, ScanInv, TurnInv, NEW t \in Callers, CallStep(t)
  PROVE  TurnInv'
<1>1. ASSUME NEW c, crit' = c, c.at # "round_robin",
             UNCHANGED <<list, turn>>, crit.at # "round_robin"
      PROVE  TurnInv'
  BY <1>1, TurnElsewhere
<1>2. OutOfLock.at # "round_robin"
  BY DEF OutOfLock
<1>3. ASSUME NEW o, Return(t, o), UNCHANGED <<list, turn>>, crit.at # "round_robin"
      PROVE  TurnInv'
  BY <1>1, <1>2, <1>3 DEF Return, Release
<1>4. ASSUME GoOn(t, StrategyScan), UNCHANGED <<list, turn>>, crit.at # "round_robin"
      PROVE  TurnInv'
  <2>1. crit' = StrategyScan /\ StrategyScan.i = 1
    BY <1>4 DEF GoOn, Hold, StrategyScan, ScanAt
  <2> QED
    BY <1>4, <2>1, TurnElsewhere, TurnStarts
<1>5. ASSUME NEW p \in {"override", "best_alive", "best_latency", "failover"}, NEW k,
             GoOn(t, ScanAt(p, k)), UNCHANGED <<list, turn>>, crit.at # "round_robin"
      PROVE  TurnInv'
  BY <1>1, <1>5 DEF GoOn, Hold, ScanAt
<1>6. CASE SelectNode(t)
  <2>1. crit.at # "round_robin" /\ UNCHANGED <<list, turn>>
    BY <1>6 DEF SelectNode, TypeOK, InsideOK, OutOfLock
  <2>2. \/ Return(t, NoNode) \/ GoOn(t, StrategyScan)
        \/ GoOn(t, ScanAt("override", 1))
    BY <1>6 DEF SelectNode
  <2> QED
    BY <1>3, <1>4, <1>5, <2>1, <2>2
<1>7. CASE ScanOverride(t)
  <2>1. crit.at # "round_robin" /\ UNCHANGED <<list, turn>>
    BY <1>7 DEF ScanOverride
  <2>2. \/ Return(t, At(crit.i)) \/ GoOn(t, StrategyScan)
        \/ GoOn(t, ScanAt("override", crit.i + 1))
    BY <1>7 DEF ScanOverride
  <2> QED
    BY <1>3, <1>4, <1>5, <2>1, <2>2
<1>8. crit \in Crit
  BY DEF TypeOK, InsideOK, Crit
<1>9. ASSUME NEW c \in [at : {"out"} \cup ScanPoints \cup MarkPoints, i : 0 .. MaxNodes,
                        best : 0 .. MaxNodes, ms : Latencies \cup {-1, 0}],
             NextBest(t, c), UNCHANGED <<list, turn>>, crit.at # "round_robin"
      PROVE  TurnInv'
  <2> DEFINE d == [c EXCEPT !.at = "best_alive", !.i = crit.i + 1]
  <2>1. d.at # "round_robin"
    OBVIOUS
  <2>2. \/ GoOn(t, d) \/ Return(t, At(c.best)) \/ GoOn(t, ScanAt("failover", 1))
    BY <1>9 DEF NextBest
  <2> HIDE DEF d
  <2>3. GoOn(t, d) => crit' = d
    BY DEF GoOn, Hold
  <2> QED
    BY <1>1, <1>3, <1>5, <1>9, <2>1, <2>2, <2>3
<1>10. CASE ScanBestAlive(t)
  <2>1. crit.at # "round_robin" /\ UNCHANGED <<list, turn>>
    BY <1>10 DEF ScanBestAlive
  <2> DEFINE d == [crit EXCEPT !.at = "best_latency"]
  <2>2. d.at # "round_robin"
    BY <1>8 DEF Crit
  <2>3. GoOn(t, d) \/ NextBest(t, crit)
    BY <1>10 DEF ScanBestAlive
  <2> HIDE DEF d
  <2>4. GoOn(t, d) => crit' = d
    BY DEF GoOn, Hold
  <2> QED
    BY <1>1, <1>8, <1>9, <2>1, <2>2, <2>3, <2>4 DEF Crit
<1>11. CASE ScanBestLatency(t)
  <2>1. /\ lock = t /\ t # Free /\ crit.at # "round_robin"
        /\ UNCHANGED <<list, turn>>
    BY <1>11, ValueAssumption DEF ScanBestLatency
  <2> DEFINE lat == latency[At(crit.i)]
             c   == IF Faster(lat)
                    THEN [crit EXCEPT !.best = crit.i, !.ms = lat]
                    ELSE crit
  <2>2. lat \in Latencies \cup {-1, 0}
    BY <2>1, SizeOK DEF TypeOK, InsideOK, NodeOK
  <2>3. NextBest(t, c)
    BY <1>11 DEF ScanBestLatency
  <2> HIDE DEF lat
  <2>4. c \in [at : {"out"} \cup ScanPoints \cup MarkPoints, i : 0 .. MaxNodes,
               best : 0 .. MaxNodes, ms : Latencies \cup {-1, 0}]
    BY <1>8, <2>2 DEF Crit
  <2> HIDE DEF c
  <2> QED
    BY <1>9, <2>1, <2>3, <2>4
<1>12. CASE ScanRoundRobin(t)
  BY <1>12, TurnTaken
<1>13. CASE ScanFailover(t)
  <2>1. crit.at # "round_robin" /\ UNCHANGED <<list, turn>>
    BY <1>13 DEF ScanFailover
  <2>2. \/ Return(t, At(crit.i)) \/ GoOn(t, ScanAt("failover", crit.i + 1))
        \/ Return(t, At(1))
    BY <1>13 DEF ScanFailover
  <2> QED
    BY <1>3, <1>5, <2>1, <2>2
<1> QED
  BY <1>6, <1>7, <1>10, <1>11, <1>12, <1>13 DEF CallStep

LEMMA TurnOfMarks ==
  ASSUME TypeOK, TurnInv, NEW t \in Callers, MarkStep(t) \/ MarkCall(t)
  PROVE  TurnInv'
<1>1. UNCHANGED <<list, turn>> /\ crit.at # "round_robin"
  BY DEF MarkStep, SetOffline, ResetFails, SetLatency, MarkCall, MarkFailure,
         MarkSuccess, MarkUnlisted, TypeOK, InsideOK, OutOfLock
<1>2. crit'.at # "round_robin"
  <2>1. Release => crit'.at # "round_robin"
    BY DEF Release, OutOfLock
  <2>2. ASSUME NEW p \in MarkPoints, NEW k, NEW lat, Hold(t, MarkAt(p, k, lat))
        PROVE  crit'.at # "round_robin"
    BY <2>2 DEF Hold, MarkAt, MarkPoints
  <2>3. CASE SetOffline(t) \/ SetLatency(t)
    BY <2>1, <2>3 DEF SetOffline, SetLatency
  <2>4. CASE ResetFails(t)
    BY <2>4 DEF ResetFails, Hold, TypeOK, InsideOK
  <2>5. ASSUME NEW n, MarkFailure(t, n) PROVE crit'.at # "round_robin"
    BY <2>1, <2>2, <2>5 DEF MarkFailure, MarkPoints
  <2>6. ASSUME NEW n, NEW lat, MarkSuccess(t, n, lat) PROVE crit'.at # "round_robin"
    BY <2>2, <2>6 DEF MarkSuccess, MarkPoints
  <2>7. ASSUME NEW n, MarkUnlisted(t, n) PROVE crit'.at # "round_robin"
    BY <1>1, <2>7 DEF MarkUnlisted, inside
  <2> QED
    BY <2>3, <2>4, <2>5, <2>6, <2>7 DEF MarkStep, MarkCall
<1> QED
  BY <1>1, <1>2, TurnElsewhere

LEMMA TurnOfReload ==
  ASSUME TypeOK, TurnInv, NEW p \in Pools, NEW st \in Strategies, Reload(p, st)
  PROVE  TurnInv'
<1>1. gen' = gen + 1 /\ names' = [names EXCEPT ![gen + 1] = p] /\ rrLast' = -1
  BY DEF Reload
<1>2. gen + 1 \in 0 .. MaxReloads
  BY BoundAssumption DEF Reload, TypeOK, ListOK
<1>3. Pool' = p
  BY <1>1, <1>2 DEF Pool, TypeOK, ListOK
<1>4. Size' = Len(p) /\ Len(p) \in Nat
  BY <1>3, PoolAssumption DEF Size
<1> QED
  BY <1>1, <1>3, <1>4 DEF TurnInv

LEMMA TurnStep ==
  ASSUME TypeOK, ScanInv, TurnInv, [PoolNext]_poolVars
  PROVE  TurnInv'
<1>1. CASE UNCHANGED poolVars
  <2>1. UNCHANGED <<list, turn, inside, wasDown>>
    BY <1>1 DEF poolVars
  <2> QED
    BY <2>1, TurnFrame DEF TurnInv, inside
<1>2. ASSUME NEW s \in Sweepers,
             \/ SweepBegin(s) \/ SweepStep(s)
             \/ \E lat \in Latencies \cup {-1} : Probe(s, lat)
      PROVE  TurnInv'
  BY <1>2, TurnStays DEF SweepBegin, SweepStep, SweepAlive, SweepLatency, SweepFails,
                         Probe
<1>3. ASSUME NEW w \in Words, ManualSelect(w) PROVE TurnInv'
  BY <1>3, TurnStays DEF ManualSelect
<1>4. ASSUME NEW st \in Strategies, SetStrategy(st) PROVE TurnInv'
  BY <1>4, TurnStays DEF SetStrategy
<1> QED
  BY <1>1, <1>2, <1>3, <1>4, TurnOfCalls, TurnOfMarks, TurnOfReload DEF PoolNext

\* ROUND_ROBIN passes over a node only if it was offline at some moment of the
\* call, whatever pins, failover scans, sweeps and changes of the strategy come
\* between two of its turns.
THEOREM RoundRobinTakesTurnsCorrect == PoolSpec => RoundRobinTakesTurns
<1>1. PoolInit => TurnInv
  <2> SUFFICES ASSUME PoolInit PROVE TurnInv
    OBVIOUS
  <2>1. PICK p \in Pools : names = [g \in 0 .. MaxReloads |->
                                       IF g = 0 THEN p ELSE <<>>]
    BY DEF PoolInit
  <2>2. Pool = p /\ Size \in Nat
    BY <2>1, BoundAssumption, PoolAssumption DEF PoolInit, Pool, Size
  <2>3. rr = 0 /\ rrLast = 0 /\ crit.at = "out"
    BY DEF PoolInit, OutOfLock
  <2>4. Size > 0 => rr % Size = Following
    <3> HIDE DEF Size
    <3> QED
      BY <2>2, <2>3, ModSmall DEF Following
  <2> QED
    BY <2>2, <2>3, <2>4 DEF TurnInv
<1>2. TypeOK /\ ScanInv /\ TurnInv /\ [PoolNext]_poolVars => TurnInv'
  BY TurnStep
<1>3. ASSUME TypeOK, ScanInv, TurnInv, [PoolNext]_poolVars
      PROVE  RoundRobinTakesTurnsStep
  <2> SUFFICES ASSUME NEW t \in Callers, Returns(t), crit.at = "round_robin",
                      rrLast # -1, NEW i \in 1 .. Size,
                      TurnsTo(i) < TurnsTo(held'[t][2])
               PROVE  At(i) \in wasDown
    BY DEF RoundRobinTakesTurnsStep
  <2>1. ScanRoundRobin(t)
    BY <1>3, ReturnStep DEF ScanOverride, ScanBestAlive, ScanBestLatency, ScanFailover
  <2>2. Return(t, At(RRIndex))
    BY <2>1, ValueAssumption DEF ScanRoundRobin, Returns, GoOn, Hold
  <2>3. held'[t][2] = RRIndex
    BY <1>3, <2>2 DEF Return, TypeOK, HeldOK, At
  <2>4. TurnsTo(RRIndex) = crit.i - 1
    BY <1>3, <2>1, TurnTaken
  <2>5. Size > 0
    BY <1>3, SizeOK DEF TypeOK
  <2> QED
    BY <1>3, <2>3, <2>4, <2>5 DEF TurnInv
<1> QED
  BY <1>1, <1>2, <1>3, ScanCorrect, PTL DEF PoolSpec, RoundRobinTakesTurns
=============================================================================
