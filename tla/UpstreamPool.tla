---------------------------- MODULE UpstreamPool ----------------------------
(***************************************************************************)
(* The pool of upstream proxies (src/upstream_pool.cpp), at the            *)
(* granularity of its atomic loads and stores.                             *)
(*                                                                         *)
(* pool_mutex serialises the callers (connection threads, API handlers,    *)
(* the console) but not the health sweeps: run_health_check_all copies the *)
(* vector of shared pointers under the mutex and then writes `alive`,      *)
(* `latency_ms` and `failure_count` of each node, one store after the      *)
(* other, while callers hold the mutex and scan or mark the same nodes.    *)
(*                                                                         *)
(* A node object is <<g, i>>: position i of the vector that the g-th call  *)
(* of init built.  Objects of an older vector live on in the copy of a     *)
(* sweep and in the hands of the callers that selected them.               *)
(***************************************************************************)
EXTENDS Integers, Sequences, FiniteSets

CONSTANTS
    Names,          \* node names; the config does not make them unique
    Words,          \* what `switch` is given: names, numerals, others
    Numerals,       \* the words that are decimal numerals
    LeadingNumber,  \* what std::stoul reads from a word, 0 when it throws
    Pools,          \* the node lists a configuration may hold
    MaxNodes,       \* bound: length of the longest list
    MaxReloads,     \* bound: calls of init after the first
    Strategies,     \* the PoolStrategy values the run uses
    Latencies,      \* round-trip times a measurement may give
    RRPeriod,       \* round_robin_idx is kept modulo this (see README)
    FailCap,        \* failure_count saturates here; the code tests only >= 2
    Callers,        \* threads that call select_node and mark_node_*
    Sweepers,       \* the checker thread and the threads of `check`
    Free            \* not a caller: pool_mutex is not held

NoName == ""            \* manual_override_name.empty()
NoNode == <<0, 0>>      \* nullptr
Obj    == (0 .. MaxReloads) \X (1 .. MaxNodes)

ASSUME WordAssumption ==
    /\ NoName \notin Names
    /\ Numerals \subseteq Words
    /\ LeadingNumber \in [Words -> Nat]

ASSUME BoundAssumption ==
    /\ MaxNodes \in Nat
    /\ MaxReloads \in Nat
    /\ RRPeriod \in Nat \ {0}
    /\ FailCap \in Nat /\ FailCap >= 2

ASSUME PoolAssumption ==
    \A p \in Pools : /\ p \in Seq(Names)
                     /\ Len(p) <= MaxNodes
                     /\ p # <<>> => RRPeriod % Len(p) = 0

ASSUME ValueAssumption ==
    /\ Strategies \subseteq {"FAILOVER", "BEST_LATENCY", "ROUND_ROBIN"}
    /\ Latencies \subseteq Nat
    /\ Free \notin Callers

VARIABLES
    gen,        \* which vector `nodes` is
    names,      \* names[g][i]: name of object <<g, i>>
    alive,      \* UpstreamNode::alive
    latency,    \* UpstreamNode::latency_ms
    fails,      \* UpstreamNode::failure_count
    strategy,
    override,   \* manual_override_name
    rr,         \* round_robin_idx
    lock,       \* the caller inside pool_mutex
    crit,       \* program point and locals of that caller
    held,       \* held[t]: the node t's last select_node returned
    sweep,      \* sweep[s]: program point and locals of a health sweep
    \* History: what happened since the mutex was last taken, what `switch`
    \* last asked for, whose turn it was.  No action reads these.
    wasDown,    \* objects that were offline at some moment
    wasUp,      \* objects that were online at some moment
    moved,      \* objects whose latency changed
    pinned,     \* position of the node last asked for, 0 for none
    rrLast      \* position the last round-robin scan returned, -1 unknown

node     == <<alive, latency, fails>>
mode     == <<strategy, override, pinned>>
turn     == <<rr, rrLast>>
list     == <<gen, names>>
inside   == <<lock, crit>>
poolVars == <<list, node, mode, turn, inside, held, sweep,
              wasDown, wasUp, moved>>

-----------------------------------------------------------------------------
Pool    == names[gen]
Size    == Len(Pool)
At(i)   == <<gen, i>>
NameOf(o) == names[o[1]][o[2]]

OutOfLock  == [at |-> "out", i |-> 0, best |-> 0, ms |-> 0]
ScanPoints == {"override", "best_alive", "best_latency", "round_robin",
               "failover"}
MarkPoints == {"set_offline", "reset_fails", "set_latency"}

\* The first position of a name, where the loops over `nodes` stop; empty
\* when no node has it.
FirstOf(n) == {i \in 1 .. Size :
                  Pool[i] = n /\ \A j \in 1 .. i - 1 : Pool[j] # n}

Bump(k) == IF k < FailCap THEN k + 1 ELSE FailCap

IdleSweep == [at |-> "idle", gen |-> 0, i |-> 0, lat |-> -1]

PoolInit ==
    /\ gen = 0
    /\ \E p \in Pools : names = [g \in 0 .. MaxReloads |->
                                    IF g = 0 THEN p ELSE <<>>]
    /\ alive = [o \in Obj |-> TRUE]
    /\ latency = [o \in Obj |-> 0]
    /\ fails = [o \in Obj |-> 0]
    /\ strategy \in Strategies
    /\ override = NoName
    /\ rr = 0
    /\ lock = Free
    /\ crit = OutOfLock
    /\ held = [t \in Callers |-> NoNode]
    /\ sweep = [s \in Sweepers |-> IdleSweep]
    /\ wasDown = {}
    /\ wasUp = {}
    /\ moved = {}
    /\ pinned = 0
    /\ rrLast = 0

-----------------------------------------------------------------------------
(* History.  The window runs from the step that takes the mutex to the one *)
(* that frees it.                                                          *)

Watch ==
    LET during(seen, now) == IF lock' = Free THEN {} ELSE seen \cup now
    IN /\ wasDown' = during(wasDown, {o \in Obj : ~alive'[o]})
       /\ wasUp' = during(wasUp, {o \in Obj : alive'[o]})
       /\ moved' = during(moved, {o \in Obj : latency'[o] # latency[o]})

-----------------------------------------------------------------------------
(* select_node: one action per load of an atomic, all of them under        *)
(* pool_mutex.                                                             *)

Release    == lock' = Free /\ crit' = OutOfLock
Hold(t, c) == lock' = t /\ crit' = c

ScanAt(p, k) == [at |-> p, i |-> k, best |-> 0, ms |-> 0]

\* Mutant: the loops of select_node start at the second node.
StrategyScanFromSecond ==
    ScanAt(CASE strategy = "BEST_LATENCY" -> "best_alive"
             [] strategy = "ROUND_ROBIN"  -> "round_robin"
             [] OTHER                     -> "failover",
           IF Size > 1 THEN 2 ELSE 1)

StrategyScan ==
    ScanAt(CASE strategy = "BEST_LATENCY" -> "best_alive"
             [] strategy = "ROUND_ROBIN"  -> "round_robin"
             [] OTHER                     -> "failover", 1)

Return(t, o) ==
    /\ held' = [held EXCEPT ![t] = o]
    /\ Release

GoOn(t, c) == Hold(t, c) /\ UNCHANGED held

SelectNode(t) ==
    /\ lock = Free
    /\ \/ /\ Size = 0
          /\ Return(t, NoNode)
       \/ /\ Size > 0
          /\ GoOn(t, IF override # NoName THEN ScanAt("override", 1)
                                          ELSE StrategyScan)
    /\ UNCHANGED <<list, node, mode, turn, sweep>> /\ Watch

\* Mutant: the override loop gives up at the first node that does not match.
ScanOverrideGivesUp(t) ==
    /\ lock = t /\ crit.at = "override"
    /\ LET hit == Pool[crit.i] = override /\ alive[At(crit.i)]
       IN \/ hit /\ Return(t, At(crit.i))
          \/ ~hit /\ GoOn(t, StrategyScan)
    /\ UNCHANGED <<list, node, mode, turn, sweep>> /\ Watch

\* A name that does not match is passed over without a load of `alive`.
ScanOverride(t) ==
    /\ lock = t /\ crit.at = "override"
    /\ LET hit == Pool[crit.i] = override /\ alive[At(crit.i)]
       IN \/ hit /\ Return(t, At(crit.i))
          \/ ~hit /\ crit.i < Size /\ GoOn(t, ScanAt("override", crit.i + 1))
          \/ ~hit /\ crit.i = Size /\ GoOn(t, StrategyScan)
    /\ UNCHANGED <<list, node, mode, turn, sweep>> /\ Watch

\* The end of one iteration of the BEST_LATENCY loop, with the best so far.
NextBest(t, c) ==
    \/ /\ crit.i < Size
       /\ GoOn(t, [c EXCEPT !.at = "best_alive", !.i = crit.i + 1])
    \/ /\ crit.i = Size /\ c.best # 0
       /\ Return(t, At(c.best))
    \/ /\ crit.i = Size /\ c.best = 0
       /\ GoOn(t, ScanAt("failover", 1))

ScanBestAlive(t) ==
    /\ lock = t /\ crit.at = "best_alive"
    /\ \/ alive[At(crit.i)] /\ GoOn(t, [crit EXCEPT !.at = "best_latency"])
       \/ ~alive[At(crit.i)] /\ NextBest(t, crit)
    /\ UNCHANGED <<list, node, mode, turn, sweep>> /\ Watch

\* Mutant: the comparison keeps the slower node.
FasterInverted(lat) == lat >= 0 /\ (crit.best = 0 \/ lat > crit.ms)

Faster(lat) == lat >= 0 /\ (crit.best = 0 \/ lat < crit.ms)

ScanBestLatency(t) ==
    /\ lock = t /\ crit.at = "best_latency"
    /\ LET lat == latency[At(crit.i)]
       IN NextBest(t, IF Faster(lat)
                      THEN [crit EXCEPT !.best = crit.i, !.ms = lat]
                      ELSE crit)
    /\ UNCHANGED <<list, node, mode, turn, sweep>> /\ Watch

\* Mutant: ++round_robin_idx for round_robin_idx++.
RRIndexPreIncrement == ((rr + 1) % Size) + 1

RRIndex == (rr % Size) + 1

ScanRoundRobin(t) ==
    /\ lock = t /\ crit.at = "round_robin"
    /\ rr' = (rr + 1) % RRPeriod
    /\ LET up == alive[At(RRIndex)]
       IN \/ /\ up
             /\ Return(t, At(RRIndex)) /\ rrLast' = RRIndex
          \/ /\ ~up /\ UNCHANGED rrLast
             /\ GoOn(t, IF crit.i < Size THEN ScanAt("round_robin", crit.i + 1)
                                         ELSE ScanAt("failover", 1))
    /\ UNCHANGED <<list, node, mode, sweep>> /\ Watch

\* Mutant: fall back at the first node that is offline.
ScanFailoverGivesUp(t) ==
    /\ lock = t /\ crit.at = "failover"
    /\ Return(t, At(IF alive[At(crit.i)] THEN crit.i ELSE 1))
    /\ UNCHANGED <<list, node, mode, turn, sweep>> /\ Watch

\* The last load of the scan and the fallback to nodes.front() are one step.
ScanFailover(t) ==
    /\ lock = t /\ crit.at = "failover"
    /\ LET up == alive[At(crit.i)]
       IN \/ up /\ Return(t, At(crit.i))
          \/ ~up /\ crit.i < Size
                 /\ GoOn(t, ScanAt("failover", crit.i + 1))
          \/ ~up /\ crit.i = Size /\ Return(t, At(1))
    /\ UNCHANGED <<list, node, mode, turn, sweep>> /\ Watch

-----------------------------------------------------------------------------
(* mark_node_failure and mark_node_success: by name, under pool_mutex, one *)
(* action per store.                                                       *)

MarkAt(p, k, lat) == [at |-> p, i |-> k, best |-> 0, ms |-> lat]

\* Mutant: > for >= in the test of the counter.
MarkFailureLate(t, n) ==
    /\ lock = Free
    /\ \E i \in FirstOf(n) :
          /\ fails' = [fails EXCEPT ![At(i)] = Bump(@)]
          /\ \/ Bump(fails[At(i)]) > 2 /\ Hold(t, MarkAt("set_offline", i, 0))
             \/ Bump(fails[At(i)]) <= 2 /\ Release
    /\ UNCHANGED <<list, alive, latency, mode, turn, held, sweep>> /\ Watch

MarkFailure(t, n) ==
    /\ lock = Free
    /\ \E i \in FirstOf(n) :
          /\ fails' = [fails EXCEPT ![At(i)] = Bump(@)]
          /\ \/ Bump(fails[At(i)]) >= 2 /\ Hold(t, MarkAt("set_offline", i, 0))
             \/ Bump(fails[At(i)]) < 2 /\ Release
    /\ UNCHANGED <<list, alive, latency, mode, turn, held, sweep>> /\ Watch

SetOffline(t) ==
    /\ lock = t /\ crit.at = "set_offline"
    /\ alive' = [alive EXCEPT ![At(crit.i)] = FALSE]
    /\ Release
    /\ UNCHANGED <<list, latency, fails, mode, turn, held, sweep>> /\ Watch

MarkSuccess(t, n, lat) ==
    /\ lock = Free
    /\ \E i \in FirstOf(n) :
          /\ alive' = [alive EXCEPT ![At(i)] = TRUE]
          /\ Hold(t, MarkAt("reset_fails", i, lat))
    /\ UNCHANGED <<list, latency, fails, mode, turn, held, sweep>> /\ Watch

ResetFails(t) ==
    /\ lock = t /\ crit.at = "reset_fails"
    /\ fails' = [fails EXCEPT ![At(crit.i)] = 0]
    /\ Hold(t, [crit EXCEPT !.at = "set_latency"])
    /\ UNCHANGED <<list, alive, latency, mode, turn, held, sweep>> /\ Watch

SetLatency(t) ==
    /\ lock = t /\ crit.at = "set_latency"
    /\ latency' = [latency EXCEPT ![At(crit.i)] = crit.ms]
    /\ Release
    /\ UNCHANGED <<list, alive, fails, mode, turn, held, sweep>> /\ Watch

\* The mark of a name the reloaded list no longer holds changes nothing.
MarkUnlisted(t, n) ==
    /\ lock = Free /\ FirstOf(n) = {}
    /\ UNCHANGED <<list, node, mode, turn, inside, held, sweep>> /\ Watch

-----------------------------------------------------------------------------
(* run_health_check_all: the copy under the mutex, the rest without it.    *)

SweepBegin(s) ==
    /\ sweep[s].at = "idle"
    /\ lock = Free
    /\ Size > 0
    /\ sweep' = [sweep EXCEPT ![s] =
                    [at |-> "probe", gen |-> gen, i |-> 1, lat |-> -1]]
    /\ UNCHANGED <<list, node, mode, turn, inside, held>> /\ Watch

SweepNode(s) == <<sweep[s].gen, sweep[s].i>>

\* probe_node: a round-trip time, or -1 when the node does not answer.
Probe(s, lat) ==
    /\ sweep[s].at = "probe"
    /\ sweep' = [sweep EXCEPT ![s].at = "alive", ![s].lat = lat]
    /\ UNCHANGED <<list, node, mode, turn, inside, held>> /\ Watch

\* Mutant: a probe that gets through does not put the node online again.
SweepAliveOneWay(s) ==
    /\ sweep[s].at = "alive"
    /\ alive' = [alive EXCEPT ![SweepNode(s)] = @ /\ sweep[s].lat >= 0]
    /\ sweep' = [sweep EXCEPT ![s].at = "latency"]
    /\ UNCHANGED <<list, latency, fails, mode, turn, inside, held>> /\ Watch

SweepAlive(s) ==
    /\ sweep[s].at = "alive"
    /\ alive' = [alive EXCEPT ![SweepNode(s)] = (sweep[s].lat >= 0)]
    /\ sweep' = [sweep EXCEPT ![s].at = "latency"]
    /\ UNCHANGED <<list, latency, fails, mode, turn, inside, held>> /\ Watch

SweepLatency(s) ==
    /\ sweep[s].at = "latency"
    /\ latency' = [latency EXCEPT ![SweepNode(s)] = sweep[s].lat]
    /\ sweep' = [sweep EXCEPT ![s].at = "fails"]
    /\ UNCHANGED <<list, alive, fails, mode, turn, inside, held>> /\ Watch

\* Mutants: walk the present vector instead of the copy; probe a node that
\* failed again before going on to the next.
SweepTo(s, more, step) ==
    /\ sweep[s].at = "fails"
    /\ fails' = [fails EXCEPT ![SweepNode(s)] =
                    IF sweep[s].lat >= 0 THEN 0 ELSE Bump(@)]
    /\ LET w == sweep[s]
       IN sweep' = [sweep EXCEPT ![s] =
              IF more
              THEN [w EXCEPT !.at = "probe", !.i = w.i + step, !.lat = -1]
              ELSE IdleSweep]
    /\ UNCHANGED <<list, alive, latency, mode, turn, inside, held>> /\ Watch
SweepFailsWrongList(s) == SweepTo(s, sweep[s].i < Size, 1)
SweepFailsRetries(s) ==
    SweepTo(s, sweep[s].lat < 0 \/ sweep[s].i < Len(names[sweep[s].gen]),
            IF sweep[s].lat < 0 THEN 0 ELSE 1)

SweepFails(s) ==
    /\ sweep[s].at = "fails"
    /\ fails' = [fails EXCEPT ![SweepNode(s)] =
                    IF sweep[s].lat >= 0 THEN 0 ELSE Bump(@)]
    /\ LET w == sweep[s]
       IN sweep' = [sweep EXCEPT ![s] =
              IF w.i < Len(names[w.gen])
              THEN [w EXCEPT !.at = "probe", !.i = w.i + 1, !.lat = -1]
              ELSE IdleSweep]
    /\ UNCHANGED <<list, alive, latency, mode, turn, inside, held>> /\ Watch

-----------------------------------------------------------------------------
(* The operations that only touch what pool_mutex protects: one step each, *)
(* taken while nobody is inside.                                           *)

AutoWords == {"auto", "default"}

IsIndex(w) == w \notin AutoWords /\ LeadingNumber[w] \in 1 .. Size

\* What a word means to the operator: node #k, or the node of that name.
Meant(w) == IF w \in AutoWords THEN {0}
            ELSE IF w \in Numerals THEN {LeadingNumber[w]}
            ELSE IF FirstOf(w) # {} THEN FirstOf(w)
            ELSE {0}

\* A word that is none of these makes it return false and change nothing.
ManualSelect(w) ==
    /\ lock = Free
    /\ \/ w \in AutoWords /\ override' = NoName
       \/ IsIndex(w) /\ override' = Pool[LeadingNumber[w]]
       \/ w \notin AutoWords /\ ~IsIndex(w) /\ FirstOf(w) # {} /\ override' = w
    /\ pinned' \in Meant(w)
    /\ UNCHANGED <<list, node, strategy, turn, inside, held, sweep>> /\ Watch

SetStrategy(st) ==
    /\ lock = Free
    /\ strategy' = st
    /\ override' = NoName
    /\ pinned' = 0
    /\ UNCHANGED <<list, node, turn, inside, held, sweep>> /\ Watch

\* init, called again by setup_pool on a reload.  It keeps the override and
\* the round-robin counter.
Reload(p, st) ==
    /\ lock = Free
    /\ gen < MaxReloads
    /\ gen' = gen + 1
    /\ names' = [names EXCEPT ![gen + 1] = p]
    /\ alive' = [o \in Obj |-> IF o[1] = gen + 1 THEN TRUE ELSE alive[o]]
    /\ latency' = [o \in Obj |-> IF o[1] = gen + 1 THEN 0 ELSE latency[o]]
    /\ fails' = [o \in Obj |-> IF o[1] = gen + 1 THEN 0 ELSE fails[o]]
    /\ strategy' = st
    /\ pinned' = 0
    /\ rrLast' = -1
    /\ UNCHANGED <<override, rr, inside, held, sweep>> /\ Watch

-----------------------------------------------------------------------------
CallStep(t) ==
    \/ SelectNode(t) \/ ScanOverride(t) \/ ScanBestAlive(t)
    \/ ScanBestLatency(t) \/ ScanRoundRobin(t) \/ ScanFailover(t)

MarkStep(t) == SetOffline(t) \/ ResetFails(t) \/ SetLatency(t)

\* mark_node_* is called with the name of a node the thread selected.
MarkCall(t) ==
    /\ held[t] # NoNode
    /\ \/ MarkFailure(t, NameOf(held[t]))
       \/ \E lat \in Latencies : MarkSuccess(t, NameOf(held[t]), lat)
       \/ MarkUnlisted(t, NameOf(held[t]))

SweepStep(s) == SweepAlive(s) \/ SweepLatency(s) \/ SweepFails(s)

PoolNext ==
    \/ \E t \in Callers : CallStep(t) \/ MarkStep(t) \/ MarkCall(t)
    \/ \E s \in Sweepers :
          \/ SweepBegin(s) \/ SweepStep(s)
          \/ \E lat \in Latencies \cup {-1} : Probe(s, lat)
    \/ \E w \in Words : ManualSelect(w)
    \/ \E st \in Strategies : SetStrategy(st)
    \/ \E p \in Pools, st \in Strategies : Reload(p, st)

PoolSpec == PoolInit /\ [][PoolNext]_poolVars

-----------------------------------------------------------------------------
SweepPoints == {"idle", "probe", "alive", "latency", "fails"}

ListOK ==
    /\ gen \in 0 .. MaxReloads
    /\ names \in [0 .. MaxReloads -> Seq(Names)]
    /\ \A g \in 0 .. MaxReloads : Len(names[g]) <= MaxNodes

NodeOK ==
    /\ alive \in [Obj -> BOOLEAN]
    /\ latency \in [Obj -> Latencies \cup {-1, 0}]
    /\ fails \in [Obj -> 0 .. FailCap]

ModeOK ==
    /\ strategy \in Strategies
    /\ override \in Names \cup {NoName}
    /\ pinned \in Nat
    /\ rr \in 0 .. RRPeriod - 1
    /\ rrLast \in -1 .. MaxNodes

InsideOK ==
    /\ lock \in Callers \cup {Free}
    /\ crit \in [at : {"out"} \cup ScanPoints \cup MarkPoints,
                 i : 0 .. MaxNodes, best : 0 .. MaxNodes,
                 ms : Latencies \cup {0}]
    /\ lock = Free => crit = OutOfLock
    /\ lock # Free => /\ crit.at # "out"
                      /\ crit.i \in 1 .. Size
                      /\ crit.best <= Size

HeldOK == held \in [Callers -> Obj \cup {NoNode}]

SweepOK ==
    /\ sweep \in [Sweepers -> [at : SweepPoints, gen : 0 .. MaxReloads,
                               i : 0 .. MaxNodes, lat : Latencies \cup {-1}]]
    /\ \A s \in Sweepers : sweep[s].at # "idle" =>
          sweep[s].gen <= gen /\ sweep[s].i \in 1 .. Len(names[sweep[s].gen])

WindowOK == wasDown \subseteq Obj /\ wasUp \subseteq Obj /\ moved \subseteq Obj

\* Every variable has its type, and no cursor leaves its vector: a scan is
\* advanced under one condition and read under another, and the copy a sweep
\* walks outlives the reload that replaces the vector.
TypeOK == ListOK /\ NodeOK /\ ModeOK /\ InsideOK /\ HeldOK /\ SweepOK /\ WindowOK

-----------------------------------------------------------------------------
(* What a scan has established by the time it stands where it stands.      *)

\* Every object has been seen in its present state since the mutex was taken.
Seen == lock # Free =>
           \A o \in Obj : o \in (IF alive[o] THEN wasUp ELSE wasDown)

\* Nodes the override scan has passed, all of them once it is over.
OverridePassed ==
    crit.at \in ScanPoints /\ override # NoName =>
        \A j \in 1 .. Size :
            /\ Pool[j] = override
            /\ crit.at = "override" => j < crit.i
            => At(j) \in wasDown

FailoverPassed ==
    crit.at = "failover" => \A j \in 1 .. crit.i - 1 : At(j) \in wasDown

BestPassed ==
    crit.at \in {"best_alive", "best_latency"} =>
        /\ crit.at = "best_latency" => At(crit.i) \in wasUp
        /\ crit.best # 0 =>
              /\ At(crit.best) \in wasUp
              /\ At(crit.best) \in moved \/ latency[At(crit.best)] = crit.ms
        /\ \A j \in 1 .. crit.i - 1 :
              \/ At(j) \in wasDown \cup moved \/ latency[At(j)] < 0
              \/ crit.best # 0 /\ crit.ms <= latency[At(j)]

\* The inductive invariant behind what select_node promises: whatever the
\* sweeps store while a scan runs, each node the scan has passed was offline
\* at some moment of the call, or is no better than the best so far.
ScanInv == Seen /\ OverridePassed /\ FailoverPassed /\ BestPassed

\* select_node of t returns in this step, from a pool that is not empty.
Returns(t) == lock = t /\ lock' = Free /\ crit.at \in ScanPoints

Others(o) == {At(i) : i \in 1 .. Size} \ {o}

\* select_node hands out a node that was offline during the whole call only
\* when every other node was offline at some moment of the call: the fallback
\* to nodes.front() is never taken past a healthy node, under any strategy
\* and whatever the sweeps write meanwhile.
NoNeedlessFallbackStep ==
    \A t \in Callers : Returns(t) /\ held'[t] \notin wasUp =>
        Others(held'[t]) \subseteq wasDown
NoNeedlessFallback == [][NoNeedlessFallbackStep]_poolVars

\* The failover scan returns a node only if each node before it was offline
\* at some moment of the call: the primary is never passed over while it
\* stays healthy.
FailoverInOrderStep ==
    \A t \in Callers : Returns(t) /\ crit.at = "failover" =>
        \A i \in 1 .. held'[t][2] - 1 : At(i) \in wasDown
FailoverInOrder == [][FailoverInOrderStep]_poolVars

\* A configuration and an operator that leave no doubt which node is meant.
Unambiguous ==
    /\ \A p \in Pools : \A i, j \in 1 .. Len(p) : p[i] = p[j] => i = j
    /\ \A w \in Words : LeadingNumber[w] # 0 => w \in Numerals
    /\ Names \cap Numerals = {}

\* `switch` pins: until the next `switch`, strategy change or reload, every
\* call returns the node the operator asked for, unless that node was
\* offline at some moment of the call.
PinHonouredStep ==
    \A t \in Callers :
        Returns(t) /\ pinned # 0 /\ At(pinned) \notin wasDown =>
            held'[t] = At(pinned)
PinHonoured == [][PinHonouredStep]_poolVars

\* The node BEST_LATENCY returns is no slower than any node that was online
\* with the same measured latency during the whole call.
BestIsFastestStep ==
    \A t \in Callers :
        Returns(t) /\ crit.at \in {"best_alive", "best_latency"} =>
            \A i \in 1 .. Size :
                \/ At(i) \in wasDown \cup moved \/ latency[At(i)] < 0
                \/ held'[t] \in moved
                \/ latency[held'[t]] <= latency[At(i)]
BestIsFastest == [][BestIsFastestStep]_poolVars

\* Cyclic distance from the node round robin returned last.
TurnsTo(i) == (i - rrLast - 1) % Size

\* ROUND_ROBIN takes turns: between the node it returned last and the one it
\* returns now it passes over a node only if that node was offline at some
\* moment of the call, whatever pins, failover scans and strategy changes
\* came in between.
RoundRobinTakesTurnsStep ==
    \A t \in Callers :
        Returns(t) /\ crit.at = "round_robin" /\ rrLast # -1 =>
            \A i \in 1 .. Size :
                TurnsTo(i) < TurnsTo(held'[t][2]) => At(i) \in wasDown
RoundRobinTakesTurns == [][RoundRobinTakesTurnsStep]_poolVars

\* No sweep is between its first and its last store to the node, and no
\* caller is between the two halves of a mark.
Settled(o) ==
    /\ lock = Free
    /\ \A s \in Sweepers : sweep[s].at \in {"latency", "fails"} => SweepNode(s) # o

\* The breaker trips at two failures, but the stores of a failing sweep are
\* not atomic: each sweep in flight can add one failure to a node a success
\* has just put back online, and no more than that.
OverrunBound ==
    \A o \in Obj : Settled(o) /\ alive[o] => fails[o] <= 1 + Cardinality(Sweepers)

\* A health sweep always reaches the end of the list it copied.
SweepEnds == \A s \in Sweepers : sweep[s].at = "probe" ~> sweep[s].at = "idle"

-----------------------------------------------------------------------------
(* What the help text of the console says, where the code does otherwise.  *)

\* FAILS "triggers auto-failover at 2": no node stays online with two
\* failures once the stores in flight are done.
OnlineBelowThreshold == \A o \in Obj : Settled(o) /\ alive[o] => fails[o] < 2

\* LATENCY is "round-trip handshake ping in milliseconds": a node shown as
\* online has one, and is not left with the -1 of a failed probe.
OnlineHasLatency == \A o \in Obj : Settled(o) /\ alive[o] => latency[o] >= 0

\* best_latency goes to the node with the "lowest measured ping latency":
\* init leaves 0 where nothing was measured yet.
BestIsMeasuredStep ==
    \A t \in Callers :
        Returns(t) /\ crit.at = "best_latency" => latency[held'[t]] # 0
BestIsMeasured == [][BestIsMeasuredStep]_poolVars

\* FAILS is the "consecutive connection failure counter" of a node: a caller
\* charges a failure to the node its connection went through.
ChargedNodeWasUsedStep ==
    \A o \in Obj :
        fails'[o] > fails[o] /\ UNCHANGED sweep =>
            \E t \in Callers : held[t] = o
ChargedNodeWasUsed == [][ChargedNodeWasUsedStep]_poolVars
=============================================================================
