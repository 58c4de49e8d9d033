---------------------------- MODULE ConnectTarget ----------------------------
(***************************************************************************)
(* How a client's connection finds its way out (connect_target in          *)
(* src/upstream.cpp), in the server that holds the configuration, the      *)
(* router and the pool (src/tunnel.cpp), while the console reloads the     *)
(* configuration and the network comes and goes.                           *)
(*                                                                         *)
(* Connection threads read the configuration and the rules by reference,   *)
(* with no lock, while update_config overwrites them one after the other;  *)
(* only the pool has a mutex.  The pool is that of UpstreamPool, step by   *)
(* step: every behaviour of this module is a behaviour of PoolSpec.        *)
(*                                                                         *)
(* The router is what its rules say of the targets of a run: `rule` is the *)
(* action of the rule that matches them, "none" when no rule does.         *)
(***************************************************************************)
EXTENDS UpstreamPool

CONSTANTS
    Configs,    \* the configurations a file may hold
    Default,    \* a default-constructed Config
    Broken,     \* contents that cannot be parsed
    Targets,    \* destinations the clients ask for
    Refusing,   \* destinations that no node connects to
    MaxFlips,   \* bound: changes of what the network lets through
    Reused      \* threads that serve one client after another

Actions == {"DIRECT", "PROXY", "REJECT"}
ConfigType == [smart : BOOLEAN, kill : BOOLEAN, rule : Actions \cup {"none"},
               default : Actions, pool : Pools, strategy : Strategies]

ASSUME ConfigAssumption ==
    /\ Configs \subseteq ConfigType
    /\ Default \in ConfigType
    /\ Broken \notin Configs

ASSUME TargetAssumption ==
    /\ Refusing \subseteq Targets
    /\ Reused \subseteq Callers
    /\ MaxFlips \in Nat

VARIABLES
    cfg,        \* TunnelServer::config, the fields connect_target reads
    router,     \* TunnelServer::router
    reload,     \* the console inside update_config
    conn,       \* conn[t]: program point and locals of connect_target
    up,         \* the names of the nodes that answer a probe
    serving,    \* the names of the nodes that carry an attempt through
    flips

connVars == <<poolVars, cfg, router, reload, conn, up, serving, flips>>

Finished == {"rejected", "direct", "blocked", "fallback", "proxied", "failed"}
Running  == {"route", "select", "no_node", "try", "success", "failure",
             "reselect", "retry", "success2", "failure2"}

\* A server whose start has returned: setup_pool ran before the listener.
ServerRoute(d) == IF d = "DIRECT" THEN "DIRECT" ELSE "PROXY"

\* Contents that cannot be parsed leave Config as it was constructed.
LoadFromFile(f) == IF f = Broken THEN Default ELSE f

Idle == [at |-> "idle", target |-> "", seen |-> {}, calm |-> FALSE]

ConnectInit ==
    /\ PoolInit
    /\ \E c \in Configs :
          /\ names[0] = c.pool /\ strategy = c.strategy
          /\ cfg = [smart |-> c.smart, kill |-> c.kill]
          /\ router = [rule |-> c.rule, default |-> ServerRoute(c.default),
                       stale |-> {}]
          /\ reload = [at |-> "idle", old |-> c, new |-> c]
    /\ conn = [t \in Callers |-> Idle]
    /\ up \in SUBSET Names /\ serving \in SUBSET Names
    /\ flips = 0

-----------------------------------------------------------------------------
(* update_config: the assignment of Config member by member, then          *)
(* setup_pool: pool.init, then load_rules.                                 *)

Then(p) == reload' = [reload EXCEPT !.at = p]

\* History: the configurations in force while a connection is under way, and
\* whether no reload has overlapped it.
InForce == IF reload.at = "idle" THEN {reload.new} ELSE {reload.old, reload.new}

ReloadBegin(f) ==
    /\ reload.at = "idle" /\ gen < MaxReloads
    /\ reload' = [at |-> "smart", old |-> reload.new, new |-> LoadFromFile(f)]
    /\ conn' = [t \in Callers |-> IF conn[t].at \in Running
                   THEN [conn[t] EXCEPT !.seen = @ \cup {LoadFromFile(f)},
                                        !.calm = FALSE]
                   ELSE conn[t]]
    /\ UNCHANGED <<poolVars, cfg, router, up, serving, flips>>

StoreSmart ==
    /\ reload.at = "smart" /\ Then("kill")
    /\ cfg' = [cfg EXCEPT !.smart = reload.new.smart]
    /\ UNCHANGED <<poolVars, router, conn, up, serving, flips>>

StoreKill ==
    /\ reload.at = "kill" /\ Then("pool")
    /\ cfg' = [cfg EXCEPT !.kill = reload.new.kill]
    /\ UNCHANGED <<poolVars, router, conn, up, serving, flips>>

\* Mutant: the nodes are replaced in place and keep their state.
InitPoolInPlace ==
    /\ reload.at = "pool" /\ Then("clear")
    /\ names' = [names EXCEPT ![gen] = reload.new.pool]
    /\ UNCHANGED <<gen, node, mode, turn, inside, held, sweep, wasDown, wasUp,
                   moved, cfg, router, conn, up, serving, flips>>

InitPool ==
    /\ reload.at = "pool" /\ Then("clear")
    /\ Reload(reload.new.pool, reload.new.strategy)
    /\ UNCHANGED <<cfg, router, conn, up, serving, flips>>

\* Mutant: the router starts afresh, its default policy with it.
ClearRulesResets ==
    /\ reload.at = "clear" /\ Then("default")
    /\ router' = [rule |-> "none", default |-> "PROXY",
                  stale |-> {router.rule} \ {"none"}]
    /\ UNCHANGED <<poolVars, cfg, conn, up, serving, flips>>

\* A match that overlaps the load may still read an element just destroyed.
ClearRules ==
    /\ reload.at = "clear" /\ Then("default")
    /\ router' = [router EXCEPT !.rule = "none",
                                !.stale = {router.rule} \ {"none"}]
    /\ UNCHANGED <<poolVars, cfg, conn, up, serving, flips>>

\* Mutant: load_rules leaves the default policy alone.
SetDefaultForgotten ==
    /\ reload.at = "default" /\ Then("rules")
    /\ UNCHANGED <<poolVars, cfg, router, conn, up, serving, flips>>

SetDefault ==
    /\ reload.at = "default" /\ Then("rules")
    /\ router' = [router EXCEPT !.default = ServerRoute(reload.new.default)]
    /\ UNCHANGED <<poolVars, cfg, conn, up, serving, flips>>

\* The rules of the file are appended to those that are there.
FillRules ==
    /\ reload.at = "rules" /\ Then("idle")
    /\ router' = [router EXCEPT !.rule = IF @ = "none" THEN reload.new.rule ELSE @,
                                !.stale = {}]
    /\ UNCHANGED <<poolVars, cfg, conn, up, serving, flips>>

ReloadStep ==
    \/ StoreSmart \/ StoreKill \/ InitPool
    \/ ClearRules \/ SetDefault \/ FillRules

-----------------------------------------------------------------------------
(* connect_target of thread t.                                             *)

Go(t, p) == conn' = [conn EXCEPT ![t].at = p]
Elsewhere == <<cfg, router, reload, up, serving, flips>>

Accept(t, target) ==
    /\ \/ conn[t].at = "idle"
       \/ conn[t].at \in Finished /\ t \in Reused
    /\ conn' = [conn EXCEPT ![t] =
                   [at |-> "route", target |-> target, seen |-> InForce,
                    calm |-> (reload.at = "idle")]]
    /\ UNCHANGED <<poolVars, Elsewhere>>

Matches ==
    IF cfg.smart
    THEN {IF router.rule = "none" THEN router.default ELSE router.rule}
            \cup router.stale
    ELSE {"PROXY"}

Route(t) ==
    /\ conn[t].at = "route"
    /\ \E a \in Matches :
          \/ a = "REJECT" /\ Go(t, "rejected")
          \/ a = "DIRECT" /\ Go(t, "direct")
          \/ a = "PROXY" /\ Go(t, "select")
    /\ UNCHANGED <<poolVars, Elsewhere>>

\* Mutant: the selection is not tested for null.
SelectUnchecked(t) ==
    /\ conn[t].at = "select"
    /\ CallStep(t)
    /\ \/ lock' = t /\ UNCHANGED conn
       \/ lock' = Free /\ Go(t, "try")
    /\ UNCHANGED Elsewhere

Select(t) ==
    /\ conn[t].at = "select"
    /\ CallStep(t)
    /\ \/ lock' = t /\ UNCHANGED conn
       \/ lock' = Free /\ held'[t] = NoNode /\ Go(t, "no_node")
       \/ lock' = Free /\ held'[t] # NoNode /\ Go(t, "try")
    /\ UNCHANGED Elsewhere

\* Mutant: the kill switch is tested the wrong way round.
NoNodeInverted(t) ==
    /\ conn[t].at = "no_node"
    /\ Go(t, IF cfg.kill THEN "fallback" ELSE "blocked")
    /\ UNCHANGED <<poolVars, Elsewhere>>

NoNodeLeft(t) ==
    /\ conn[t].at = "no_node"
    /\ Go(t, IF cfg.kill THEN "blocked" ELSE "fallback")
    /\ UNCHANGED <<poolVars, Elsewhere>>

\* connect_via_node: the node's whole handshake gets through and it reaches
\* the target, or not, whatever a probe says of the node.
Connects(t) == NameOf(held[t]) \in serving /\ conn[t].target \notin Refusing

Try(t) ==
    /\ \/ conn[t].at = "try"
          /\ Go(t, IF Connects(t) THEN "success" ELSE "failure")
       \/ conn[t].at = "retry"
          /\ Go(t, IF Connects(t) THEN "success2" ELSE "failure2")
    /\ UNCHANGED <<poolVars, Elsewhere>>

\* After a mark: nothing while inside pool_mutex, then on to p.
Marked(t, p) ==
    /\ \/ lock' = t /\ UNCHANGED conn
       \/ lock' = Free /\ Go(t, p)
    /\ UNCHANGED Elsewhere

Succeed(t) ==
    /\ conn[t].at \in {"success", "success2"}
    /\ \/ \E lat \in Latencies : MarkSuccess(t, NameOf(held[t]), lat)
       \/ MarkUnlisted(t, NameOf(held[t]))
       \/ lock = t /\ MarkStep(t)
    /\ Marked(t, "proxied")

Fail(t) ==
    /\ conn[t].at \in {"failure", "failure2"}
    /\ \/ MarkFailure(t, NameOf(held[t]))
       \/ MarkUnlisted(t, NameOf(held[t]))
       \/ lock = t /\ MarkStep(t)
    /\ Marked(t, IF conn[t].at = "failure" THEN "reselect" ELSE "failed")

\* The backup must have another name than the node that failed.
IsBackup(t) == held'[t] # NoNode /\ NameOf(held'[t]) # NameOf(held[t])

\* Mutant: keep selecting until there is a backup.
ReselectWaits(t) ==
    /\ conn[t].at = "reselect"
    /\ CallStep(t)
    /\ \/ lock' = t /\ UNCHANGED conn
       \/ lock' = Free /\ Go(t, IF IsBackup(t) THEN "retry" ELSE "reselect")
    /\ UNCHANGED Elsewhere

Reselect(t) ==
    /\ conn[t].at = "reselect"
    /\ CallStep(t)
    /\ \/ lock' = t /\ UNCHANGED conn
       \/ lock' = Free /\ Go(t, IF IsBackup(t) THEN "retry" ELSE "failed")
    /\ UNCHANGED Elsewhere

ConnStep(t) ==
    \/ Route(t) \/ Select(t) \/ NoNodeLeft(t) \/ Try(t)
    \/ Succeed(t) \/ Fail(t) \/ Reselect(t)

-----------------------------------------------------------------------------
Toggle(n, S) == IF n \in S THEN S \ {n} ELSE S \cup {n}

Flip(n) ==
    /\ flips < MaxFlips
    /\ flips' = flips + 1
    /\ \/ up' = Toggle(n, up) /\ UNCHANGED serving
       \/ serving' = Toggle(n, serving) /\ UNCHANGED up
    /\ UNCHANGED <<poolVars, cfg, router, reload, conn>>

\* A probe asks for a TCP connection and the first byte of a reply: it gets
\* through to nodes that carry no attempt, and may miss nodes that do.
Answers(s) == names[sweep[s].gen][sweep[s].i] \in up

Health(s) ==
    /\ \/ SweepBegin(s) \/ SweepStep(s)
       \/ /\ sweep[s].at = "probe"
          /\ \E lat \in IF Answers(s) THEN Latencies ELSE {-1} : Probe(s, lat)
    /\ UNCHANGED <<cfg, router, reload, conn, up, serving, flips>>

Operator ==
    /\ \/ \E w \in Words : ManualSelect(w)
       \/ \E st \in Strategies : SetStrategy(st)
    /\ UNCHANGED <<cfg, router, reload, conn, up, serving, flips>>

ConnectNext ==
    \/ \E t \in Callers : ConnStep(t) \/ \E x \in Targets : Accept(t, x)
    \/ \E f \in Configs \cup {Broken} : ReloadBegin(f)
    \/ ReloadStep
    \/ \E s \in Sweepers : Health(s)
    \/ Operator
    \/ \E n \in Names : Flip(n)

\* Threads that have work run: a connection under way, a reload begun, a
\* sweep begun.  The timeouts of the sockets end every attempt.
ConnectFairness ==
    /\ \A t \in Callers : WF_connVars(ConnStep(t))
    /\ WF_connVars(ReloadStep)
    /\ \A s \in Sweepers : WF_connVars(sweep[s].at # "idle" /\ Health(s))

\* The checker comes back at every interval and is not starved of the mutex
\* by connections, which let go of it while they wait for the network.
CheckerFairness == \A s \in Sweepers : SF_connVars(Health(s))

ConnectSpec == ConnectInit /\ [][ConnectNext]_connVars
ConnectFairSpec == ConnectSpec /\ ConnectFairness /\ CheckerFairness

-----------------------------------------------------------------------------
Trying == Running \ {"route", "select", "no_node"}
ConnType == [at : {"idle"} \cup Running \cup Finished,
             target : Targets \cup {""}, seen : SUBSET ConfigType,
             calm : BOOLEAN]

ReloadPoints == {"idle", "smart", "kill", "pool", "clear", "default", "rules"}

\* Who is inside pool_mutex is in a call of the pool.
InsideIsCalling ==
    \A t \in Callers : lock = t =>
        conn[t].at \in {"select", "reselect", "success", "success2",
                        "failure", "failure2"}

\* The variables of the server and of its connections have their types, a
\* thread that tries or marks a node has one, and a thread inside pool_mutex
\* is where it will leave it.
ConnTypeOK ==
    /\ cfg \in [smart : BOOLEAN, kill : BOOLEAN]
    /\ router \in [rule : Actions \cup {"none"}, default : {"DIRECT", "PROXY"},
                   stale : SUBSET Actions]
    /\ reload \in [at : ReloadPoints, old : ConfigType, new : ConfigType]
    /\ conn \in [Callers -> ConnType]
    /\ \A t \in Callers : conn[t].at \in Trying => held[t] # NoNode
    /\ InsideIsCalling
    /\ up \subseteq Names /\ serving \subseteq Names
    /\ flips \in 0 .. MaxFlips

\* The pool of the running server is the pool of UpstreamPool: what is
\* checked and proved of PoolSpec holds of the whole.
PoolIsUsedAsSpecified == PoolSpec

\* A connection goes out directly for want of a node only if one of the
\* configurations in force since it was accepted lists no node, and one of
\* them leaves the kill switch off: no reload passes through a state in which
\* the pool is empty or the switch is off of itself.
FallbackIsConfigured ==
    \A t \in Callers : conn[t].at = "fallback" =>
        /\ \E c \in conn[t].seen : c.pool = <<>>
        /\ \E c \in conn[t].seen : ~c.kill

\* The inductive invariant behind it: where the reload stands tells which
\* configuration the switch and the pool are of, and a connection that found
\* no node remembers a configuration without one.
FallbackInv ==
    /\ \A t \in Callers : conn[t].at \in Running => InForce \subseteq conn[t].seen
    /\ cfg.kill = (IF reload.at \in {"smart", "kill"} THEN reload.old.kill
                   ELSE reload.new.kill)
    /\ Pool = (IF reload.at \in {"smart", "kill", "pool"} THEN reload.old.pool
               ELSE reload.new.pool)
    /\ \A t \in Callers : conn[t].at = "no_node" =>
          \E c \in conn[t].seen : c.pool = <<>>
    /\ FallbackIsConfigured

RouteOf(c) == IF ~c.smart THEN "PROXY"
              ELSE IF c.rule = "none" THEN c.default ELSE c.rule

EndsOf(a) == CASE a = "REJECT" -> {"rejected"}
               [] a = "DIRECT" -> {"direct"}
               [] a = "PROXY" -> Finished \ {"rejected", "direct"}

\* A connection no reload overlaps is treated as the configuration in force
\* says, whatever was loaded before it.
SettledRoute ==
    \A t \in Callers : conn[t].at \in Finished /\ conn[t].calm =>
        \A c \in conn[t].seen : conn[t].at \in EndsOf(RouteOf(c))

\* What the server may do with a connection while the fields of several
\* configurations, S, are in place one beside another.
Allows(S, a) ==
    CASE a = "DIRECT" -> /\ \E c \in S : c.smart
                         /\ \E c \in S : "DIRECT" \in {c.rule, c.default}
      [] a = "REJECT" -> /\ \E c \in S : c.smart
                         /\ \E c \in S : c.rule = "REJECT"
      [] a = "PROXY" -> \E c \in S : \/ ~c.smart
                                    \/ c.rule = "PROXY" \/ c.default # "DIRECT"

\* A connection that a reload overlaps, with the rules cleared and refilled
\* and the default route replaced under it, is routed only as one of the
\* configurations in force since it was accepted allows: it goes out directly
\* or is rejected only if one has routing on and one has a rule or a default
\* that says so, and it is given to the pool only if one leaves room for it.
RouteIsConfigured ==
    \A t \in Callers, a \in Actions :
        conn[t].at \in EndsOf(a) => Allows(conn[t].seen, a)

\* Every connection comes to an end: whoever takes pool_mutex lets go of it, and
\* no answer of the pool makes a thread ask again for ever, while sweeps store
\* into the nodes and the console, which reloads a bounded number of times,
\* replaces the pool and the rules.
ConnectionEnds ==
    \A t \in Callers : conn[t].at = "route" ~> conn[t].at \in Finished

\* Once the network stops changing, the alive flags agree with it for good,
\* whatever attempts and sweeps were under way: no stale mark and no lost
\* update leaves a node offline that answers probes and carries attempts, or
\* one online that does neither.  Assumed: no destination is refused, for a
\* refusal is marked on the node, and the two ways of asking a node agree;
\* where they do not, its flag may change for ever.
HealthConverges ==
    Refusing = {} =>
        <>[](\A i \in 1 .. Size :
                /\ Pool[i] \in up \cap serving => alive[At(i)]
                /\ Pool[i] \notin up \cup serving => ~alive[At(i)])

-----------------------------------------------------------------------------
(* What the documentation says, where the code does otherwise.             *)

\* "Kill switch (prevents real IP leak if proxy drops)": a connection falls
\* back to a direct one only under a configuration that asks for it.
FallbackOfOneConfig ==
    \A t \in Callers : conn[t].at = "fallback" =>
        \E c \in conn[t].seen : c.pool = <<>> /\ ~c.kill

\* The kill switch of the file stays on when the file is read again: no
\* connection goes out directly while every configuration written to the
\* file has it on.
KillSwitchStays ==
    (\A c \in Configs : c.kill) => \A t \in Callers : conn[t].at # "fallback"

\* REJECT: "Connection is immediately blocked and dropped", and the default
\* route may be REJECT: a connection that every configuration in force since
\* it was accepted rejects is rejected.
RejectIsBlocked ==
    \A t \in Callers :
        /\ conn[t].at \in (Running \cup Finished) \ {"route"}
        /\ \A c \in conn[t].seen : RouteOf(c) = "REJECT"
        => conn[t].at = "rejected"

\* STATUS: "ONLINE if reachable, OFFLINE if unresponsive".
ReachableIsOnline ==
    flips = 0 => \A i \in 1 .. Size : Pool[i] \in up \cap serving => alive[At(i)]

\* "Attempt 1 failed -> mark failure and try failover to backup node": a
\* connection does not give up after one attempt while another node was
\* online during the whole of its second selection.
FirstFailureFailsOverStep ==
    \A t \in Callers :
        conn[t].at = "reselect" /\ conn'[t].at = "failed" /\ Size > 0 =>
            Others(held'[t]) \subseteq wasDown
FirstFailureFailsOver == [][FirstFailureFailsOverStep]_connVars

\* STATUS, read for good: once the network stops changing, a node that
\* answers its probes is shown online.
ProbedIsOnline ==
    <>[](\A i \in 1 .. Size : Pool[i] \in up => alive[At(i)])
=============================================================================
