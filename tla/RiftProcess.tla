----------------------------- MODULE RiftProcess -----------------------------
(***************************************************************************)
(* The life of a Rift process, as a console program (src/main.cpp) or as a *)
(* Windows service (src/win_service.cpp), and what it does to the user's   *)
(* WinINet proxy settings (src/system_proxy.cpp).                          *)
(*                                                                         *)
(* Several threads start, stop and toggle the same things without a lock:  *)
(* the main thread and its console, the thread Windows creates for a       *)
(* console event, and the detached threads of the REST API.  A call is a   *)
(* sequence of steps; todo[t] is what thread t has still to do.            *)
(*                                                                         *)
(* A registry value is a member of a small set: the user's own, none, a    *)
(* listening port of Rift's, or "long", a text longer than the buffer it   *)
(* is read into.  Opening the registry key always succeeds.                *)
(***************************************************************************)
EXTENDS Naturals, Sequences

CONSTANTS
    ApiThreads, \* threads serving REST requests
    Ports,      \* ports a configuration may name
    Users,      \* settings a user may have when Rift is first started
    MaxRuns     \* bound: processes started one after the other

Threads == {"main", "ctrl"} \cup ApiThreads
Helpers == {"listen", "accept", "checker"}
Services == {"api", "server", "checker"}
Texts == {"none", "user", "long"}
Registry == [enable : {"on", "off"}, server : Texts \cup Ports,
             override : Texts \cup {"rift"}]
ConfigFile == [sysproxy : BOOLEAN, port : Ports]

ASSUME ProcessAssumption ==
    /\ "main" \notin ApiThreads /\ "ctrl" \notin ApiThreads
    /\ Texts \cap Ports = {}
    /\ Users \subseteq Registry
    /\ MaxRuns \in Nat \ {0}

VARIABLES
    reg,        \* the settings in the registry
    found,      \* history: the settings when this process started
    saved,      \* s_saved_initial_state and the s_initial_* values
    proc,       \* what became of the process
    kind,       \* "console" or "service"
    conf,       \* the configuration: enable_system_proxy and local_port
    todo,
    on,         \* the `running` flags that are set
    joinable,   \* helper threads started and not joined yet
    bound,      \* the port of the proxy's listener
    stopEvent,  \* the service's stop event
    runs,
    restored,   \* history: restored[t], what became of t's last restore()
    seen        \* history: the ways this process has been asked to end

regVars   == <<reg, saved>>
flagVars  == <<on, joinable, bound>>
lifeVars  == <<found, kind, runs>>
histVars  == <<restored, seen>>
processVars == <<lifeVars, regVars, proc, conf, todo, flagVars, stopEvent,
                 histVars>>

-----------------------------------------------------------------------------
(* Calls and steps.                                                        *)

Call(f)       == <<f, "", "">>
Stop(x)       == <<"stop", x, "">>      \* if (!running) return
Clear(x)      == <<"clear", x, "">>     \* running = false
Join(x)       == <<"join", x, "">>
Destroy(x)    == <<"destroy", x, "">>   \* ~thread
Toggle(f, v)  == <<"toggle", f, v>>     \* a write of enable() or disable()
Write(f, v)   == <<"write", f, v>>      \* a write of restore() or stop()

ConsoleMain == <<Call("init"), Call("start"), Call("api_start"), Call("cli"),
                 Stop("api"), Call("restore"), Call("exit")>>
ServiceMain == <<Call("start"), Call("api_start"), Call("wait"), Stop("api"),
                 Stop("server"), Call("exit")>>
Main == [console |-> ConsoleMain, service |-> ServiceMain]

\* Mutant: enable() leaves the bypass list alone.
EnableNoBypass(p) == (IF saved.have THEN <<>> ELSE <<Call("init")>>)
                     \o <<Toggle("enable", "on"), Toggle("server", p)>>

\* enable() calls init(), which returns at once if the settings are saved.
Enable(p) == (IF saved.have THEN <<>> ELSE <<Call("init")>>)
             \o <<Toggle("enable", "on"), Toggle("server", p),
                  Toggle("override", "rift")>>
Disable   == <<Toggle("enable", "off")>>

RestoreBody == <<Write("enable", saved.enable), Write("server", saved.server),
                 Write("override", saved.override), Call("restored")>>

\* The destructors of the static objects: ~RestApiServer, ~TunnelServer and,
\* in it, ~UpstreamPool.
ExitBody == <<Stop("api"), Destroy("listen"), Stop("server"),
              Destroy("accept"), Stop("checker"), Destroy("checker"),
              Call("end")>>

\* Each service's stop(), after the test of its flag.
StopServer == <<Clear("server"), Stop("checker"), Call("stop_disable"),
                Call("unbind"), Join("accept")>>

\* Mutant: stop() returns before its accept thread has ended.
StopBodyUnjoined(x) ==
    CASE x = "server"  -> SelectSeq(StopServer, LAMBDA o : o # Join("accept"))
      [] x = "api"     -> <<Clear("api"), Join("listen")>>
      [] x = "checker" -> <<Clear("checker"), Join("checker")>>

\* Mutant: the checker is joined before it is told to stop.
StopBodyJoinFirst(x) ==
    CASE x = "server"  -> StopServer
      [] x = "api"     -> <<Clear("api"), Join("listen")>>
      [] x = "checker" -> <<Join("checker"), Clear("checker")>>

StopBody(x) ==
    CASE x = "server"  -> StopServer
      [] x = "api"     -> <<Clear("api"), Join("listen")>>
      [] x = "checker" -> <<Clear("checker"), Join("checker")>>

At(t, op) == proc = "up" /\ todo[t] # <<>> /\ Head(todo[t]) = op
Writing(t, how) == proc = "up" /\ todo[t] # <<>> /\ Head(todo[t])[1] = how
Written(t) == [reg EXCEPT ![Head(todo[t])[2]] = Head(todo[t])[3]]
Then(t, ops) == todo' = [todo EXCEPT ![t] = ops \o Tail(@)]
\* t does op, which only leads to other steps.
Proceed(t, op, ops) ==
    /\ At(t, op) /\ Then(t, ops)
    /\ UNCHANGED <<lifeVars, regVars, proc, conf, flagVars, stopEvent, histVars>>
NoThreads == todo' = [t \in Threads |-> <<>>]
Abort == proc' = "aborted" /\ NoThreads

-----------------------------------------------------------------------------
Begun(k) == [t \in Threads |-> IF t = "main" THEN Main[k] ELSE <<>>]
NotSaved == [have |-> FALSE, enable |-> "off", server |-> "none",
             override |-> "none"]

ProcessInit ==
    /\ reg \in Users /\ found = reg
    /\ kind \in {"console", "service"}
    /\ todo = Begun(kind) /\ saved = NotSaved
    /\ conf \in ConfigFile
    /\ proc = "up" /\ runs = 1
    /\ on = {} /\ joinable = {} /\ bound = "none"
    /\ stopEvent = FALSE
    /\ restored = [t \in Threads |-> "no"] /\ seen = {}

\* The process is killed, or the machine stops.
Crash ==
    /\ proc = "up" /\ proc' = "crashed" /\ NoThreads
    /\ on' = {} /\ joinable' = {} /\ bound' = "none"
    /\ UNCHANGED <<lifeVars, regVars, conf, stopEvent, histVars>>

-----------------------------------------------------------------------------
(* system_proxy.cpp.                                                       *)

\* Mutant: the buffer is large enough for every text.
ReadTextWhole(v) == v

\* A text that does not fit the buffer of 1024 characters is not read; what
\* is saved for it is what is saved for a user who has none.
ReadText(v) == IF v = "long" THEN "none" ELSE v

Save(t) ==
    /\ At(t, Call("init")) /\ Then(t, <<>>)
    /\ saved' = IF saved.have THEN saved
                ELSE [have |-> TRUE, enable |-> reg.enable,
                      server |-> ReadText(reg.server),
                      override |-> ReadText(reg.override)]
    /\ UNCHANGED <<lifeVars, reg, proc, conf, flagVars, stopEvent, histVars>>

\* Writes of enable() and disable() spoil a restore under way or done.
RegToggle(t) ==
    /\ Writing(t, "toggle") /\ Then(t, <<>>)
    /\ reg' = Written(t)
    /\ restored' = [u \in Threads |->
                      IF restored[u] = "no" THEN "no" ELSE "spoilt"]
    /\ UNCHANGED <<lifeVars, saved, proc, conf, flagVars, stopEvent, seen>>

RegWrite(t) ==
    /\ Writing(t, "write") /\ Then(t, <<>>)
    /\ reg' = Written(t)
    /\ UNCHANGED <<lifeVars, saved, proc, conf, flagVars, stopEvent, histVars>>

\* Mutant: restore() leaves the server as it is when there was none.
RestoreSkipsNone(t) ==
    /\ At(t, Call("restore"))
    /\ Then(t, IF ~saved.have THEN <<>>
               ELSE SelectSeq(RestoreBody, LAMBDA o : o[3] # "none"))
    /\ restored' = [restored EXCEPT ![t] = IF saved.have THEN "going" ELSE @]
    /\ UNCHANGED <<lifeVars, regVars, proc, conf, flagVars, stopEvent, seen>>

Restore(t) ==
    /\ At(t, Call("restore"))
    /\ Then(t, IF saved.have THEN RestoreBody ELSE <<>>)
    /\ restored' = [restored EXCEPT ![t] = IF saved.have THEN "going" ELSE @]
    /\ UNCHANGED <<lifeVars, regVars, proc, conf, flagVars, stopEvent, seen>>

Restored(t) ==
    /\ At(t, Call("restored")) /\ Then(t, <<>>)
    /\ restored' = [restored EXCEPT ![t] = IF @ = "going" THEN "done" ELSE @]
    /\ UNCHANGED <<lifeVars, regVars, proc, conf, flagVars, stopEvent, seen>>

RegStep(t) ==
    \/ Save(t) \/ RegToggle(t) \/ RegWrite(t) \/ Restore(t) \/ Restored(t)

-----------------------------------------------------------------------------
(* Starting and stopping the servers.                                      *)

AfterNoBind == IF kind = "console" THEN <<Call("restore"), Call("exit")>>
               ELSE <<Call("exit")>>

\* TunnelServer::start: the bind, then the flag, the registry, the threads.
StartFails(t) ==
    /\ At(t, Call("start"))
    /\ todo' = [todo EXCEPT ![t] = AfterNoBind]
    /\ UNCHANGED <<lifeVars, regVars, proc, conf, flagVars, stopEvent, histVars>>

Start(t) ==
    /\ At(t, Call("start"))
    /\ on' = on \cup {"server"} /\ bound' = conf.port
    /\ Then(t, (IF conf.sysproxy THEN Enable(conf.port) ELSE <<>>)
               \o <<Call("start_checker"), Call("start_accept")>>)
    /\ UNCHANGED <<lifeVars, regVars, proc, conf, joinable, stopEvent, histVars>>

Launch(t, call, flag, helper) ==
    /\ At(t, Call(call)) /\ Then(t, <<>>)
    /\ on' = on \cup flag /\ joinable' = joinable \cup {helper}
    /\ UNCHANGED <<lifeVars, regVars, proc, conf, bound, stopEvent, histVars>>

\* The API's port may be 0 or taken: the process goes on without it.
NoApi(t) == Proceed(t, Call("api_start"), <<>>)

StopTest(t, x) ==
    Proceed(t, Stop(x), IF x \in on THEN StopBody(x) ELSE <<>>)

StopClear(t, x) ==
    /\ At(t, Clear(x)) /\ Then(t, <<>>)
    /\ on' = on \ {x}
    /\ UNCHANGED <<lifeVars, regVars, proc, conf, joinable, bound, stopEvent,
                   histVars>>

StopDisable(t) ==
    Proceed(t, Call("stop_disable"),
            IF conf.sysproxy THEN <<Write("enable", "off")>> ELSE <<>>)

Unbind(t) ==
    /\ At(t, Call("unbind")) /\ Then(t, <<>>)
    /\ bound' = "none"
    /\ UNCHANGED <<lifeVars, regVars, proc, conf, on, joinable, stopEvent,
                   histVars>>

\* A helper's loop ends when it next looks at its flag (the listeners within
\* half a second, the checker after the sweep it is in).
FlagOf == [listen |-> "api", accept |-> "server", checker |-> "checker"]
JoinEnds(t, h) ==
    /\ At(t, Join(h)) /\ (h \in joinable => FlagOf[h] \notin on)
    /\ Then(t, <<>>) /\ joinable' = joinable \ {h}
    /\ UNCHANGED <<lifeVars, regVars, proc, conf, on, bound, stopEvent, histVars>>

\* Two threads joining one: undefined, it may also throw and terminate.
JoinTwice(t, h) ==
    /\ At(t, Join(h)) /\ h \in joinable
    /\ \E u \in Threads \ {t} : At(u, Join(h))
    /\ Abort
    /\ UNCHANGED <<lifeVars, regVars, conf, flagVars, stopEvent, histVars>>

\* Destroying a std::thread that is joinable calls std::terminate.
DestroyThread(t, h) ==
    /\ At(t, Destroy(h))
    /\ IF h \in joinable THEN Abort
       ELSE Then(t, <<>>) /\ UNCHANGED proc
    /\ UNCHANGED <<lifeVars, regVars, conf, flagVars, stopEvent, histVars>>

ServerStep(t) ==
    \/ StartFails(t) \/ Start(t) \/ NoApi(t) \/ StopDisable(t) \/ Unbind(t)
    \/ Launch(t, "start_checker", {"checker"}, "checker")
    \/ Launch(t, "start_accept", {}, "accept")
    \/ Launch(t, "api_start", {"api"}, "listen")
    \/ \E x \in Services : StopTest(t, x) \/ StopClear(t, x)
    \/ \E h \in Helpers : JoinEnds(t, h) \/ JoinTwice(t, h) \/ DestroyThread(t, h)

-----------------------------------------------------------------------------
(* The main thread: the console's loop, the service's wait, the exit.      *)

CliTest(t) ==
    Proceed(t, Call("cli"),
            IF "server" \in on THEN <<Call("read"), Call("cli")>> ELSE <<>>)

\* Mutant: quit leaves the loop, as the end of input does.
CliCommandBreaks(t) ==
    /\ At(t, Call("read"))
    /\ \/ Then(t, Enable(conf.port)) /\ UNCHANGED seen
       \/ Then(t, Disable) /\ UNCHANGED seen
       \/ Then(t, <<>>) /\ UNCHANGED seen
       \/ /\ todo' = [todo EXCEPT ![t] = Tail(Tail(@))]
          /\ seen' = seen \cup {"quit"}
    /\ UNCHANGED <<lifeVars, regVars, proc, conf, flagVars, stopEvent, restored>>

\* A line: sysproxy on, sysproxy off, quit, or one that changes nothing here.
CliCommand(t) ==
    /\ At(t, Call("read"))
    /\ \/ Then(t, Enable(conf.port)) /\ UNCHANGED seen
       \/ Then(t, Disable) /\ UNCHANGED seen
       \/ Then(t, <<>>) /\ UNCHANGED seen
       \/ Then(t, <<Stop("server")>>) /\ seen' = seen \cup {"quit"}
    /\ UNCHANGED <<lifeVars, regVars, proc, conf, flagVars, stopEvent, restored>>

CliReload(t, c) ==
    /\ At(t, Call("read")) /\ Then(t, <<>>)
    /\ conf' = c
    /\ UNCHANGED <<lifeVars, regVars, proc, flagVars, stopEvent, histVars>>

CliEof(t) ==
    /\ At(t, Call("read"))
    /\ todo' = [todo EXCEPT ![t] = Tail(Tail(@))]
    /\ seen' = seen \cup {"eof"}
    /\ UNCHANGED <<lifeVars, regVars, proc, conf, flagVars, stopEvent, restored>>

ServiceWait(t) == stopEvent /\ Proceed(t, Call("wait"), <<>>)

Exit(t) == Proceed(t, Call("exit"), ExitBody)

End(t) ==
    /\ At(t, Call("end")) /\ proc' = "gone" /\ NoThreads
    /\ UNCHANGED <<lifeVars, regVars, conf, flagVars, stopEvent, histVars>>

MainStep(t) == CliTest(t) \/ ServiceWait(t) \/ Exit(t) \/ End(t)

-----------------------------------------------------------------------------
(* Requests from outside: an API request, a console event, a service stop. *)

ApiRequest(t) ==
    /\ proc = "up" /\ "listen" \in joinable /\ todo[t] = <<>>
    /\ \E f \in {Enable(conf.port), Disable} : todo' = [todo EXCEPT ![t] = f]
    /\ UNCHANGED <<lifeVars, regVars, proc, conf, flagVars, stopEvent, histVars>>

\* ConsoleHandlerRoutine.  After a Ctrl+C or Ctrl+Break it has handled, the
\* process goes on; after a close, logoff or shutdown event Windows ends it.
ConsoleEvent(k) ==
    /\ proc = "up" /\ kind = "console" /\ saved.have /\ todo["ctrl"] = <<>>
    /\ todo' = [todo EXCEPT !["ctrl"] =
                  <<Call("restore"), Stop("api"), Stop("server")>>
                  \o (IF k = "close" THEN <<Call("end")>> ELSE <<>>)]
    /\ seen' = seen \cup {k}
    /\ UNCHANGED <<lifeVars, regVars, proc, conf, flagVars, stopEvent, restored>>

ServiceStop ==
    /\ proc = "up" /\ kind = "service" /\ ~stopEvent
    /\ stopEvent' = TRUE
    /\ UNCHANGED <<lifeVars, regVars, proc, conf, todo, flagVars, histVars>>

-----------------------------------------------------------------------------
ThreadStep(t) == RegStep(t) \/ ServerStep(t) \/ MainStep(t)

ProcessNext ==
    \/ \E t \in Threads : ThreadStep(t)
    \/ CliCommand("main") \/ CliEof("main")
    \/ \E c \in ConfigFile : CliReload("main", c)
    \/ \E t \in ApiThreads : ApiRequest(t)
    \/ \E k \in {"ctrl", "close"} : ConsoleEvent(k)
    \/ ServiceStop \/ Crash

ProcessSpec == ProcessInit /\ [][ProcessNext]_processVars

\* Windows runs every thread that can run.  Nobody has to type a command,
\* send a request or end the process.
ProcessFairness ==
    \A t \in Threads : WF_processVars(ThreadStep(t))
ProcessFairSpec == ProcessSpec /\ ProcessFairness

\* Processes started one after the other, where one may be killed: a later
\* process finds the registry as the last one left it.
Restart(k, c) ==
    /\ proc # "up" /\ runs < MaxRuns
    /\ proc' = "up" /\ runs' = runs + 1 /\ kind' = k /\ conf' = c
    /\ todo' = Begun(k) /\ saved' = NotSaved
    /\ on' = {} /\ joinable' = {} /\ bound' = "none"
    /\ stopEvent' = FALSE
    /\ restored' = [t \in Threads |-> "no"] /\ seen' = {}
    /\ found' = reg /\ UNCHANGED reg
RestartNext ==
    ProcessNext \/ \E k \in {"console", "service"}, c \in ConfigFile : Restart(k, c)
RestartSpec == ProcessInit /\ [][RestartNext]_processVars

-----------------------------------------------------------------------------
(* Type invariant and properties.                                          *)

Ops ==
    {Call(f) : f \in {"init", "start", "api_start", "cli", "read", "restore",
        "restored", "exit", "end", "wait", "start_checker", "start_accept",
        "stop_disable", "unbind"}}
    \cup {Stop(x) : x \in Services} \cup {Clear(x) : x \in Services}
    \cup {Join(h) : h \in Helpers} \cup {Destroy(h) : h \in Helpers}
    \cup {<<how, f, v>> : how \in {"toggle", "write"},
          f \in {"enable", "server", "override"},
          v \in {"on", "off", "none", "user", "rift"} \cup Ports}

\* Every variable has its type (settings that do not fit a buffer are never
\* written back).
ProcessTypeOK ==
    /\ reg \in Registry /\ found \in Registry
    /\ saved \in [have : BOOLEAN, enable : {"on", "off"},
                  server : {"none", "user"} \cup Ports,
                  override : {"none", "user", "rift"}]
    /\ proc \in {"up", "gone", "aborted", "crashed"}
    /\ kind \in {"console", "service"} /\ conf \in ConfigFile
    /\ \A t \in Threads : todo[t] \in Seq(Ops)
    /\ on \subseteq Services /\ joinable \subseteq Helpers
    /\ bound \in Ports \cup {"none"}
    /\ stopEvent \in BOOLEAN /\ runs \in 1..MaxRuns
    /\ restored \in [Threads -> {"no", "going", "done", "spoilt"}]
    /\ seen \subseteq {"quit", "eof", "ctrl", "close"}

Ended == proc = "gone"

\* A toggle came during or after the last restore() to come to its end.
Spoilt == /\ \E t \in Threads : restored[t] = "spoilt"
          /\ \A t \in Threads : restored[t] # "done"

\* A text the user had and Rift could read.
AsFound(f) == found[f] # "long" => reg[f] = found[f]

\* A console process that ends leaves the server and the bypass list it found
\* when it started, where it could read them, and never switches a proxy on
\* that was off, whichever of its exits it took (a failed start, quit, end of
\* input, a console event, or several of them at once), unless a toggle came
\* during or after the last restore().  It says nothing of a text longer than
\* the 1024 characters of the buffer: that one restore() deletes
\* (BypassListReturns).
ServerRestored ==
    Ended /\ kind = "console" /\ ~Spoilt =>
       AsFound("server") /\ AsFound("override") /\ reg.enable \in {found.enable, "off"}

\* After quit, or a failed start, the switch too is as it was found: stop()
\* switches the proxy off before restore() writes the old values.
QuitRestores ==
    Ended /\ kind = "console" /\ seen \subseteq {"quit"} /\ ~Spoilt =>
       AsFound("server") /\ AsFound("override") /\ reg.enable = found.enable

\* While no call is under way and nothing has been restored yet, settings that
\* are switched on are complete: those found, or all of Rift's, whatever
\* toggles of the API and the console came between one another.
EnabledIsComplete ==
    /\ proc = "up" /\ reg.enable = "on"
    /\ \A t \in Threads : restored[t] = "no"
    /\ \A t \in Threads : \A i \in 1..Len(todo[t]) : todo[t][i][1] # "toggle"
    => reg = found \/ (reg.server \in Ports /\ reg.override = "rift")

\* A process that no console event has reached never aborts, and when it has
\* ended its helper threads have ended and its listener is closed: after a
\* failed start, quit, the end of input or a service stop, none of the static
\* objects is destroyed with a thread that was not joined.
EndsCleanly ==
    proc \in {"gone", "aborted"} /\ seen \cap {"ctrl", "close"} = {} =>
       proc = "gone" /\ on = {} /\ joinable = {} /\ bound = "none"

\* A process that has been asked to quit, whose input ends, whose window is
\* closed or whose service is stopped comes to an end: no join waits for ever.
AskedToEnd == stopEvent \/ seen \cap {"quit", "eof", "close"} # {}
ProcessEnds == [](proc = "up" /\ AskedToEnd => <>(proc # "up"))

-----------------------------------------------------------------------------
(* Properties the documentation states and the code does not have.         *)

\* src/src/cli.cpp:182-183: "Original Windows proxy settings are backed up on
\* startup and automatically restored when ProxyClient terminates or receives
\* Ctrl+C."  Here of settings that fit the buffers.
RestoredOnExit ==
    Ended /\ kind = "console" /\ ~Spoilt => \A f \in DOMAIN reg : AsFound(f)

\* The same sentence of a bypass list of any length.
BypassListReturns ==
    Ended /\ kind = "console" /\ ~Spoilt => reg.override = found.override

\* src/src/cli.cpp:179-180: "All Windows web browsers ... immediately route
\* their traffic through ProxyClient": the port written is the one bound.
PointsAtListener ==
    /\ proc = "up" /\ "server" \in on /\ reg.enable = "on"
    /\ reg.server \in Ports /\ found.server \notin Ports
    => reg.server = bound

\* The settings saved at startup are the user's, also after a crash.
SavedIsTheUsers == saved.have => saved.server \notin Ports
=============================================================================
