-------------------------------- MODULE App --------------------------------
(***************************************************************************)
(* The life of the process: app.Run, step by step, the goroutine that runs *)
(* srv.ListenAndServe, the requests it takes in, and Docker, which starts  *)
(* the process again when it exits with a status other than 0.             *)
(*                                                                         *)
(* Run loads the configuration, opens the two connection pools, starts the *)
(* server goroutine, and only then asks to be told of SIGINT and SIGTERM.  *)
(* A signal before that kills the process; a signal after it makes Run     *)
(* close the listener, wait at most five seconds for the requests under    *)
(* way, and return, which closes the pools, last opened first.             *)
(*                                                                         *)
(* The environment may signal the process, kill it, or make PostgreSQL and *)
(* Redis unreachable, at any moment.  A handler may run forever.           *)
(***************************************************************************)
EXTENDS Integers

CONSTANT Requests      \* identities of the HTTP requests

VARIABLES main,        \* the step app.Run takes next, or "exited"
          server,      \* the goroutine that runs srv.ListenAndServe
          open,        \* the connection pools that are open
          quit,        \* whether a signal waits in the channel of app.Run
          stop,        \* who sent a signal to this process
          exit,        \* its exit status, -1 while it runs
          request,     \* request[r]: "new", "running", "served" or "cut"
          reachable    \* the services that accept a connection

process == <<main, server, open, quit, stop, exit>>
vars == <<process, request, reachable>>

Dependencies == {"db", "redis"}

TypeOK ==
    /\ main \in {"config", "connectDB", "connectRedis", "spawn", "notify", "wait",
                 "shutdown", "closeRedis", "closeDB", "exited"}
    /\ server \in {"off", "starting", "listening", "closed"}
    /\ open \subseteq Dependencies
    /\ quit \in BOOLEAN
    /\ stop \in {"none", "docker", "other"}
    /\ exit \in {-1, 0, 1}
    /\ request \in [Requests -> {"new", "running", "served", "cut"}]
    /\ reachable \subseteq Dependencies

Init ==
    /\ main = "config" /\ server = "off" /\ open = {}
    /\ quit = FALSE /\ stop = "none" /\ exit = -1
    /\ request = [r \in Requests |-> "new"]
    /\ reachable = {}

Running == {r \in Requests : request[r] = "running"}

Goto(step) == main' = step

(* The process ends, and with it its goroutines and connections.           *)
Die(status) ==
    /\ main' = "exited" /\ server' = "off" /\ open' = {} /\ quit' = FALSE
    /\ exit' = status
    /\ request' = [r \in Requests |-> IF r \in Running THEN "cut" ELSE request[r]]
    /\ UNCHANGED reachable

Exit(status) == Die(status) /\ UNCHANGED stop
-----------------------------------------------------------------------------
(* Start-up                                                                *)

LoadConfig ==
    /\ main = "config"
    /\ Goto("connectDB")
    /\ UNCHANGED <<server, open, quit, stop, exit, request, reachable>>

ConfigFails == main = "config" /\ Exit(1)

(* sql.Open and Ping, or NewClient and Ping.                               *)
Connect(d, here, next) ==
    /\ main = here
    /\ d \in reachable
    /\ open' = open \cup {d}
    /\ Goto(next)
    /\ UNCHANGED <<server, quit, stop, exit, request, reachable>>

ConnectDB == Connect("db", "connectDB", "connectRedis")
ConnectRedis == Connect("redis", "connectRedis", "spawn")

(* Fatalf: the deferred calls do not run.                                  *)
ConnectFails ==
    /\ \/ main = "connectDB" /\ "db" \notin reachable
       \/ main = "connectRedis" /\ "redis" \notin reachable
    /\ Exit(1)

(* Mutant: the server is started before Redis is connected.                *)
SpawnEarly ==
    /\ main \in {"connectRedis", "spawn"}
    /\ server = "off"
    /\ server' = "starting"
    /\ Goto(IF main = "spawn" THEN "notify" ELSE main)
    /\ UNCHANGED <<open, quit, stop, exit, request, reachable>>

(* The wiring of repositories, services and handlers, and the go statement.*)
Spawn ==
    /\ main = "spawn"
    /\ server' = "starting"
    /\ Goto("notify")
    /\ UNCHANGED <<open, quit, stop, exit, request, reachable>>

Notify ==
    /\ main = "notify"
    /\ Goto("wait")
    /\ UNCHANGED <<server, open, quit, stop, exit, request, reachable>>
-----------------------------------------------------------------------------
(* The server goroutine                                                    *)

Listen ==
    /\ server = "starting"
    /\ server' = "listening"
    /\ UNCHANGED <<main, open, quit, stop, exit, request, reachable>>

(* The port is taken, or Accept fails for good.                            *)
ServeFails == server \in {"starting", "listening"} /\ Exit(1)

Accept(r) ==
    /\ server = "listening"
    /\ request[r] = "new"
    /\ request' = [request EXCEPT ![r] = "running"]
    /\ UNCHANGED <<process, reachable>>

Finish(r) ==
    /\ request[r] = "running"
    /\ request' = [request EXCEPT ![r] = "served"]
    /\ UNCHANGED <<process, reachable>>
-----------------------------------------------------------------------------
(* Shutdown                                                                *)

Notified == {"wait", "shutdown", "closeRedis", "closeDB"}

(* SIGINT or SIGTERM.  Before signal.Notify it kills the process, whatever *)
(* has been taken in; after it, the channel holds one and drops the others.*)
Signal(by) ==
    /\ stop' = by
    /\ \/ main \notin Notified \cup {"exited"} /\ Die(1)
       \/ /\ main \in Notified
          /\ quit' = TRUE
          /\ UNCHANGED <<main, server, open, exit, request, reachable>>

(* Mutant: the process returns without srv.Shutdown.                       *)
ReturnAtOnce ==
    /\ main = "wait" /\ quit
    /\ quit' = FALSE
    /\ Goto("closeRedis")
    /\ UNCHANGED <<server, open, stop, exit, request, reachable>>

(* <-quit, and what srv.Shutdown does first: the listener is closed.       *)
Shutdown ==
    /\ main = "wait" /\ quit
    /\ quit' = FALSE
    /\ server' = "closed"
    /\ Goto("shutdown")
    /\ UNCHANGED <<open, stop, exit, request, reachable>>

(* srv.Shutdown returns nil: no connection has a request under way.        *)
Drained ==
    /\ main = "shutdown"
    /\ Running = {}
    /\ Goto("closeRedis")
    /\ UNCHANGED <<server, open, quit, stop, exit, request, reachable>>

(* Mutant: context.Background() instead of a context that times out.       *)
NeverTimesOut == FALSE /\ Exit(1)

(* Mutant: the error is logged, and Run returns.                           *)
TimesOutLogged ==
    /\ main = "shutdown"
    /\ Goto("closeRedis")
    /\ UNCHANGED <<server, open, quit, stop, exit, request, reachable>>

(* Five seconds have passed: Fatalf, whatever is under way.                *)
TimesOut == main = "shutdown" /\ Exit(1)

CloseRedis ==
    /\ main = "closeRedis"
    /\ open' = open \ {"redis"}
    /\ Goto("closeDB")
    /\ UNCHANGED <<server, quit, stop, exit, request, reachable>>

(* database.Close, the last of the deferred calls; main returns.           *)
CloseDB == main = "closeDB" /\ Exit(0)
-----------------------------------------------------------------------------
(* The environment                                                         *)

Crash == main # "exited" /\ Exit(1)

(* Mutant: restart: "no".                                                  *)
NoRestart == FALSE /\ UNCHANGED vars

(* restart: on-failure, unless the container was stopped by docker stop.   *)
Restart ==
    /\ main = "exited" /\ exit # 0 /\ stop # "docker"
    /\ Goto("config")
    /\ stop' = "none" /\ exit' = -1
    /\ UNCHANGED <<server, open, quit, request, reachable>>

DependencyChanges(d) ==
    /\ reachable' = IF d \in reachable THEN reachable \ {d} ELSE reachable \cup {d}
    /\ UNCHANGED <<process, request>>
-----------------------------------------------------------------------------
StartUp == LoadConfig \/ ConnectDB \/ ConnectRedis \/ Spawn \/ Notify
WindUp == Shutdown \/ Drained \/ TimesOut \/ CloseRedis \/ CloseDB
Breaks == ConfigFails \/ ServeFails \/ Crash

Next ==
    \/ StartUp \/ ConnectFails
    \/ Listen
    \/ WindUp
    \/ Breaks
    \/ Restart
    \/ \E r \in Requests : Accept(r) \/ Finish(r)
    \/ \E by \in {"docker", "other"} : Signal(by)
    \/ \E d \in Dependencies : DependencyChanges(d)

Spec == Init /\ [][Next]_vars

(* The two goroutines of app.Run are scheduled, the timer of the shutdown  *)
(* fires, and Docker restarts what it should.  No handler need ever end.   *)
FairSpec ==
    /\ Spec
    /\ WF_vars(StartUp) /\ WF_vars(WindUp)
    /\ WF_vars(Listen) /\ WF_vars(Restart)
-----------------------------------------------------------------------------
(* Properties                                                              *)

(* A handler never finds a pool closed, or not open yet: the server starts *)
(* after both connections, and the deferred Close calls run only when      *)
(* srv.Shutdown has seen the last request end.                             *)
PoolsOutliveHandlers == Running # {} => open = Dependencies

(* A process that was told to stop does exit, although its handlers may    *)
(* hang and its start-up may be stuck in a Ping: the signal kills it       *)
(* before signal.Notify, and the five seconds do after it.                 *)
StopsWhenAsked == stop # "none" ~> main = "exited"

(* Whatever order PostgreSQL, Redis and the server come up in, restarts    *)
(* included, clients are served again and again once both stay reachable,  *)
(* nothing breaks any more and nobody stops the process (docker-compose    *)
(* starts the server before Redis is ready).                               *)
ServesEventually ==
    <>[](reachable = Dependencies) /\ <>[][~Breaks]_vars
        => []<>(server = "listening" \/ stop # "none")

Phase ==
    CASE server = "listening" -> "up"
      [] server = "closed" -> "draining"
      [] OTHER -> "down"

S == INSTANCE Service WITH
        phase <- Phase,
        waiting <- Running,
        served <- {r \in Requests : request[r] = "served"},
        status <- CASE exit = -1 -> "none" [] exit = 0 -> "ok" [] OTHER -> "failed"

(* The process does what Service says: it takes requests in only between   *)
(* start-up and shutdown, and exits with status 0, after which Docker does *)
(* not start it again, only when it has answered every one of them.        *)
ServiceSpec == S!Spec

(* The inductive invariant: the step app.Run has reached tells which pools *)
(* are open, what the server does, and that requests run only in between.  *)
OpenAt(step) ==
    CASE step \in {"config", "connectDB", "exited"} -> {}
      [] step \in {"connectRedis", "closeDB"} -> {"db"}
      [] OTHER -> Dependencies

IInv ==
    /\ TypeOK
    /\ open = OpenAt(main)
    /\ main = "exited" <=> exit # -1
    /\ server \in (CASE main \in {"notify", "wait"} -> {"starting", "listening"}
                     [] main \in {"shutdown", "closeRedis", "closeDB"} -> {"closed"}
                     [] OTHER -> {"off"})
    /\ quit => main \in Notified
    /\ Running # {} => main \in {"notify", "wait", "shutdown"} /\ server # "starting"
=============================================================================
