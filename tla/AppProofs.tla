----------------------------- MODULE AppProofs -----------------------------
(***************************************************************************)
(* Theorems about App, for any number of requests: the inductive invariant *)
(* and, from it, that the pools outlive the handlers and that App          *)
(* implements Service.                                                     *)
(***************************************************************************)
EXTENDS App, TLAPS

LEMMA InitInv == Init => IInv
BY DEF Init, IInv, TypeOK, Dependencies, OpenAt, Running, Notified

(* What Die establishes, whatever the process was doing.                   *)
LEMMA DieInv ==
    ASSUME IInv, NEW status \in {0, 1}, Die(status),
           stop' \in {"none", "docker", "other"}
    PROVE  IInv'
<1>1. request' \in [Requests -> {"new", "running", "served", "cut"}] /\ Running' = {}
  BY DEF IInv, TypeOK, Die, Running
<1>2. TypeOK'
  BY <1>1 DEF IInv, TypeOK, Die
<1> QED
  BY <1>1, <1>2 DEF IInv, Die, OpenAt

LEMMA StartUpInv == IInv /\ StartUp => IInv'
BY DEF StartUp, LoadConfig, ConnectDB, ConnectRedis, Connect, Spawn, Notify, Goto,
       IInv, TypeOK, Dependencies, OpenAt, Running, Notified

LEMMA WindUpInv == IInv /\ WindUp => IInv'
<1> SUFFICES ASSUME IInv, WindUp PROVE IInv'
  OBVIOUS
<1>1. CASE TimesOut \/ CloseDB
  BY <1>1, DieInv DEF TimesOut, CloseDB, Exit, IInv, TypeOK
<1>2. CASE Shutdown \/ Drained \/ CloseRedis
  BY <1>2 DEF Shutdown, Drained, CloseRedis, Goto,
              IInv, TypeOK, Dependencies, OpenAt, Running, Notified
<1> QED
  BY <1>1, <1>2 DEF WindUp

LEMMA RequestInv == ASSUME IInv, NEW r \in Requests, Accept(r) \/ Finish(r) PROVE IInv'
BY DEF Accept, Finish, process, IInv, TypeOK, Dependencies, OpenAt, Running, Notified

LEMMA SignalInv ==
    ASSUME IInv, NEW by \in {"docker", "other"}, Signal(by)
    PROVE  IInv'
<1>1. CASE main \in Notified /\ quit' = TRUE
           /\ UNCHANGED <<main, server, open, exit, request, reachable>>
  BY <1>1 DEF Signal, IInv, TypeOK, Dependencies, OpenAt, Running, Notified
<1>2. CASE Die(1)
  BY <1>2, DieInv DEF Signal
<1> QED
  BY <1>1, <1>2 DEF Signal

LEMMA StutterInv == IInv /\ UNCHANGED vars => IInv'
BY DEF vars, process, IInv, TypeOK, Dependencies, OpenAt, Running, Notified

(* Every step keeps the inductive invariant.                               *)
LEMMA NextInv == IInv /\ [Next]_vars => IInv'
<1> SUFFICES ASSUME IInv, [Next]_vars PROVE IInv'
  OBVIOUS
<1>1. CASE StartUp
  BY <1>1, StartUpInv
<1>2. CASE ConnectFails \/ Breaks
  BY <1>2, DieInv
     DEF ConnectFails, Breaks, ConfigFails, ServeFails, Crash, Exit, IInv, TypeOK
<1>3. CASE Listen
  BY <1>3 DEF Listen, IInv, TypeOK, Dependencies, OpenAt, Running, Notified
<1>4. CASE WindUp
  BY <1>4, WindUpInv
<1>5. CASE Restart
  BY <1>5 DEF Restart, Goto, IInv, TypeOK, Dependencies, OpenAt, Running, Notified
<1>6. CASE \E r \in Requests : Accept(r) \/ Finish(r)
  BY <1>6, RequestInv
<1>7. CASE \E by \in {"docker", "other"} : Signal(by)
  BY <1>7, SignalInv
<1>8. CASE \E d \in Dependencies : DependencyChanges(d)
  BY <1>8 DEF DependencyChanges, process, IInv, TypeOK, Dependencies, OpenAt, Running,
              Notified
<1>9. CASE UNCHANGED vars
  BY <1>9, StutterInv
<1> QED
  BY <1>1, <1>2, <1>3, <1>4, <1>5, <1>6, <1>7, <1>8, <1>9 DEF Next

(* The step app.Run has reached tells which pools are open, what the       *)
(* server goroutine does and when requests may run.                        *)
THEOREM Invariance == Spec => []IInv
BY InitInv, NextInv, PTL DEF Spec

(* No handler meets a closed pool (app.go:28-37 and 65, the order of the   *)
(* connections, the server and the deferred calls).                        *)
THEOREM PoolsStayOpen == Spec => []PoolsOutliveHandlers
<1>1. IInv => PoolsOutliveHandlers
  BY DEF IInv, PoolsOutliveHandlers, OpenAt
<1> QED
  BY <1>1, Invariance, PTL
-----------------------------------------------------------------------------
(* The refinement                                                          *)

Served == {r \in Requests : request[r] = "served"}
Status == CASE exit = -1 -> "none" [] exit = 0 -> "ok" [] OTHER -> "failed"

LEMMA RefinesInit == Init => S!Init
BY DEF Init, S!Init, Phase, Running

(* A process that dies with a failure drops whoever waits.                 *)
LEMMA DieFails == ASSUME IInv, Die(1), main # "exited" PROVE S!Fail
<1>1. Running' = {}
  BY DEF Die, Running
<1>2. Served' = Served
  BY DEF Die, Served, Running
<1> QED
  BY <1>1, <1>2 DEF Die, S!Fail, Phase, IInv, Served

(* Every step of App is a step of Service or changes nothing of it.        *)
LEMMA RefinesNext == IInv /\ [Next]_vars => [S!Next]_S!vars
<1> SUFFICES ASSUME IInv, [Next]_vars PROVE [S!Next]_S!vars
  OBVIOUS
<1> DEFINE Same == Phase' = Phase /\ Running' = Running /\ Served' = Served
                   /\ Status' = Status
<1>0. Same => UNCHANGED S!vars
  BY DEF S!vars, Served, Status
<1>1. CASE StartUp \/ Drained \/ CloseRedis
  <2>1. Same
    BY <1>1 DEF StartUp, LoadConfig, ConnectDB, ConnectRedis, Connect, Spawn, Notify,
                Drained, CloseRedis, Goto, IInv, Phase, Running, Served, Status
  <2> QED
    BY <2>1, <1>0
<1>2. CASE ConnectFails \/ Breaks \/ TimesOut
  <2>1. main # "exited" /\ Die(1)
    BY <1>2 DEF ConnectFails, Breaks, ConfigFails, ServeFails, Crash, TimesOut, Exit, IInv
  <2> QED
    BY <2>1, DieFails DEF S!Next
<1>3. CASE Listen
  <2>1. S!Open
    BY <1>3 DEF Listen, S!Open, IInv, Phase, Running
  <2> QED
    BY <2>1 DEF S!Next
<1>4. CASE Shutdown
  <2>1. S!Drain
    BY <1>4 DEF Shutdown, Goto, S!Drain, IInv, Phase, Running
  <2> QED
    BY <2>1 DEF S!Next
<1>5. CASE CloseDB
  <2>1. Running = {} /\ Running' = {} /\ Served' = Served
    BY <1>5 DEF CloseDB, Exit, Die, IInv, Running, Served
  <2>2. S!Leave
    BY <1>5, <2>1 DEF CloseDB, Exit, Die, S!Leave, IInv, Phase, Served
  <2> QED
    BY <2>2 DEF S!Next
<1>6. CASE Restart
  <2>1. S!StartAgain
    BY <1>6 DEF Restart, Goto, S!StartAgain, IInv, TypeOK, Phase, Running
  <2> QED
    BY <2>1 DEF S!Next
<1>7. ASSUME NEW r \in Requests, Accept(r) PROVE S!TakeIn(r)
  <2>1. Running' = Running \cup {r} /\ Served' = Served /\ r \notin Served
    BY <1>7 DEF Accept, IInv, TypeOK, Running, Served
  <2> QED
    BY <1>7, <2>1 DEF Accept, process, S!TakeIn, Phase, Served
<1>8. ASSUME NEW r \in Requests, Finish(r) PROVE S!Answer(r)
  <2>1. r \in Running /\ Running' = Running \ {r} /\ Served' = Served \cup {r}
    BY <1>8 DEF Finish, IInv, TypeOK, Running, Served
  <2> QED
    BY <1>8, <2>1 DEF Finish, process, S!Answer, Phase, Served
<1>9. ASSUME NEW by \in {"docker", "other"}, Signal(by) PROVE [S!Next]_S!vars
  <2>1. CASE main \notin Notified \cup {"exited"} /\ Die(1)
    BY <2>1, DieFails DEF S!Next
  <2>2. CASE UNCHANGED <<main, server, open, exit, request, reachable>>
    BY <2>2, <1>0 DEF Phase, Running, Served, Status
  <2> QED
    BY <1>9, <2>1, <2>2 DEF Signal
<1>10. CASE (\E d \in Dependencies : DependencyChanges(d)) \/ UNCHANGED vars
  BY <1>10, <1>0 DEF DependencyChanges, vars, process, Phase, Running, Served, Status
<1> QED
  BY <1>1, <1>2, <1>3, <1>4, <1>5, <1>6, <1>7, <1>8, <1>9, <1>10
     DEF Next, WindUp, S!Next

(* The process keeps the promises of Service: what it takes in, what it    *)
(* answers and what its exit status says (app.go:53-68).                   *)
THEOREM ImplementsService == Spec => ServiceSpec
BY RefinesInit, RefinesNext, Invariance, PTL DEF Spec, S!Spec, ServiceSpec
=============================================================================
