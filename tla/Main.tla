-------------------------------- MODULE Main --------------------------------
(***************************************************************************)
(* main.go and the Run methods it dispatches to: how a logic, a connect    *)
(* (websocket or TCP) or an api process starts, with what runs when, and   *)
(* how it ends.  module is the flag.  The start of the task process is in  *)
(* TaskDispatch.                                                           *)
(*                                                                         *)
(* The main goroutine starts others: one for every rpc address, which      *)
(* lists the process in etcd and then serves, and one that serves HTTP     *)
(* for the api.  etcd and redis are up; ports may be taken.                *)
(***************************************************************************)
EXTENDS FiniteSets

CONSTANTS Addresses,    \* rpc addresses in the configuration of the process
          Requests      \* HTTP requests

Modules == {"logic", "connect_websocket", "connect_tcp", "api"}
Connect == {"connect_websocket", "connect_tcp"}

VARIABLES
    module,
    run,        \* where the main goroutine stands
    ready,      \* what has been initialised
    rpc,        \* the goroutine of each rpc address
    listener,   \* of the TCP server, the websocket server or the api
    requests,   \* "none", "running" or "answered"
    ended       \* "no", or how the process has ended

life == <<module, run, ready, rpc, listener, requests, ended>>

Init ==
    /\ module \in Modules
    /\ run = "init" /\ ready = {}
    /\ rpc = [a \in Addresses |-> "none"]
    /\ listener = "none"
    /\ requests = [q \in Requests |-> "none"]
    /\ ended = "no"

End(how) == ended' = how /\ UNCHANGED <<module, run, ready, rpc, listener, requests>>

-----------------------------------------------------------------------------
(* The package connect makes the rpc client of the api when it is loaded, in every process
   (server_tcp.go:21), before main runs. *)
InitPackages ==
    /\ run = "init"
    /\ ready' = {"RpcLogicObj"}
    /\ run' = IF module = "logic" THEN "redis" ELSE "client"
    /\ UNCHANGED <<module, rpc, listener, requests, ended>>

(* logic.go 27, the error of the ping is not returned. *)
InitPublishRedisClient ==
    /\ run = "redis"
    /\ ready' = ready \cup {"RedisClient"}
    /\ run' = "rpcServer"
    /\ UNCHANGED <<module, rpc, listener, requests, ended>>

InitLogicRpcClient ==
    /\ run = "client" /\ module \in Connect
    /\ ready' = ready \cup {"logicRpcClient"}
    /\ run' = "server"
    /\ UNCHANGED <<module, rpc, listener, requests, ended>>

(* Buckets, DefaultServer and ServerId (connect.go 83-103, 34-53 for websockets). *)
MakeServer ==
    /\ run = "server"
    /\ ready' = ready \cup {"DefaultServer", "ServerId"}
    /\ run' = "rpcServer"
    /\ UNCHANGED <<module, rpc, listener, requests, ended>>

(* Mutants: the goroutines are not started; they start before there is a DefaultServer. *)
InitRpcServerForgotten ==
    /\ run = "rpcServer"
    /\ run' = IF module \in Connect THEN "listen" ELSE "notify"
    /\ UNCHANGED <<module, ready, rpc, listener, requests, ended>>

InitRpcServerEarly ==
    /\ run \in {"rpcServer", "server"} /\ \A a \in Addresses : rpc[a] = "none"
    /\ rpc' = [a \in Addresses |-> "starting"]
    /\ run' = IF run = "server" THEN run ELSE IF module \in Connect THEN "listen" ELSE "notify"
    /\ UNCHANGED <<module, ready, listener, requests, ended>>

(* A goroutine for each address of the configuration. *)
InitRpcServer ==
    /\ run = "rpcServer"
    /\ rpc' = [a \in Addresses |-> "starting"]
    /\ run' = IF module \in Connect THEN "listen" ELSE "notify"
    /\ UNCHANGED <<module, ready, listener, requests, ended>>

(* The goroutine: RegisterName lists the address in etcd, with the ServerId of a connect
   server; Serve then opens the port, and its error is not looked at. *)
RegisterName(a) ==
    /\ rpc[a] = "starting"
    /\ rpc' = [rpc EXCEPT ![a] = "listed"]
    /\ UNCHANGED <<module, run, ready, listener, requests, ended>>

Serve(a) ==
    /\ rpc[a] = "listed"
    /\ \E how \in {"serving", "deaf"} : rpc' = [rpc EXCEPT ![a] = how]
    /\ UNCHANGED <<module, run, ready, listener, requests, ended>>

(* The listener of TCP clients has its own goroutines, RunTcp returns to main; that of
   websockets does not return.  A port that is taken is a panic. *)
InitTcpServer ==
    /\ run = "listen" /\ module = "connect_tcp"
    /\ \/ End("panic")
       \/ /\ listener' = "open" /\ run' = "notify"
          /\ UNCHANGED <<module, ready, rpc, requests, ended>>

InitWebsocket ==
    /\ run = "listen" /\ module = "connect_websocket"
    /\ \/ End("panic")
       \/ /\ listener' = "open" /\ run' = "serving"
          /\ UNCHANGED <<module, ready, rpc, requests, ended>>

(* chat.go 28-54: router and http.Server, and the goroutine that will listen. *)
RunApi ==
    /\ run = "client" /\ module = "api"
    /\ ready' = ready \cup {"router"}
    /\ listener' = "starting" /\ run' = "notify"
    /\ UNCHANGED <<module, rpc, requests, ended>>

(* An api whose port is taken logs it and goes on; after Shutdown nothing listens. *)
ListenAndServe ==
    /\ listener = "starting"
    /\ listener' \in IF run = "shutdown" THEN {"closed"} ELSE {"open", "failed"}
    /\ UNCHANGED <<module, run, ready, rpc, requests, ended>>

-----------------------------------------------------------------------------
(* The channel of signal.Notify has no buffer: a signal that comes between the call and the
   receive that follows it is dropped. *)
Notify ==
    /\ run = "notify"
    /\ run' = "notified"
    /\ UNCHANGED <<module, ready, rpc, listener, requests, ended>>

Receive ==
    /\ run = "notified"
    /\ run' = "wait"
    /\ UNCHANGED <<module, ready, rpc, listener, requests, ended>>

(* Before Notify a signal ends the process; main returns when it gets one, the api closes
   its listener and shuts down. *)
Signal ==
    \/ run \notin {"notified", "wait", "shutdown"} /\ End("signal")
    \/ run = "wait" /\ module # "api" /\ End("signal")
    \/ /\ run = "wait" /\ module = "api"
       /\ run' = "shutdown"
       /\ listener' = IF listener = "open" THEN "closed" ELSE listener
       /\ UNCHANGED <<module, ready, rpc, requests, ended>>

(* Shutdown waits for the requests, five seconds at most. *)
Shutdown == run = "shutdown" /\ (\A q \in Requests : requests[q] # "running") /\ End("shutdown")
ShutdownTimeout == run = "shutdown" /\ End("timeout")

Accept(q) ==
    /\ listener = "open" /\ module = "api" /\ requests[q] = "none"
    /\ requests' = [requests EXCEPT ![q] = "running"]
    /\ UNCHANGED <<module, run, ready, rpc, listener, ended>>

Answer(q) ==
    /\ requests[q] = "running"
    /\ requests' = [requests EXCEPT ![q] = "answered"]
    /\ UNCHANGED <<module, run, ready, rpc, listener, ended>>

-----------------------------------------------------------------------------
Starts == InitPackages \/ InitPublishRedisClient \/ InitLogicRpcClient \/ MakeServer
          \/ InitRpcServer \/ InitTcpServer \/ InitWebsocket \/ RunApi \/ Notify \/ Receive
RpcServer(a) == RegisterName(a) \/ Serve(a)

Life ==
    /\ ended = "no"
    /\ \/ Starts \/ ListenAndServe
       \/ \E a \in Addresses : RpcServer(a)
       \/ Signal \/ Shutdown \/ ShutdownTimeout
       \/ \E q \in Requests : Accept(q) \/ Answer(q)

LifeFairness ==
    /\ WF_life(ended = "no" /\ Starts) /\ WF_life(ended = "no" /\ ListenAndServe)
    /\ \A a \in Addresses : WF_life(ended = "no" /\ RpcServer(a))

-----------------------------------------------------------------------------
Needs == [m \in Modules |->
            CASE m = "logic" -> {"RedisClient"}
              [] m \in Connect -> {"RpcLogicObj", "logicRpcClient", "DefaultServer", "ServerId"}
              [] OTHER -> {"RpcLogicObj", "router"}]

(* What can be found in etcd or reached through a listener has all it uses: no call of task,
   no request and no connection meets a nil pointer, whichever goroutine is first. *)
ServesReady ==
    listener = "open" \/ (\E a \in Addresses : rpc[a] \in {"listed", "serving"})
        => Needs[module] \subseteq ready
=============================================================================
