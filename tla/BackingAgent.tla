---------------------------- MODULE BackingAgent ----------------------------
(***************************************************************************)
(* The suite's own SSH agent (tck/sandbox/ssh_agent_backing.go): an accept *)
(* loop, one goroutine per accepted connection, and Close, which has to    *)
(* end all of them although a connection may stay idle for ever.           *)
(*                                                                         *)
(* A critical section of connsMu that holds nothing but map and WaitGroup  *)
(* updates is one step taken while the mutex is free; Close holds it over  *)
(* several steps, one per connection it closes.                            *)
(***************************************************************************)
EXTENDS Integers, Sequences, FiniteSets

CONSTANTS
  Conn,        \* connections that can ever be dialled
  Request,     \* requests: records with a type, "sign" among the types
  None,        \* no connection, no request
  AcceptMayFail \* Accept may fail while the listener is open (descriptors run out)

ASSUME ConnFinite == IsFiniteSet(Conn)
ASSUME NoneIsNothing == None \notin Conn /\ None \notin Request /\ None # "reply"

VARIABLES
  listening,   \* the listener is open
  sock,        \* sock[c]: the agent's end: "new", "backlog", "open", "closed"
  peerOpen,    \* peerOpen[c]: the dialler has not closed its end
  inbox,       \* inbox[c]: the request in flight to the agent, or None
  outbox,      \* outbox[c]: "reply" when the agent has answered, or None
  serve,       \* the accept loop: "accept", "register", "done", "exited"
  incoming,    \* the connection Accept returned, while it is registered
  worker,      \* worker[c]: where the goroutine of c is
  conns,       \* the map of registered connections
  mu,          \* holder of connsMu: "free" or "close"
  sweep,       \* connections Close has still to close
  done,        \* the done channel is closed
  wg,          \* the WaitGroup counter
  closer,      \* Close: "idle", "wait", "lock", "sweep", "join", "remove", "closed"
  requests,    \* request frames that reached the agent
  signed       \* sign requests that reached the agent: pairs <<c, request>>

netVars == <<listening, sock, peerOpen, inbox, outbox>>
loopVars == <<serve, incoming, done>>
closeVars == <<mu, sweep, closer>>
logVars == <<requests, signed>>
avars == <<netVars, loopVars, worker, conns, wg, closeVars, logVars>>

WorkerStates == {"none", "read", "handle", "reply", "close", "delete", "release", "gone"}
Alive(c) == worker[c] \notin {"none", "gone"}

AInit ==
  /\ listening = TRUE
  /\ sock = [c \in Conn |-> "new"]
  /\ peerOpen = [c \in Conn |-> FALSE]
  /\ inbox = [c \in Conn |-> None]
  /\ outbox = [c \in Conn |-> None]
  /\ serve = "accept"
  /\ incoming = None
  /\ worker = [c \in Conn |-> "none"]
  /\ conns = {}
  /\ mu = "free"
  /\ sweep = {}
  /\ done = FALSE
  /\ wg = 1
  /\ closer = "idle"
  /\ requests = 0
  /\ signed = <<>>

-----------------------------------------------------------------------------
(* The other end of a connection: whoever was handed the socket.           *)

Dial(c) ==
  /\ listening
  /\ sock[c] = "new"
  /\ sock' = [sock EXCEPT ![c] = "backlog"]
  /\ peerOpen' = [peerOpen EXCEPT ![c] = TRUE]
  /\ UNCHANGED <<listening, inbox, outbox, loopVars, worker, conns, wg, closeVars, logVars>>

\* One request at a time: a dialler waits for its answer.
Send(c, r) ==
  /\ peerOpen[c] /\ sock[c] \in {"backlog", "open"}
  /\ inbox[c] = None /\ outbox[c] = None /\ worker[c] \in {"none", "read"}
  /\ inbox' = [inbox EXCEPT ![c] = r]
  /\ UNCHANGED <<listening, sock, peerOpen, outbox, loopVars, worker, conns, wg,
                 closeVars, logVars>>

Receive(c) ==
  /\ peerOpen[c] /\ outbox[c] # None
  /\ outbox' = [outbox EXCEPT ![c] = None]
  /\ UNCHANGED <<listening, sock, peerOpen, inbox, loopVars, worker, conns, wg,
                 closeVars, logVars>>

HangUp(c) ==
  /\ peerOpen[c]
  /\ peerOpen' = [peerOpen EXCEPT ![c] = FALSE]
  /\ UNCHANGED <<listening, sock, inbox, outbox, loopVars, worker, conns, wg,
                 closeVars, logVars>>

-----------------------------------------------------------------------------
(* The accept loop.                                                        *)

Accept(c) ==
  /\ serve = "accept" /\ listening
  /\ sock[c] = "backlog"
  /\ sock' = [sock EXCEPT ![c] = "open"]
  /\ incoming' = c
  /\ serve' = "register"
  /\ UNCHANGED <<listening, peerOpen, inbox, outbox, done, worker, conns, wg,
                 closeVars, logVars>>

\* The listener is closed, or Accept fails: the loop returns either way, and
\* its first deferred call closes the done channel.
AcceptFails ==
  /\ serve = "accept"
  /\ ~listening \/ AcceptMayFail
  /\ serve' = "done"
  /\ done' = TRUE
  /\ UNCHANGED <<netVars, incoming, worker, conns, wg, closeVars, logVars>>

ServeReturns ==
  /\ serve = "done"
  /\ serve' = "exited"
  /\ wg' = wg - 1
  /\ UNCHANGED <<netVars, incoming, done, worker, conns, closeVars, logVars>>

\* Mutant: the goroutine is not counted.
RegisterUncounted ==
  /\ serve = "register"
  /\ mu = "free"
  /\ conns' = conns \cup {incoming}
  /\ worker' = [worker EXCEPT ![incoming] = "read"]
  /\ serve' = "accept"
  /\ incoming' = None
  /\ UNCHANGED <<netVars, done, wg, closeVars, logVars>>

\* Under connsMu: the connection is registered and counted, then its
\* goroutine starts.
Register ==
  /\ serve = "register"
  /\ mu = "free"
  /\ conns' = conns \cup {incoming}
  /\ wg' = wg + 1
  /\ worker' = [worker EXCEPT ![incoming] = "read"]
  /\ serve' = "accept"
  /\ incoming' = None
  /\ UNCHANGED <<netVars, done, closeVars, logVars>>

-----------------------------------------------------------------------------
(* The goroutine of one connection: ServeAgent, then the deferred calls.   *)

\* A request frame is read and counted on the wire.
ReadRequest(c) ==
  /\ worker[c] = "read"
  /\ sock[c] = "open" /\ inbox[c] # None
  /\ worker' = [worker EXCEPT ![c] = "handle"]
  /\ requests' = requests + 1
  /\ UNCHANGED <<netVars, loopVars, conns, wg, closeVars, signed>>

\* The keyring answers; a signature is recorded before it is made.
Handle(c) ==
  /\ worker[c] = "handle"
  /\ worker' = [worker EXCEPT ![c] = "reply"]
  /\ signed' = IF inbox[c].type = "sign" THEN Append(signed, <<c, inbox[c]>>) ELSE signed
  /\ inbox' = [inbox EXCEPT ![c] = None]
  /\ UNCHANGED <<listening, sock, peerOpen, outbox, loopVars, conns, wg, closeVars, requests>>

Reply(c) ==
  /\ worker[c] = "reply"
  /\ IF sock[c] = "open" /\ peerOpen[c]
     THEN /\ outbox' = [outbox EXCEPT ![c] = "reply"]
          /\ worker' = [worker EXCEPT ![c] = "read"]
     ELSE worker' = [worker EXCEPT ![c] = "close"] /\ UNCHANGED outbox
  /\ UNCHANGED <<listening, sock, peerOpen, inbox, loopVars, conns, wg, closeVars, logVars>>

\* The read fails: the peer hung up or Close closed the connection.
ReadFails(c) ==
  /\ worker[c] = "read"
  /\ sock[c] = "closed" \/ (~peerOpen[c] /\ inbox[c] = None)
  /\ worker' = [worker EXCEPT ![c] = "close"]
  /\ UNCHANGED <<netVars, loopVars, conns, wg, closeVars, logVars>>

CloseConn(c) ==
  /\ worker[c] = "close"
  /\ sock' = [sock EXCEPT ![c] = "closed"]
  /\ worker' = [worker EXCEPT ![c] = "delete"]
  /\ UNCHANGED <<listening, peerOpen, inbox, outbox, loopVars, conns, wg, closeVars, logVars>>

\* Mutants: the connection stays registered; the deferred clean-up calls
\* Done as well as the goroutine.
UnregisterKeeps(c) ==
  /\ worker[c] = "delete"
  /\ mu = "free"
  /\ worker' = [worker EXCEPT ![c] = "release"]
  /\ UNCHANGED <<netVars, loopVars, conns, wg, closeVars, logVars>>
UnregisterReleases(c) ==
  /\ worker[c] = "delete"
  /\ mu = "free"
  /\ conns' = conns \ {c}
  /\ worker' = [worker EXCEPT ![c] = "release"]
  /\ wg' = wg - 1
  /\ UNCHANGED <<netVars, loopVars, closeVars, logVars>>

Unregister(c) ==
  /\ worker[c] = "delete"
  /\ mu = "free"
  /\ conns' = conns \ {c}
  /\ worker' = [worker EXCEPT ![c] = "release"]
  /\ UNCHANGED <<netVars, loopVars, wg, closeVars, logVars>>

WorkerReturns(c) ==
  /\ worker[c] = "release"
  /\ worker' = [worker EXCEPT ![c] = "gone"]
  /\ wg' = wg - 1
  /\ UNCHANGED <<netVars, loopVars, conns, closeVars, logVars>>

-----------------------------------------------------------------------------
(* Close.                                                                  *)

\* The listener closes; what waits in its backlog is reset by the kernel.
CloseListener ==
  /\ closer = "idle"
  /\ listening' = FALSE
  /\ sock' = [c \in Conn |-> IF sock[c] = "backlog" THEN "closed" ELSE sock[c]]
  /\ closer' = "wait"
  /\ UNCHANGED <<peerOpen, inbox, outbox, loopVars, worker, conns, wg, mu, sweep, logVars>>

\* Mutant: Close does not wait for the accept loop.
AwaitNothing ==
  /\ closer = "wait"
  /\ closer' = "lock"
  /\ UNCHANGED <<netVars, loopVars, worker, conns, wg, mu, sweep, logVars>>

AwaitDone ==
  /\ closer = "wait"
  /\ done
  /\ closer' = "lock"
  /\ UNCHANGED <<netVars, loopVars, worker, conns, wg, mu, sweep, logVars>>

LockConns ==
  /\ closer = "lock"
  /\ mu = "free"
  /\ mu' = "close"
  /\ sweep' = conns
  /\ closer' = "sweep"
  /\ UNCHANGED <<netVars, loopVars, worker, conns, wg, logVars>>

\* Mutant: the sweep does not close the connection.
SweepNothing(c) ==
  /\ closer = "sweep"
  /\ c \in sweep
  /\ sweep' = sweep \ {c}
  /\ UNCHANGED <<netVars, loopVars, worker, conns, wg, mu, closer, logVars>>

SweepConn(c) ==
  /\ closer = "sweep"
  /\ c \in sweep
  /\ sock' = [sock EXCEPT ![c] = "closed"]
  /\ sweep' = sweep \ {c}
  /\ UNCHANGED <<listening, peerOpen, inbox, outbox, loopVars, worker, conns, wg, mu, closer, logVars>>

UnlockConns ==
  /\ closer = "sweep"
  /\ sweep = {}
  /\ mu' = "free"
  /\ closer' = "join"
  /\ UNCHANGED <<netVars, loopVars, worker, conns, wg, sweep, logVars>>

\* Mutant: Close does not wait for the goroutines.
AwaitNoGoroutine ==
  /\ closer = "join"
  /\ closer' = "remove"
  /\ UNCHANGED <<netVars, loopVars, worker, conns, wg, mu, sweep, logVars>>

AwaitGoroutines ==
  /\ closer = "join"
  /\ wg = 0
  /\ closer' = "remove"
  /\ UNCHANGED <<netVars, loopVars, worker, conns, wg, mu, sweep, logVars>>

RemoveSocket ==
  /\ closer = "remove"
  /\ closer' = "closed"
  /\ UNCHANGED <<netVars, loopVars, worker, conns, wg, mu, sweep, logVars>>

-----------------------------------------------------------------------------
ServeStep == (\E c \in Conn : Accept(c)) \/ AcceptFails \/ ServeReturns \/ Register
WorkerStep(c) == ReadRequest(c) \/ Handle(c) \/ Reply(c) \/ ReadFails(c) \/ CloseConn(c)
                   \/ Unregister(c) \/ WorkerReturns(c)
CloseStep == CloseListener \/ AwaitDone \/ LockConns \/ (\E c \in Conn : SweepConn(c))
               \/ UnlockConns \/ AwaitGoroutines \/ RemoveSocket
\* Close once called runs on; whether it is called is the suite's choice.
CloseContinues == closer # "idle" /\ CloseStep

AgentStep == ServeStep \/ (\E c \in Conn : WorkerStep(c)) \/ CloseStep
PeerStep == \E c \in Conn : Dial(c) \/ Receive(c) \/ HangUp(c) \/ \E r \in Request : Send(c, r)

AFairness == /\ WF_avars(ServeStep)
             /\ \A c \in Conn : WF_avars(WorkerStep(c))
             /\ WF_avars(CloseContinues)

ASpec == AInit /\ [][AgentStep \/ PeerStep]_avars /\ AFairness

-----------------------------------------------------------------------------
(* Properties.                                                             *)

\* Every variable has its type.
ATypeOK ==
  /\ listening \in BOOLEAN /\ done \in BOOLEAN
  /\ sock \in [Conn -> {"new", "backlog", "open", "closed"}]
  /\ peerOpen \in [Conn -> BOOLEAN]
  /\ inbox \in [Conn -> Request \cup {None}]
  /\ outbox \in [Conn -> {"reply", None}]
  /\ serve \in {"accept", "register", "done", "exited"}
  /\ incoming \in Conn \cup {None}
  /\ worker \in [Conn -> WorkerStates]
  /\ conns \subseteq Conn /\ sweep \subseteq Conn
  /\ mu \in {"free", "close"}
  /\ wg \in Nat
  /\ closer \in {"idle", "wait", "lock", "sweep", "join", "remove", "closed"}
  /\ requests \in Nat
  /\ signed \in Seq(Conn \X Request)

Workers == {c \in Conn : Alive(c)}

\* The WaitGroup counts exactly the goroutines that have not returned: the
\* accept loop and one per connection. It never goes negative.
WgCountsGoroutines ==
  wg = Cardinality(Workers) + (IF serve = "exited" THEN 0 ELSE 1)

\* Close waits for the accept loop before it closes connections, so once the
\* sweep is over no goroutine is left blocked reading an open connection:
\* none was registered too late to be closed.
NoneMissed ==
  closer \in {"join", "remove", "closed"} =>
    /\ serve \in {"done", "exited"}
    /\ \A c \in Conn : Alive(c) => sock[c] = "closed"

\* When Close returns nothing is running and nothing is open: the suite can
\* read its logs knowing that they are final.
NothingOutlivesClose ==
  closer \in {"remove", "closed"} =>
    /\ serve = "exited" /\ Workers = {} /\ conns = {}
    /\ \A c \in Conn : sock[c] \in {"new", "closed"}

\* The WaitGroup contract: Add never starts a new count from zero, and never
\* runs once Close waits.
AddsBeforeWait ==
  [][wg' > wg => wg > 0 /\ closer \notin {"join", "remove", "closed"}]_avars

\* The deferred clean-up and the sweep agree: a connection is registered
\* from its registration until its own goroutine removes it, so the sweep
\* sees every connection that could still be served.
RegisteredWhileServed ==
  \A c \in Conn : c \in conns <=> worker[c] \in {"read", "handle", "reply", "close", "delete"}

\* Close returns although peers may stay connected and silent for ever.
CloseReturns == closer = "wait" ~> closer = "closed"

-----------------------------------------------------------------------------
(* The inductive invariant behind them.                                    *)

\* Where a connection is, seen from its socket and from its goroutine.
SocketsMatchWorkers ==
  \A c \in Conn :
    /\ sock[c] \in {"new", "backlog"} => worker[c] = "none" /\ incoming # c
    /\ sock[c] = "open" => Alive(c) \/ incoming = c
    /\ incoming = c => worker[c] = "none"
    /\ worker[c] \in {"delete", "release", "gone"} => sock[c] = "closed"
    /\ worker[c] = "handle" => inbox[c] # None

\* How far Close has got, and what that says of the rest.
CloseProgress ==
  /\ done <=> serve \in {"done", "exited"}
  /\ serve = "register" <=> incoming # None
  /\ closer # "idle" => ~listening /\ \A c \in Conn : sock[c] # "backlog"
  /\ closer \in {"lock", "sweep", "join", "remove", "closed"} => done
  /\ mu = "close" <=> closer = "sweep"
  /\ closer = "sweep" => sweep \subseteq conns /\ \A c \in conns \ sweep : sock[c] = "closed"
  /\ closer \in {"join", "remove", "closed"} => \A c \in conns : sock[c] = "closed"
  /\ closer \in {"remove", "closed"} => wg = 0

AInv == ATypeOK /\ WgCountsGoroutines /\ RegisteredWhileServed /\ SocketsMatchWorkers
          /\ CloseProgress
=============================================================================
