------------------------- MODULE BackingAgentProofs -------------------------
(***************************************************************************)
(* Proofs that Close of the backing agent ends everything it started, for  *)
(* any number of connections.                                              *)
(*                                                                         *)
(* The WaitGroup is a counter, so the argument needs WgCountsGoroutines:   *)
(* the counter is the number of goroutines.  When Close has seen it at     *)
(* zero, no goroutine is left; CloseProgress says that nobody can start a  *)
(* new one, because Close first waited for the accept loop to be done.     *)
(***************************************************************************)
EXTENDS BackingAgent, FiniteSetTheorems, TLAPS

\* The goroutines are finitely many.
LEMMA WorkersFinite == IsFiniteSet(Workers) /\ Cardinality(Workers) \in Nat
<1>1. Workers \subseteq Conn
  BY DEF Workers
<1> QED BY <1>1, ConnFinite, FS_Subset, FS_CardinalityType

\* A counter at zero means that no goroutine is running.
LEMMA ZeroMeansNone ==
  ASSUME WgCountsGoroutines, wg = 0
  PROVE  Workers = {} /\ serve = "exited"
<1>1. Cardinality(Workers) = 0 /\ serve = "exited"
  BY WorkersFinite DEF WgCountsGoroutines
<1> QED BY <1>1, WorkersFinite, FS_EmptySet

\* A step that changes which goroutine is where, but not how many there are.
LEMMA SameGoroutines ==
  ASSUME WgCountsGoroutines, Workers' = Workers, wg' = wg,
         serve' = "exited" <=> serve = "exited"
  PROVE  WgCountsGoroutines'
BY DEF WgCountsGoroutines

\* The invariant holds when startBackingAgent returns,
LEMMA AInitInv == AInit => AInv
<1> SUFFICES ASSUME AInit PROVE AInv
  OBVIOUS
<1>1. ATypeOK
  <2>1. peerOpen \in [Conn -> BOOLEAN] /\ signed \in Seq(Conn \X Request)
    BY DEF AInit
  <2>2. /\ listening \in BOOLEAN /\ done \in BOOLEAN
        /\ conns \subseteq Conn /\ sweep \subseteq Conn
    BY Zenon DEF AInit
  <2> QED BY <2>1, <2>2 DEF AInit, ATypeOK, WorkerStates
<1>2. WgCountsGoroutines
  <2>1. Workers = {}
    BY DEF AInit, Workers, Alive
  <2> QED BY <2>1, FS_EmptySet DEF AInit, WgCountsGoroutines
<1>3. RegisteredWhileServed /\ SocketsMatchWorkers
  BY NoneIsNothing DEF AInit, RegisteredWhileServed, SocketsMatchWorkers, Alive
<1>4. CloseProgress
  BY DEF AInit, CloseProgress
<1> QED BY <1>1, <1>2, <1>3, <1>4 DEF AInv

\* The other end of a connection cannot disturb what the agent keeps.
LEMMA PeerKeepsInv ==
  ASSUME AInv, NEW c \in Conn,
         Dial(c) \/ Receive(c) \/ HangUp(c) \/ \E r \in Request : Send(c, r)
  PROVE  AInv'
<1> USE DEF AInv
<1>1. CASE Dial(c)
  <2> USE <1>1 DEF Dial, loopVars, closeVars, logVars
  <2>1. ATypeOK'
    BY DEF ATypeOK
  <2>2. WgCountsGoroutines'
    BY SameGoroutines DEF Workers, Alive
  <2>3. RegisteredWhileServed' /\ SocketsMatchWorkers'
    BY DEF RegisteredWhileServed, SocketsMatchWorkers, ATypeOK, Alive
  <2>4. CloseProgress'
    BY DEF CloseProgress, ATypeOK
  <2> QED BY <2>1, <2>2, <2>3, <2>4
<1>2. CASE Receive(c) \/ HangUp(c)
  <2> USE <1>2 DEF Receive, HangUp, loopVars, closeVars, logVars
  <2>1. ATypeOK'
    BY DEF ATypeOK
  <2>2. WgCountsGoroutines'
    BY SameGoroutines DEF Workers, Alive
  <2>3. RegisteredWhileServed' /\ SocketsMatchWorkers' /\ CloseProgress'
    BY DEF RegisteredWhileServed, SocketsMatchWorkers, CloseProgress, Alive
  <2> QED BY <2>1, <2>2, <2>3
<1>3. ASSUME NEW r \in Request, Send(c, r) PROVE AInv'
  <2> USE <1>3 DEF Send, loopVars, closeVars, logVars
  <2>1. ATypeOK'
    BY DEF ATypeOK
  <2>2. WgCountsGoroutines'
    BY SameGoroutines DEF Workers, Alive
  <2>3. RegisteredWhileServed' /\ SocketsMatchWorkers' /\ CloseProgress'
    BY NoneIsNothing DEF RegisteredWhileServed, SocketsMatchWorkers, CloseProgress, Alive, ATypeOK
  <2> QED BY <2>1, <2>2, <2>3
<1> QED BY <1>1, <1>2, <1>3

\* The accept loop: what it hands to a goroutine is new and counted.
LEMMA ServeKeepsInv == AInv /\ ServeStep => AInv'
<1> SUFFICES ASSUME AInv, ServeStep PROVE AInv'
  OBVIOUS
<1> USE DEF AInv
<1>1. ASSUME NEW c \in Conn, Accept(c) PROVE AInv'
  <2> USE <1>1 DEF Accept, closeVars, logVars
  <2>1. ATypeOK'
    BY DEF ATypeOK
  <2>2. WgCountsGoroutines'
    BY SameGoroutines DEF Workers, Alive
  <2>3. RegisteredWhileServed' /\ SocketsMatchWorkers'
    BY NoneIsNothing DEF RegisteredWhileServed, SocketsMatchWorkers, CloseProgress, ATypeOK, Alive
  <2>4. CloseProgress'
    BY NoneIsNothing DEF CloseProgress, ATypeOK
  <2> QED BY <2>1, <2>2, <2>3, <2>4
<1>2. CASE AcceptFails
  <2> USE <1>2 DEF AcceptFails, netVars, closeVars, logVars
  <2>1. ATypeOK'
    BY DEF ATypeOK
  <2>2. WgCountsGoroutines'
    BY SameGoroutines DEF Workers, Alive
  <2>3. RegisteredWhileServed' /\ SocketsMatchWorkers' /\ CloseProgress'
    BY DEF RegisteredWhileServed, SocketsMatchWorkers, CloseProgress, ATypeOK, Alive
  <2> QED BY <2>1, <2>2, <2>3
<1>3. CASE ServeReturns
  <2> USE <1>3 DEF ServeReturns, netVars, closeVars, logVars
  <2>1. Workers' = Workers
    BY DEF Workers, Alive
  <2>2. WgCountsGoroutines' /\ wg > 0
    BY <2>1, WorkersFinite DEF WgCountsGoroutines
  <2>3. ATypeOK'
    BY <2>2 DEF ATypeOK
  <2>4. RegisteredWhileServed' /\ SocketsMatchWorkers' /\ CloseProgress'
    BY <2>2 DEF RegisteredWhileServed, SocketsMatchWorkers, CloseProgress, ATypeOK, Alive
  <2> QED BY <2>2, <2>3, <2>4
<1>4. CASE Register
  <2> USE <1>4 DEF Register, netVars, closeVars, logVars
  <2>1. incoming \in Conn /\ worker[incoming] = "none"
    BY DEF ATypeOK, CloseProgress, SocketsMatchWorkers
  <2>2. ATypeOK'
    BY <2>1 DEF ATypeOK, WorkerStates
  <2>3. Workers' = Workers \cup {incoming} /\ incoming \notin Workers
    BY <2>1 DEF Workers, Alive, ATypeOK
  <2>4. Cardinality(Workers') = Cardinality(Workers) + 1
    BY <2>3, WorkersFinite, FS_AddElement
  <2>5. WgCountsGoroutines'
    BY <2>4, WorkersFinite DEF WgCountsGoroutines, ATypeOK
  <2>6. RegisteredWhileServed' /\ SocketsMatchWorkers'
    BY <2>1, NoneIsNothing
    DEF RegisteredWhileServed, SocketsMatchWorkers, ATypeOK, Alive
  <2>7. CloseProgress'
    BY <2>1, NoneIsNothing DEF CloseProgress, ATypeOK
  <2> QED BY <2>2, <2>5, <2>6, <2>7
<1> QED BY <1>1, <1>2, <1>3, <1>4 DEF ServeStep

\* The goroutine of a connection: its last step, and no other, leaves the
\* count.
LEMMA WorkerKeepsInv ==
  ASSUME AInv, NEW c \in Conn, WorkerStep(c)
  PROVE  AInv'
<1> USE DEF AInv
<1>1. CASE ReadRequest(c) \/ Handle(c) \/ Reply(c) \/ ReadFails(c)
  <2> USE <1>1 DEF ReadRequest, Handle, Reply, ReadFails, netVars, loopVars, closeVars, logVars
  <2>1. ATypeOK'
    <3>1. CASE ReadRequest(c) \/ ReadFails(c)
      BY <3>1 DEF ATypeOK, WorkerStates
    <3>2. CASE Reply(c)
      BY <3>2 DEF ATypeOK, WorkerStates
    <3>3. CASE Handle(c)
      <4>1. inbox[c] \in Request
        BY <3>3 DEF SocketsMatchWorkers, ATypeOK
      <4>2. signed' \in Seq(Conn \X Request)
        BY <3>3, <4>1 DEF ATypeOK
      <4> QED BY <3>3, <4>2 DEF ATypeOK, WorkerStates
    <3> QED BY <3>1, <3>2, <3>3
  <2>2. WgCountsGoroutines'
    <3>1. Workers' = Workers
      BY DEF Workers, Alive, ATypeOK
    <3> QED BY <3>1, SameGoroutines
  <2>3. RegisteredWhileServed'
    BY DEF RegisteredWhileServed, ATypeOK
  <2>4. SocketsMatchWorkers'
    <3>1. CASE ReadRequest(c) \/ ReadFails(c)
      BY <3>1 DEF SocketsMatchWorkers, ATypeOK, Alive
    <3>2. CASE Handle(c)
      BY <3>2 DEF SocketsMatchWorkers, ATypeOK, Alive
    <3>3. CASE Reply(c)
      BY <3>3 DEF SocketsMatchWorkers, ATypeOK, Alive
    <3> QED BY <3>1, <3>2, <3>3
  <2>5. CloseProgress'
    BY DEF CloseProgress
  <2> QED BY <2>1, <2>2, <2>3, <2>4, <2>5
<1>2. CASE CloseConn(c)
  <2> USE <1>2 DEF CloseConn, loopVars, closeVars, logVars
  <2>1. ATypeOK'
    BY DEF ATypeOK, WorkerStates
  <2>2. Workers' = Workers
    BY DEF Workers, Alive, ATypeOK
  <2>3. RegisteredWhileServed' /\ SocketsMatchWorkers'
    BY DEF RegisteredWhileServed, SocketsMatchWorkers, ATypeOK, Alive
  <2>4. CloseProgress'
    BY DEF CloseProgress, ATypeOK
  <2> QED BY <2>1, <2>2, <2>3, <2>4, SameGoroutines
<1>3. CASE Unregister(c)
  <2> USE <1>3 DEF Unregister, netVars, loopVars, closeVars, logVars
  <2>1. ATypeOK'
    BY DEF ATypeOK, WorkerStates
  <2>2. Workers' = Workers
    BY DEF Workers, Alive, ATypeOK
  <2>3. RegisteredWhileServed' /\ SocketsMatchWorkers'
    BY DEF RegisteredWhileServed, SocketsMatchWorkers, ATypeOK, Alive
  <2>4. CloseProgress'
    BY DEF CloseProgress, ATypeOK
  <2> QED BY <2>1, <2>2, <2>3, <2>4, SameGoroutines
<1>4. CASE WorkerReturns(c)
  <2> USE <1>4 DEF WorkerReturns, netVars, loopVars, closeVars, logVars
  <2>1. c \in Workers /\ Workers' = Workers \ {c}
    BY DEF Workers, Alive, ATypeOK
  <2>2. Cardinality(Workers') = Cardinality(Workers) - 1
    BY <2>1, WorkersFinite, FS_RemoveElement
  <2>3. WgCountsGoroutines'
    BY <2>2, WorkersFinite DEF WgCountsGoroutines, ATypeOK
  <2>4. wg # 0
    BY <2>1, ZeroMeansNone
  <2>5. ATypeOK'
    BY <2>4 DEF ATypeOK, WorkerStates
  <2>6. RegisteredWhileServed' /\ SocketsMatchWorkers'
    BY DEF RegisteredWhileServed, SocketsMatchWorkers, ATypeOK, Alive
  <2>7. CloseProgress'
    BY <2>4 DEF CloseProgress
  <2> QED BY <2>3, <2>5, <2>6, <2>7
<1> QED BY <1>1, <1>2, <1>3, <1>4 DEF WorkerStep

\* Close: the sweep visits what is registered, and the count is not touched.
LEMMA CloseKeepsInv == AInv /\ CloseStep => AInv'
<1> SUFFICES ASSUME AInv, CloseStep PROVE AInv'
  OBVIOUS
<1> USE DEF AInv
<1>1. CASE CloseListener
  <2> USE <1>1 DEF CloseListener, loopVars, logVars
  <2>1. ATypeOK'
    BY DEF ATypeOK
  <2>2. Workers' = Workers
    BY DEF Workers, Alive
  <2>3. RegisteredWhileServed' /\ SocketsMatchWorkers'
    BY DEF RegisteredWhileServed, SocketsMatchWorkers, ATypeOK, Alive
  <2>4. CloseProgress'
    BY DEF CloseProgress, ATypeOK
  <2> QED BY <2>1, <2>2, <2>3, <2>4, SameGoroutines
<1>2. CASE AwaitDone \/ LockConns \/ UnlockConns \/ AwaitGoroutines \/ RemoveSocket
  <2> USE <1>2 DEF AwaitDone, LockConns, UnlockConns, AwaitGoroutines, RemoveSocket,
                   netVars, loopVars, logVars
  <2>1. ATypeOK'
    BY DEF ATypeOK
  <2>2. Workers' = Workers
    BY DEF Workers, Alive
  <2>3. RegisteredWhileServed' /\ SocketsMatchWorkers'
    BY DEF RegisteredWhileServed, SocketsMatchWorkers, ATypeOK, Alive
  <2>4. CloseProgress'
    BY DEF CloseProgress, ATypeOK
  <2> QED BY <2>1, <2>2, <2>3, <2>4, SameGoroutines
<1>3. ASSUME NEW c \in Conn, SweepConn(c) PROVE AInv'
  <2> USE <1>3 DEF SweepConn, loopVars, logVars
  <2>1. ATypeOK'
    BY DEF ATypeOK
  <2>2. Workers' = Workers
    BY DEF Workers, Alive
  <2>3. RegisteredWhileServed' /\ SocketsMatchWorkers'
    BY DEF RegisteredWhileServed, SocketsMatchWorkers, CloseProgress, ATypeOK, Alive
  <2>4. CloseProgress'
    BY DEF CloseProgress, ATypeOK
  <2> QED BY <2>1, <2>2, <2>3, <2>4, SameGoroutines
<1> QED BY <1>1, <1>2, <1>3 DEF CloseStep

\* No step of the agent or of a peer leaves the invariant.
LEMMA AgentKeepsInv == AInv /\ (AgentStep \/ PeerStep) => AInv'
BY PeerKeepsInv, ServeKeepsInv, WorkerKeepsInv, CloseKeepsInv DEF AgentStep, PeerStep

\* A stutter keeps the invariant.
LEMMA StutterKeepsInv == AInv /\ UNCHANGED avars => AInv'
<1> SUFFICES ASSUME AInv, UNCHANGED avars PROVE AInv'
  OBVIOUS
<1> USE DEF AInv, avars, netVars, loopVars, closeVars, logVars
<1>1. ATypeOK'
  BY DEF ATypeOK
<1>2. Workers' = Workers
  BY DEF Workers, Alive
<1>3. RegisteredWhileServed' /\ SocketsMatchWorkers' /\ CloseProgress'
  BY DEF RegisteredWhileServed, SocketsMatchWorkers, CloseProgress, Alive
<1> QED BY <1>1, <1>2, <1>3, SameGoroutines

\* The state of the agent is always consistent: the WaitGroup counts the
\* goroutines, the map holds the connections that are served, and Close has
\* got as far as the rest of the state says.
THEOREM AgentInvariant == ASpec => []AInv
<1>1. AInv /\ [AgentStep \/ PeerStep]_avars => AInv'
  BY AgentKeepsInv, StutterKeepsInv
<1> QED BY AInitInv, <1>1, PTL DEF ASpec

\* The invariant says that the sweep misses no connection
LEMMA InvImpliesNoneMissed == AInv => NoneMissed
<1> SUFFICES ASSUME AInv, closer \in {"join", "remove", "closed"}
             PROVE  /\ serve \in {"done", "exited"}
                    /\ \A c \in Conn : Alive(c) => sock[c] = "closed"
  BY DEF NoneMissed
<1>1. serve \in {"done", "exited"}
  BY DEF AInv, CloseProgress
<1>2. ASSUME NEW c \in Conn, Alive(c) PROVE sock[c] = "closed"
  <2>1. c \in conns \/ worker[c] = "release"
    BY <1>2 DEF AInv, ATypeOK, WorkerStates, RegisteredWhileServed, Alive
  <2> QED BY <2>1 DEF AInv, CloseProgress, SocketsMatchWorkers
<1> QED BY <1>1, <1>2

\* and that nothing is left when Close returns.
LEMMA InvImpliesNothingOutlives == AInv => NothingOutlivesClose
<1> SUFFICES ASSUME AInv, closer \in {"remove", "closed"}
             PROVE  /\ serve = "exited" /\ Workers = {} /\ conns = {}
                    /\ \A c \in Conn : sock[c] \in {"new", "closed"}
  BY DEF NothingOutlivesClose
<1>1. wg = 0
  BY DEF AInv, CloseProgress
<1>2. Workers = {} /\ serve = "exited"
  BY <1>1, ZeroMeansNone DEF AInv
<1>3. conns = {}
  BY <1>2 DEF AInv, ATypeOK, RegisteredWhileServed, Workers, Alive
<1>4. ASSUME NEW c \in Conn PROVE sock[c] \in {"new", "closed"}
  <2>1. ~Alive(c) /\ incoming = None /\ sock[c] # "backlog"
    BY <1>2 DEF AInv, CloseProgress, Workers
  <2> QED BY <2>1, NoneIsNothing DEF AInv, ATypeOK, SocketsMatchWorkers
<1> QED BY <1>2, <1>3, <1>4

\* Every variable keeps its type; in particular the WaitGroup never goes
\* negative, which would panic.
THEOREM AgentTypes == ASpec => []ATypeOK
<1>1. AInv => ATypeOK
  BY DEF AInv
<1> QED BY <1>1, AgentInvariant, PTL

\* The WaitGroup counts exactly the goroutines that have not returned, for
\* any number of connections.
THEOREM WaitGroupCounts == ASpec => []WgCountsGoroutines
<1>1. AInv => WgCountsGoroutines
  BY DEF AInv
<1> QED BY <1>1, AgentInvariant, PTL

\* The map of connections holds exactly those a goroutine is serving, so the
\* sweep of Close neither misses one nor closes a stranger.
THEOREM MapHoldsTheServed == ASpec => []RegisteredWhileServed
<1>1. AInv => RegisteredWhileServed
  BY DEF AInv
<1> QED BY <1>1, AgentInvariant, PTL

\* Close waits for the accept loop before it sweeps, so the sweep misses no
\* goroutine, however many connections were dialled and in whatever order.
THEOREM SweepMissesNone == ASpec => []NoneMissed
BY AgentInvariant, InvImpliesNoneMissed, PTL

\* When Close returns, no goroutine runs and no connection is open.
THEOREM CloseEndsEverything == ASpec => []NothingOutlivesClose
BY AgentInvariant, InvImpliesNothingOutlives, PTL

\* The WaitGroup never goes negative, and Add is never called on a counter at
\* zero or after Wait may have begun.
THEOREM WaitGroupIsUsedRight == ASpec => AddsBeforeWait
<1> DEFINE A == wg' > wg => wg > 0 /\ closer \notin {"join", "remove", "closed"}
<1>1. AInv /\ [AgentStep \/ PeerStep]_avars => [A]_avars
  <2> SUFFICES ASSUME AInv, AgentStep \/ PeerStep, wg' > wg
               PROVE  wg > 0 /\ closer \notin {"join", "remove", "closed"}
    OBVIOUS
  <2>1. wg \in Int
    BY DEF AInv, ATypeOK
  <2>2. Register
    BY <2>1 DEF AgentStep, PeerStep, ServeStep, WorkerStep, CloseStep, Accept, AcceptFails,
       ServeReturns, ReadRequest, Handle, Reply, ReadFails, CloseConn, Unregister,
       WorkerReturns, CloseListener, AwaitDone, LockConns, SweepConn, UnlockConns,
       AwaitGoroutines, RemoveSocket, Dial, Receive, HangUp, Send
  <2>3. serve = "register"
    BY <2>2 DEF Register
  <2> QED BY <2>3, WorkersFinite DEF AInv, CloseProgress, WgCountsGoroutines
<1> QED BY AgentInvariant, <1>1, PTL DEF ASpec, AddsBeforeWait
=============================================================================
