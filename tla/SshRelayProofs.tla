--------------------------- MODULE SshRelayProofs ---------------------------
(***************************************************************************)
(* Proofs about the relay in front of the backing agent, for any entry,    *)
(* any alphabet of requests and any number of connections.                 *)
(*                                                                         *)
(* A signature is decided at one point (HandleForward) and made at another *)
(* (Handle, in the agent), with a dial, a write and a read in between and  *)
(* with more messages from the client after it.  RInv follows the message  *)
(* on that way: what is forwarded or in the agent's inbox is justified by  *)
(* what the client had sent, and sending more never takes that away.       *)
(***************************************************************************)
EXTENDS SshRelay, BackingAgentProofs

\* Sending one more message keeps what was justified.
LEMMA JustifiedGrows ==
  ASSUME NEW h \in Seq(Request), NEW r \in Request, NEW m, Justified(h, m)
  PROVE  Justified(Append(h, r), m)
<1>1. /\ Len(Append(h, r)) = Len(h) + 1
      /\ \A i \in 1..Len(h) : Append(h, r)[i] = h[i]
      /\ Len(h) \in Nat
  OBVIOUS
<1> QED BY <1>1 DEF Justified

\* The decision itself: what a bounded entry lets through is justified.
LEMMA DecisionIsJustified ==
  ASSUME RTypeOK, BindingWasSent, HandlesLastAsked, Bounded, NEW c \in Conn,
         relay[c] = "handle", msg[c].type = "sign", Forwarded(msg[c], bound[c])
  PROVE  Justified(asked[c], msg[c])
<1> DEFINE d == msg[c].data
           n == Len(asked[c])
<1>1. SignAllowed(d, bound[c])
  BY DEF Forwarded
<1>2. CASE d.what = "sshsig" /\ d.ns \in Sign
  BY <1>2 DEF Justified
<1>3. CASE d.what = "login" /\ LoginAllowed(d, bound[c])
  <2>1. PICK j \in 1..n :
          /\ asked[c][j].type = "bind" /\ asked[c][j].signer = asked[c][j].key
          /\ bound[c].key = asked[c][j].key /\ bound[c].sid = asked[c][j].sid
          /\ bound[c].forwarding = asked[c][j].forwarding
    BY <1>3 DEF BindingWasSent, LoginAllowed
  <2>2. n \in Nat /\ n > 0 /\ asked[c][n] = msg[c]
    BY DEF HandlesLastAsked, RTypeOK
  <2>3. j < n
    BY <2>1, <2>2
  <2>4. LoginIsFor(d, asked[c][j])
    BY <1>3, <2>1 DEF LoginAllowed, LoginIsFor
  <2> QED BY <1>3, <2>2, <2>3, <2>4 DEF Justified
<1> QED BY <1>1, <1>2, <1>3 DEF SignAllowed

\* The invariant holds before anything was relayed.
LEMMA RInitInv == RInit => RInv
<1> SUFFICES ASSUME RInit PROVE RInv
  OBVIOUS
<1>1. AInv
  BY AInitInv DEF RInit
<1>2. RTypeOK /\ BindingWasSent /\ HandlesLastAsked
  BY DEF RInit, RTypeOK, BindingWasSent, HandlesLastAsked
<1>3. ForwardedIsJustified /\ SignaturesAreBounded
  BY DEF RInit, AInit, ForwardedIsJustified, SignaturesAreBounded
<1> QED BY <1>1, <1>2, <1>3 DEF RInv

\* A step of the agent: only Handle adds to the log, and what it adds was in
\* the inbox.
LEMMA BackingKeepsInv == RInv /\ BackingStep => RInv'
<1> SUFFICES ASSUME RInv, AgentStep, UNCHANGED rvars PROVE RInv'
  BY DEF BackingStep
<1> USE DEF RInv, rvars
<1>1. AInv'
  BY AgentKeepsInv
<1>2. RTypeOK' /\ BindingWasSent' /\ HandlesLastAsked'
  BY DEF RTypeOK, BindingWasSent, HandlesLastAsked
<1>3. /\ \A c \in Conn : inbox'[c] \in {inbox[c], None}
      /\ \/ signed' = signed
         \/ \E c \in Conn : /\ inbox[c] # None /\ inbox[c].type = "sign"
                            /\ signed' = Append(signed, <<c, inbox[c]>>)
  <2>1. ASSUME NEW c \in Conn, Handle(c)
        PROVE /\ \A e \in Conn : inbox'[e] \in {inbox[e], None}
              /\ \/ signed' = signed
                 \/ /\ inbox[c] # None /\ inbox[c].type = "sign"
                    /\ signed' = Append(signed, <<c, inbox[c]>>)
    BY <2>1 DEF Handle, AInv, ATypeOK, SocketsMatchWorkers
  <2>2. CASE ~\E c \in Conn : Handle(c)
    <3>1. UNCHANGED <<inbox, signed>>
      BY <2>2 DEF AgentStep, ServeStep, WorkerStep, CloseStep, Accept, AcceptFails,
         ServeReturns, Register, ReadRequest, Reply, ReadFails, CloseConn, Unregister,
         WorkerReturns, CloseListener, AwaitDone, LockConns, SweepConn, UnlockConns,
         AwaitGoroutines, RemoveSocket, netVars, logVars
    <3> QED BY <3>1
  <2> QED BY <2>1, <2>2
<1>4. ASSUME Bounded PROVE ForwardedIsJustified'
  BY <1>3, <1>4 DEF ForwardedIsJustified, RTypeOK
<1>5. ASSUME Bounded PROVE SignaturesAreBounded'
  <2>1. CASE signed' = signed
    BY <1>5, <2>1 DEF SignaturesAreBounded
  <2>2. ASSUME NEW c \in Conn, inbox[c] # None, inbox[c].type = "sign",
               signed' = Append(signed, <<c, inbox[c]>>)
        PROVE  SignaturesAreBounded'
    <3>1. signed \in Seq(Conn \X Request) /\ <<c, inbox[c]>> \in Conn \X Request
      BY <2>2 DEF AInv, ATypeOK
    <3>2. /\ Len(signed) \in Nat /\ Len(signed') = Len(signed) + 1
          /\ signed'[Len(signed) + 1] = <<c, inbox[c]>>
          /\ \A i \in 1..Len(signed) : signed'[i] = signed[i]
      BY <2>2, <3>1
    <3>3. Justified(asked[c], inbox[c])
      BY <1>5, <2>2 DEF ForwardedIsJustified
    <3>4. ASSUME NEW i \in 1..Len(signed')
          PROVE  Justified(asked[signed'[i][1]], signed'[i][2])
      <4>1. CASE i = Len(signed) + 1
        BY <4>1, <3>2, <3>3
      <4>2. CASE i \in 1..Len(signed)
        BY <4>2, <3>2, <1>5 DEF SignaturesAreBounded
      <4> QED BY <4>1, <4>2, <3>2
    <3> QED BY <3>4 DEF SignaturesAreBounded
  <2> QED BY <1>3, <2>1, <2>2
<1> QED BY <1>1, <1>2, <1>4, <1>5 DEF SignaturesAreBounded

\* A step of the client: it may add to what was asked, on its connection.
LEMMA ClientKeepsInv ==
  ASSUME RInv, NEW c \in Conn, NEW m \in Request, ClientStep(c, m)
  PROVE  RInv'
<1> USE DEF RInv
<1>1. CASE Connect(c)
  <2> USE <1>1 DEF Connect
  <2>1. AInv'
    BY StutterKeepsInv
  <2>2. RTypeOK' /\ BindingWasSent' /\ HandlesLastAsked'
    BY DEF RTypeOK, BindingWasSent, HandlesLastAsked
  <2>3. Bounded => ForwardedIsJustified' /\ SignaturesAreBounded'
    BY DEF ForwardedIsJustified, SignaturesAreBounded, RTypeOK, avars, netVars, logVars
  <2> QED BY <2>1, <2>2, <2>3 DEF SignaturesAreBounded
<1>2. CASE Ask(c, m)
  <2> USE <1>2 DEF Ask
  <2>1. AInv'
    BY StutterKeepsInv
  <2>2. /\ asked[c] \in Seq(Request) /\ asked'[c] = Append(asked[c], m)
        /\ \A e \in Conn : e # c => asked'[e] = asked[e]
    BY DEF RTypeOK
  <2>3. /\ Len(asked[c]) \in Nat /\ Len(asked'[c]) = Len(asked[c]) + 1
        /\ asked'[c][Len(asked[c]) + 1] = m
        /\ \A i \in 1..Len(asked[c]) : asked'[c][i] = asked[c][i]
    BY <2>2
  <2>4. RTypeOK'
    BY DEF RTypeOK
  <2>5. HandlesLastAsked'
    BY <2>2, <2>3 DEF HandlesLastAsked, RTypeOK
  <2>6. BindingWasSent'
    <3> SUFFICES ASSUME NEW e \in Conn, bound[e] # None
                 PROVE  \E j \in 1..Len(asked'[e]) :
                          /\ asked'[e][j].type = "bind" /\ asked'[e][j].signer = asked'[e][j].key
                          /\ bound[e].key = asked'[e][j].key /\ bound[e].sid = asked'[e][j].sid
                          /\ bound[e].forwarding = asked'[e][j].forwarding
      BY DEF BindingWasSent
    <3>1. PICK j \in 1..Len(asked[e]) :
            /\ asked[e][j].type = "bind" /\ asked[e][j].signer = asked[e][j].key
            /\ bound[e].key = asked[e][j].key /\ bound[e].sid = asked[e][j].sid
            /\ bound[e].forwarding = asked[e][j].forwarding
      BY DEF BindingWasSent
    <3>2. j \in 1..Len(asked'[e]) /\ asked'[e][j] = asked[e][j]
      BY <2>2, <2>3
    <3> QED BY <3>1, <3>2
  <2>7. \A e \in Conn, r \in Request : Justified(asked[e], r) => Justified(asked'[e], r)
    BY <2>2, JustifiedGrows
  <2>8. ASSUME Bounded PROVE ForwardedIsJustified'
    BY <2>7, <2>8 DEF ForwardedIsJustified, HandlesLastAsked, RTypeOK, AInv, ATypeOK,
       avars, netVars
  <2>9. ASSUME Bounded PROVE SignaturesAreBounded'
    BY <2>7, <2>9 DEF SignaturesAreBounded, AInv, ATypeOK, avars, logVars
  <2> QED BY <2>1, <2>4, <2>5, <2>6, <2>8, <2>9 DEF SignaturesAreBounded
<1>3. CASE Leave(c)
  <2> USE <1>3 DEF Leave
  <2>1. AInv'
    BY PeerKeepsInv, StutterKeepsInv
  <2>2. RTypeOK' /\ BindingWasSent' /\ HandlesLastAsked'
    BY DEF RTypeOK, BindingWasSent, HandlesLastAsked
  <2>3. UNCHANGED <<inbox, signed>>
    BY DEF HangUp, avars, netVars, logVars
  <2>4. Bounded => ForwardedIsJustified' /\ SignaturesAreBounded'
    BY <2>3 DEF ForwardedIsJustified, SignaturesAreBounded, RTypeOK
  <2> QED BY <2>1, <2>2, <2>4 DEF SignaturesAreBounded
<1> QED BY <1>1, <1>2, <1>3 DEF ClientStep

\* A step of the relay: HandleForward takes the decision, WriteUpstream puts
\* the message it was taken for into the inbox.
LEMMA RelayKeepsInv ==
  ASSUME RInv, NEW c \in Conn, RelayStep(c)
  PROVE  RInv'
<1> USE DEF RInv
<1>1. CASE HandleBind(c)
  <2> USE <1>1 DEF HandleBind, Answer
  <2>1. AInv'
    BY StutterKeepsInv
  <2>2. msg[c] \in Request
    BY DEF HandlesLastAsked
  <2>3. RTypeOK'
    <3>1. [key |-> msg[c].key, sid |-> msg[c].sid, forwarding |-> msg[c].forwarding] \in Binding
      BY <2>2 DEF Binding
    <3>2. bound' \in [Conn -> Binding \cup {None}]
      BY <3>1 DEF RTypeOK
    <3> QED BY <3>2 DEF RTypeOK
  <2>4. HandlesLastAsked'
    BY DEF HandlesLastAsked, RTypeOK
  <2>5. BindingWasSent'
    <3>1. Len(asked[c]) \in Nat
      BY DEF RTypeOK
    <3>2. ASSUME VerifyBinding(msg[c])
          PROVE  LET n == Len(asked[c])
                 IN /\ n \in 1..n
                    /\ asked'[c][n].type = "bind" /\ asked'[c][n].signer = asked'[c][n].key
                    /\ bound'[c].key = asked'[c][n].key /\ bound'[c].sid = asked'[c][n].sid
                    /\ bound'[c].forwarding = asked'[c][n].forwarding
      BY <3>1, <3>2 DEF HandlesLastAsked, VerifyBinding, RTypeOK
    <3>3. UNCHANGED asked /\ \A e \in Conn : e # c \/ ~VerifyBinding(msg[c]) => bound'[e] = bound[e]
      BY DEF RTypeOK
    <3>4. ASSUME NEW e \in Conn, bound'[e] # None
          PROVE  \E j \in 1..Len(asked'[e]) :
                   /\ asked'[e][j].type = "bind" /\ asked'[e][j].signer = asked'[e][j].key
                   /\ bound'[e].key = asked'[e][j].key /\ bound'[e].sid = asked'[e][j].sid
                   /\ bound'[e].forwarding = asked'[e][j].forwarding
      <4>1. CASE e = c /\ VerifyBinding(msg[c])
        BY <4>1, <3>2, <3>3
      <4>2. CASE e # c \/ ~VerifyBinding(msg[c])
        BY <4>2, <3>3, <3>4 DEF BindingWasSent
      <4> QED BY <4>1, <4>2
    <3> QED BY <3>4 DEF BindingWasSent
  <2>6. Bounded => ForwardedIsJustified' /\ SignaturesAreBounded'
    BY DEF ForwardedIsJustified, SignaturesAreBounded, RTypeOK, avars, netVars, logVars
  <2> QED BY <2>1, <2>3, <2>4, <2>5, <2>6 DEF SignaturesAreBounded
<1>2. CASE HandleForward(c)
  <2> USE <1>2 DEF HandleForward
  <2>1. AInv'
    BY StutterKeepsInv
  <2>2. RTypeOK' /\ BindingWasSent' /\ HandlesLastAsked'
    BY DEF RTypeOK, BindingWasSent, HandlesLastAsked
  <2>3. Bounded /\ msg[c].type = "sign" => Justified(asked[c], msg[c])
    BY DecisionIsJustified
  <2>4. Bounded => ForwardedIsJustified' /\ SignaturesAreBounded'
    BY <2>3 DEF ForwardedIsJustified, SignaturesAreBounded, RTypeOK, avars, netVars, logVars
  <2> QED BY <2>1, <2>2, <2>4 DEF SignaturesAreBounded
<1>3. CASE HandleRefuse(c) \/ UpstreamFails(c)
  <2>1. /\ relay' = [relay EXCEPT ![c] = "read"] /\ msg' = [msg EXCEPT ![c] = None]
        /\ UNCHANGED <<avars, bound, asked>>
    BY <1>3 DEF HandleRefuse, UpstreamFails, Answer
  <2>2. AInv'
    BY <2>1, StutterKeepsInv
  <2>3. RTypeOK'
    BY <2>1 DEF RTypeOK
  <2>4. BindingWasSent' /\ HandlesLastAsked'
    BY <2>1 DEF RTypeOK, BindingWasSent, HandlesLastAsked
  <2>5. Bounded => ForwardedIsJustified' /\ SignaturesAreBounded'
    BY <2>1 DEF ForwardedIsJustified, SignaturesAreBounded, RTypeOK, avars, netVars, logVars
  <2> QED BY <2>2, <2>3, <2>4, <2>5 DEF SignaturesAreBounded
<1>4. CASE DialUpstream(c)
  <2> USE <1>4 DEF DialUpstream
  <2>1. AInv'
    BY PeerKeepsInv
  <2>2. RTypeOK' /\ BindingWasSent' /\ HandlesLastAsked'
    BY DEF RTypeOK, BindingWasSent, HandlesLastAsked
  <2>3. Bounded => ForwardedIsJustified' /\ SignaturesAreBounded'
    BY DEF ForwardedIsJustified, SignaturesAreBounded, RTypeOK, Dial, logVars
  <2> QED BY <2>1, <2>2, <2>3 DEF SignaturesAreBounded
<1>5. CASE WriteUpstream(c)
  <2> USE <1>5 DEF WriteUpstream
  <2>1. msg[c] \in Request
    BY DEF HandlesLastAsked
  <2>2. AInv'
    BY <2>1, PeerKeepsInv
  <2>3. RTypeOK' /\ BindingWasSent' /\ HandlesLastAsked'
    BY DEF RTypeOK, BindingWasSent, HandlesLastAsked
  <2>4. Bounded => ForwardedIsJustified' /\ SignaturesAreBounded'
    BY DEF ForwardedIsJustified, SignaturesAreBounded, RTypeOK, Send, logVars, AInv, ATypeOK
  <2> QED BY <2>2, <2>3, <2>4 DEF SignaturesAreBounded
<1>6. CASE ReadUpstream(c)
  <2> USE <1>6 DEF ReadUpstream, Answer
  <2>1. AInv'
    BY PeerKeepsInv
  <2>2. RTypeOK' /\ BindingWasSent' /\ HandlesLastAsked'
    BY DEF RTypeOK, BindingWasSent, HandlesLastAsked
  <2>3. Bounded => ForwardedIsJustified' /\ SignaturesAreBounded'
    BY DEF ForwardedIsJustified, SignaturesAreBounded, RTypeOK, Receive, logVars
  <2> QED BY <2>1, <2>2, <2>3 DEF SignaturesAreBounded
<1> QED BY <1>1, <1>2, <1>3, <1>4, <1>5, <1>6 DEF RelayStep

\* The relay dies with its sandbox: its ends of the connections close, and
\* what is in flight stays there.
LEMMA KillKeepsInv == RInv /\ Kill => RInv'
<1> SUFFICES ASSUME RInv, Kill PROVE RInv'
  OBVIOUS
<1> USE DEF RInv, Kill, loopVars, closeVars, logVars
<1>1. AInv'
  <2>1. ATypeOK'
    BY DEF AInv, ATypeOK
  <2>2. WgCountsGoroutines'
    BY SameGoroutines DEF AInv, Workers, Alive
  <2>3. RegisteredWhileServed' /\ SocketsMatchWorkers' /\ CloseProgress'
    BY DEF AInv, RegisteredWhileServed, SocketsMatchWorkers, CloseProgress, Alive
  <2> QED BY <2>1, <2>2, <2>3 DEF AInv
<1>2. RTypeOK' /\ BindingWasSent' /\ HandlesLastAsked'
  BY DEF RTypeOK, BindingWasSent, HandlesLastAsked
<1>3. Bounded => ForwardedIsJustified' /\ SignaturesAreBounded'
  BY DEF ForwardedIsJustified, SignaturesAreBounded, RTypeOK
<1> QED BY <1>1, <1>2, <1>3 DEF SignaturesAreBounded

\* The invariant of relay and agent together.
THEOREM RelayInvariant == RSpec => []RInv
<1>1. RInv /\ [RNext]_allVars => RInv'
  <2> SUFFICES ASSUME RInv, [RNext]_allVars PROVE RInv'
    OBVIOUS
  <2>1. CASE UNCHANGED allVars
    <3> USE <2>1 DEF allVars, rvars
    <3>1. AInv'
      BY StutterKeepsInv DEF RInv
    <3>2. RTypeOK' /\ BindingWasSent' /\ HandlesLastAsked'
      BY DEF RInv, RTypeOK, BindingWasSent, HandlesLastAsked
    <3>3. Bounded => ForwardedIsJustified' /\ SignaturesAreBounded'
      BY DEF RInv, ForwardedIsJustified, SignaturesAreBounded, avars, netVars, logVars
    <3> QED BY <3>1, <3>2, <3>3 DEF RInv, SignaturesAreBounded
  <2>2. CASE RNext
    BY <2>2, BackingKeepsInv, KillKeepsInv, RelayKeepsInv, ClientKeepsInv DEF RNext
  <2> QED BY <2>1, <2>2
<1> QED BY RInitInv, <1>1, PTL DEF RSpec

\* For a bounded entry nothing is signed that the entry and the bindings of
\* the connection do not admit: for every set of namespaces, destinations and
\* host keys, every stream of messages and every interleaving.
THEOREM RelayBoundsSignatures == RSpec => []SignaturesAreBounded
<1>1. RInv => SignaturesAreBounded
  BY DEF RInv
<1> QED BY RelayInvariant, <1>1, PTL

\* Close of the backing agent ends everything also while the relay dials it,
\* writes to it, or is killed.
THEOREM RelayedCloseEndsEverything == RSpec => []NothingOutlivesClose
<1>1. RInv => NothingOutlivesClose
  BY InvImpliesNothingOutlives DEF RInv
<1> QED BY RelayInvariant, <1>1, PTL
-----------------------------------------------------------------------------
(* Counting.  A request frame is counted by the agent when it is read,     *)
(* and one was asked for each: RequestsWereAsked keeps, beside what was    *)
(* counted, what may still be.                                             *)

\* What is at the relay or with the agent is on finitely many connections.
LEMMA InFlightFinite ==
  /\ IsFiniteSet(AtRelay) /\ Cardinality(AtRelay) \in Nat
  /\ IsFiniteSet(AtAgent) /\ Cardinality(AtAgent) \in Nat
<1>1. AtRelay \subseteq Conn /\ AtAgent \subseteq Conn
  BY DEF AtRelay, AtAgent
<1> QED BY <1>1, ConnFinite, FS_Subset, FS_CardinalityType

\* Refusing a request or giving one up keeps the count.
LEMMA GivingUpKeepsCount ==
  ASSUME RequestsWereAsked, requests \in Nat, requests' = requests, Wanted' = Wanted,
         AtRelay' \subseteq AtRelay, AtAgent' \subseteq AtAgent
  PROVE  RequestsWereAsked'
<1>1. /\ Cardinality(AtRelay') <= Cardinality(AtRelay) /\ Cardinality(AtRelay') \in Nat
      /\ Cardinality(AtAgent') <= Cardinality(AtAgent) /\ Cardinality(AtAgent') \in Nat
  BY InFlightFinite, FS_Subset, FS_CardinalityType
<1>2. Cardinality(Wanted) \in Nat
  BY FS_CardinalityType DEF RequestsWereAsked
<1> QED BY <1>1, <1>2, InFlightFinite DEF RequestsWereAsked

\* A step of the agent: ReadRequest counts one that was waiting, the others
\* count nothing and add nothing.
LEMMA BackingKeepsCount == RInv /\ CountInv /\ BackingStep => CountInv'
<1> SUFFICES ASSUME RInv, CountInv, AgentStep, UNCHANGED rvars PROVE CountInv'
  BY DEF BackingStep
<1> USE DEF CountInv, rvars
<1>1. ATypeOK /\ SocketsMatchWorkers
  BY DEF RInv, AInv
<1>2. Wanted' = Wanted /\ AtRelay' = AtRelay
  BY DEF Wanted, AtRelay
<1>3. ASSUME NEW c \in Conn, ReadRequest(c) PROVE CountInv'
  <2>1. inbox' = inbox /\ requests' = requests + 1 /\ requests \in Nat
    BY <1>1, <1>3 DEF ReadRequest, netVars, ATypeOK
  <2>2. c \in AtAgent /\ AtAgent' = AtAgent \ {c}
    BY <1>1, <1>3, <2>1 DEF ReadRequest, AtAgent, ATypeOK
  <2>3. Cardinality(AtAgent') = Cardinality(AtAgent) - 1
    BY <2>2, InFlightFinite, FS_RemoveElement
  <2>4. RequestsWereAsked'
    BY <1>2, <2>1, <2>3, InFlightFinite, FS_CardinalityType DEF RequestsWereAsked
  <2>5. OneAtATime'
    BY <1>1, <1>3, <2>1 DEF ReadRequest, OneAtATime, ATypeOK
  <2> QED BY <2>1, <2>4, <2>5 DEF ForwardedIsListOrSign
<1>4. CASE ~\E c \in Conn : ReadRequest(c)
  <2>1. /\ requests' = requests
        /\ \A e \in Conn : /\ inbox'[e] \in {inbox[e], None}
                           /\ worker'[e] \in {"none", "read"} /\ inbox'[e] # None =>
                                worker[e] \in {"none", "read"}
    <3>1. CASE ServeStep
      BY <3>1, <1>1 DEF ServeStep, Accept, AcceptFails, ServeReturns, Register, netVars, logVars,
         ATypeOK, SocketsMatchWorkers
    <3>2. ASSUME NEW c \in Conn, WorkerStep(c)
          PROVE  /\ requests' = requests
                 /\ \A e \in Conn : /\ inbox'[e] \in {inbox[e], None}
                                    /\ worker'[e] \in {"none", "read"} /\ inbox'[e] # None =>
                                         worker[e] \in {"none", "read"}
      <4>1. CASE Handle(c)
        BY <4>1, <1>1 DEF Handle, ATypeOK
      <4>2. CASE Reply(c)
        BY <4>2, <1>1 DEF Reply, ATypeOK, logVars, OneAtATime
      <4>3. CASE ReadFails(c) \/ CloseConn(c) \/ Unregister(c) \/ WorkerReturns(c)
        BY <4>3, <1>1 DEF ReadFails, CloseConn, Unregister, WorkerReturns, netVars, logVars, ATypeOK
      <4> QED BY <1>4, <3>2, <4>1, <4>2, <4>3 DEF WorkerStep
    <3>3. CASE CloseStep
      BY <3>3, <1>1 DEF CloseStep, CloseListener, AwaitDone, LockConns, SweepConn, UnlockConns,
         AwaitGoroutines, RemoveSocket, netVars, logVars
    <3> QED BY <3>1, <3>2, <3>3 DEF AgentStep
  <2>2. AtAgent' \subseteq AtAgent
    BY <2>1 DEF AtAgent
  <2>3. RequestsWereAsked'
    BY <1>1, <1>2, <2>1, <2>2, GivingUpKeepsCount DEF ATypeOK
  <2>4. OneAtATime'
    <3>1. CASE \E c \in Conn : WorkerStep(c)
      BY <3>1, <1>1, <1>4 DEF WorkerStep, Handle, Reply, ReadFails, CloseConn, Unregister,
         WorkerReturns, netVars, OneAtATime, ATypeOK
    <3>2. CASE ServeStep
      BY <3>2, <1>1 DEF ServeStep, Accept, AcceptFails, ServeReturns, Register, netVars,
         OneAtATime, ATypeOK
    <3>3. CASE CloseStep
      BY <3>3, <1>1 DEF CloseStep, CloseListener, AwaitDone, LockConns, SweepConn, UnlockConns,
         AwaitGoroutines, RemoveSocket, netVars, OneAtATime
    <3> QED BY <3>1, <3>2, <3>3 DEF AgentStep
  <2> QED BY <2>1, <2>3, <2>4 DEF ForwardedIsListOrSign
<1> QED BY <1>3, <1>4

\* A step of the client: a message asked is one more that may be counted,
\* and it is at the relay.
LEMMA ClientKeepsCount ==
  ASSUME RInv, CountInv, NEW c \in Conn, NEW m \in Request, ClientStep(c, m)
  PROVE  CountInv'
<1> USE DEF CountInv
<1>1. RTypeOK /\ ATypeOK /\ requests \in Nat
  BY DEF RInv, AInv, ATypeOK
<1>2. CASE Connect(c) \/ Leave(c)
  <2>1. UNCHANGED <<inbox, worker, requests, msg, asked>>
    BY <1>2 DEF Connect, Leave, HangUp, avars, netVars, logVars
  <2>2. AtAgent' = AtAgent /\ Wanted' = Wanted /\ AtRelay' \subseteq AtRelay
    BY <1>1, <1>2, <2>1 DEF AtAgent, Wanted, AtRelay, Connect, Leave, RTypeOK
  <2>3. RequestsWereAsked'
    BY <1>1, <2>1, <2>2, GivingUpKeepsCount
  <2>4. ForwardedIsListOrSign' /\ OneAtATime'
    BY <1>1, <1>2, <2>1 DEF ForwardedIsListOrSign, OneAtATime, Connect, Leave, RTypeOK
  <2> QED BY <2>3, <2>4
<1>3. CASE Ask(c, m)
  <2> DEFINE n == Len(asked[c])
  <2>1. /\ asked[c] \in Seq(Request) /\ asked'[c] = Append(asked[c], m)
        /\ \A e \in Conn : e # c => asked'[e] = asked[e]
    BY <1>1, <1>3 DEF Ask, RTypeOK
  <2>2. /\ n \in Nat /\ Len(asked'[c]) = n + 1 /\ asked'[c][n + 1] = m
        /\ \A i \in 1..n : asked'[c][i] = asked[c][i]
    BY <2>1
  <2>3. /\ Wanted \subseteq Conn \X Nat
        /\ \A e \in Conn, i \in Nat : <<e, i>> \in Wanted <=>
             i \in 1..Len(asked[e]) /\ asked[e][i].type \in {"identities", "sign"}
    BY <1>1 DEF Wanted, RTypeOK
  <2>4. /\ Wanted' \subseteq Conn \X Nat
        /\ \A e \in Conn, i \in Nat : <<e, i>> \in Wanted' <=>
             i \in 1..Len(asked'[e]) /\ asked'[e][i].type \in {"identities", "sign"}
    <3>1. RTypeOK'
      BY <1>1, <1>3 DEF Ask, RTypeOK
    <3> QED BY <3>1 DEF Wanted, RTypeOK
  <2>5. \A i \in Nat : <<c, i>> \in Wanted' <=>
          <<c, i>> \in Wanted \/ (i = n + 1 /\ m.type \in {"identities", "sign"})
    <3> SUFFICES ASSUME NEW i \in Nat
                 PROVE  <<c, i>> \in Wanted' <=>
                          <<c, i>> \in Wanted \/ (i = n + 1 /\ m.type \in {"identities", "sign"})
      OBVIOUS
    <3>1. CASE i = n + 1
      BY <3>1, <2>3, <2>4, <2>2
    <3>2. CASE i # n + 1
      <4>1. i \in 1..(n + 1) <=> i \in 1..n
        BY <3>2, <2>2
      <4> QED BY <3>2, <4>1, <2>3, <2>4, <2>2
    <3> QED BY <3>1, <3>2
  <2>6. \A e \in Conn \ {c}, i \in Nat : <<e, i>> \in Wanted' <=> <<e, i>> \in Wanted
    BY <2>3, <2>4, <2>1
  <2>7. UNCHANGED <<inbox, worker, requests>>
    BY <1>3 DEF Ask, avars, netVars, logVars
  <2>8. AtAgent' = AtAgent
    BY <2>7 DEF AtAgent
  <2>9. ForwardedIsListOrSign' /\ OneAtATime'
    BY <1>1, <1>3, <2>7 DEF ForwardedIsListOrSign, OneAtATime, Ask, RTypeOK
  <2>10. CASE m.type \in {"identities", "sign"}
    <3>1. Wanted' = Wanted \cup {<<c, n + 1>>} /\ <<c, n + 1>> \notin Wanted
      BY <2>2, <2>10, <2>3, <2>4, <2>5, <2>6
    <3>2. AtRelay' = AtRelay \cup {c} /\ c \notin AtRelay
      BY <1>1, <1>3, <2>10 DEF AtRelay, Ask, RTypeOK
    <3>3. /\ IsFiniteSet(Wanted') /\ Cardinality(Wanted') = Cardinality(Wanted) + 1
          /\ Cardinality(Wanted) \in Nat
      BY <3>1, FS_AddElement, FS_CardinalityType DEF RequestsWereAsked
    <3>4. Cardinality(AtRelay') = Cardinality(AtRelay) + 1
      BY <3>2, InFlightFinite, FS_AddElement
    <3>5. RequestsWereAsked'
      BY <1>1, <2>7, <2>8, <3>3, <3>4, InFlightFinite DEF RequestsWereAsked
    <3> QED BY <2>9, <3>5
  <2>11. CASE m.type \notin {"identities", "sign"}
    <3>1. Wanted' = Wanted
      <4>1. \A e \in Conn, i \in Nat : <<e, i>> \in Wanted' <=> <<e, i>> \in Wanted
        BY <2>11, <2>5, <2>6
      <4>2. ASSUME NEW p \in Conn \X Nat PROVE p \in Wanted' <=> p \in Wanted
        <5>1. PICK e \in Conn, i \in Nat : p = <<e, i>>
          OBVIOUS
        <5> QED BY <4>1, <5>1
      <4>3. Wanted \subseteq Conn \X Nat /\ Wanted' \subseteq Conn \X Nat
        BY <2>3, <2>4
      <4> QED BY <4>2, <4>3, Zenon
    <3>2. AtRelay' = AtRelay
      BY <1>1, <1>3, <2>11 DEF AtRelay, Ask, RTypeOK
    <3>3. RequestsWereAsked'
      BY <1>1, <2>7, <2>8, <3>1, <3>2, GivingUpKeepsCount
    <3> QED BY <2>9, <3>3
  <2> QED BY <2>10, <2>11
<1> QED BY <1>2, <1>3 DEF ClientStep

\* A step of the relay: WriteUpstream moves a request from the relay to the
\* agent, the others keep it or give it up.
LEMMA RelayKeepsCount ==
  ASSUME RInv, CountInv, NEW c \in Conn, RelayStep(c)
  PROVE  CountInv'
<1> USE DEF CountInv
<1>1. RTypeOK /\ ATypeOK /\ requests \in Nat /\ HandlesLastAsked
  BY DEF RInv, AInv, ATypeOK
<1>2. asked' = asked /\ requests' = requests /\ worker' = worker
  BY DEF RelayStep, HandleBind, HandleForward, HandleRefuse, DialUpstream, WriteUpstream,
     ReadUpstream, UpstreamFails, Dial, Send, Receive, avars, logVars
<1>3. Wanted' = Wanted
  BY <1>2 DEF Wanted
<1>4. CASE ~WriteUpstream(c)
  <2>1. inbox' = inbox
    BY <1>4 DEF RelayStep, HandleBind, HandleForward, HandleRefuse, DialUpstream,
       ReadUpstream, UpstreamFails, Dial, Receive, avars, netVars
  <2>2. /\ \A e \in Conn : e # c => relay'[e] = relay[e] /\ msg'[e] = msg[e]
        /\ \/ relay'[c] = "read"
           \/ /\ relay'[c] = "forward" /\ relay[c] \in {"handle", "forward"}
              /\ msg'[c] = msg[c] /\ msg[c].type \in {"identities", "sign"}
    <3>1. CASE HandleForward(c)
      BY <3>1, <1>1 DEF HandleForward, Forwarded, RTypeOK
    <3>2. CASE DialUpstream(c)
      BY <3>2, <1>1 DEF DialUpstream, ForwardedIsListOrSign
    <3>3. CASE HandleBind(c) \/ HandleRefuse(c) \/ ReadUpstream(c) \/ UpstreamFails(c)
      BY <3>3, <1>1 DEF HandleBind, HandleRefuse, ReadUpstream, UpstreamFails, Answer, RTypeOK
    <3> QED BY <1>4, <3>1, <3>2, <3>3 DEF RelayStep
  <2>3. AtAgent' = AtAgent /\ AtRelay' \subseteq AtRelay
    BY <1>2, <2>1, <2>2 DEF AtAgent, AtRelay
  <2>4. RequestsWereAsked'
    BY <1>1, <1>2, <1>3, <2>3, GivingUpKeepsCount
  <2>5. ForwardedIsListOrSign' /\ OneAtATime'
    BY <1>2, <2>1, <2>2 DEF ForwardedIsListOrSign, OneAtATime
  <2> QED BY <2>4, <2>5
<1>5. CASE WriteUpstream(c)
  <2> USE <1>5 DEF WriteUpstream, Send
  <2>1. msg[c] \in Request /\ msg[c].type \in {"identities", "sign"} /\ msg[c] # None
    BY <1>1, NoneIsNothing DEF HandlesLastAsked, ForwardedIsListOrSign
  <2>2. c \in AtRelay /\ AtRelay' = AtRelay \ {c}
    BY <1>1, <2>1 DEF AtRelay, RTypeOK
  <2>3. c \notin AtAgent /\ AtAgent' = AtAgent \cup {c}
    BY <1>1, <2>1 DEF AtAgent, ATypeOK
  <2>4. /\ Cardinality(AtRelay') = Cardinality(AtRelay) - 1
        /\ Cardinality(AtAgent') = Cardinality(AtAgent) + 1
    BY <2>2, <2>3, InFlightFinite, FS_AddElement, FS_RemoveElement
  <2>5. RequestsWereAsked'
    BY <1>1, <1>2, <1>3, <2>4, InFlightFinite, FS_CardinalityType DEF RequestsWereAsked
  <2>6. ForwardedIsListOrSign' /\ OneAtATime'
    BY <1>1, <2>1 DEF ForwardedIsListOrSign, OneAtATime, RTypeOK, ATypeOK
  <2> QED BY <2>5, <2>6
<1> QED BY <1>4, <1>5

\* One request is asked for each that the agent counts, and only listing and
\* signing reach it: however often the relay gives up on an answer, and
\* whenever either process ends.
THEOREM OnlyAskedReachTheAgent == RSpec => []OnlyListAndSignReach
<1>1. RInit => CountInv
  <2> SUFFICES ASSUME RInit PROVE CountInv
    OBVIOUS
  <2>1. AtRelay = {} /\ AtAgent = {} /\ Wanted = {}
    BY DEF RInit, AInit, AtRelay, AtAgent, Wanted
  <2>2. RequestsWereAsked
    BY <2>1, FS_EmptySet DEF RequestsWereAsked, RInit, AInit
  <2> QED BY <2>2 DEF CountInv, ForwardedIsListOrSign, OneAtATime, RInit, AInit
<1>2. RInv /\ CountInv /\ [RNext]_allVars => CountInv'
  <2> SUFFICES ASSUME RInv, CountInv, [RNext]_allVars PROVE CountInv'
    OBVIOUS
  <2>1. CASE UNCHANGED allVars \/ Kill
    <3>1. /\ UNCHANGED <<inbox, worker, requests, msg, asked>>
          /\ \A c \in Conn : relay'[c] \in {relay[c], "closed"}
      BY <2>1 DEF allVars, rvars, avars, netVars, logVars, Kill
    <3>2. AtAgent' = AtAgent /\ Wanted' = Wanted /\ AtRelay' \subseteq AtRelay
      BY <3>1 DEF AtAgent, Wanted, AtRelay
    <3>3. RequestsWereAsked'
      BY <3>1, <3>2, GivingUpKeepsCount DEF CountInv, RInv, AInv, ATypeOK
    <3> QED BY <3>1, <3>3 DEF CountInv, ForwardedIsListOrSign, OneAtATime
  <2> QED BY <2>1, BackingKeepsCount, ClientKeepsCount, RelayKeepsCount DEF RNext
<1>3. RInv /\ CountInv => OnlyListAndSignReach
  BY InFlightFinite, FS_CardinalityType
     DEF CountInv, ForwardedIsListOrSign, RequestsWereAsked, OnlyListAndSignReach, RInv, AInv, ATypeOK
<1> QED BY RelayInvariant, <1>1, <1>2, <1>3, PTL DEF RSpec
=============================================================================
