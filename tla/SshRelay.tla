------------------------------ MODULE SshRelay ------------------------------
(***************************************************************************)
(* The SSH agent relay of the suite's fake runtime                         *)
(* (tck/sandbox/testdata/ssh-relay/main.go) between the sandbox and the    *)
(* backing agent: one goroutine per client connection, each with its own   *)
(* session binding and its own connection to the agent, dialled when the   *)
(* first request has to be forwarded.                                      *)
(*                                                                         *)
(* Client connection c forwards over agent connection c.  The -broken      *)
(* switches are off: they remove one rule each, and serve as the mutants.  *)
(***************************************************************************)
EXTENDS BackingAgent

CONSTANTS
  Bounded,        \* the entry says unrestricted: false
  Sign,           \* namespaces the entry lists
  Authenticate,   \* destinations: records [user, host], user None for a bare host
  Known           \* Known[h]: the host keys held for host h, from outside the sandbox

VARIABLES
  relay,     \* relay[c]: "none", "read", "handle", "forward", "await", "closed"
  msg,       \* msg[c]: the message being handled
  bound,     \* bound[c]: the verified binding of the connection, or None
  dialled,   \* dialled[c]: upstream is not nil
  answer,    \* answer[c]: the last answer given to the client
  asked      \* asked[c]: history, every message the client sent on c

rvars == <<relay, msg, bound, dialled, answer, asked>>
allVars == <<avars, rvars>>

RInit ==
  /\ AInit
  /\ relay = [c \in Conn |-> "none"]
  /\ msg = [c \in Conn |-> None]
  /\ bound = [c \in Conn |-> None]
  /\ dialled = [c \in Conn |-> FALSE]
  /\ answer = [c \in Conn |-> None]
  /\ asked = [c \in Conn |-> <<>>]

-----------------------------------------------------------------------------
(* The decision.  The data of a sign request is what the relay's parsers   *)
(* make of it: "sshsig" with a namespace, "login" with its fields, "other" *)
(* for well-framed data that is neither, "garbled" for a body that is not  *)
(* a key, data and flags.                                                  *)

\* verifyBinding: the host key itself signed the session identifier.
VerifyBinding(m) == m.signer = m.key

\* Mutant: the session identifier is not compared.
LoginAllowedAnySession(d, b) ==
  /\ b # None
  /\ ~b.forwarding
  /\ d.hostbound # None => d.hostbound = b.key
  /\ \E a \in Authenticate : (a.user = None \/ a.user = d.user) /\ b.key \in Known[a.host]

LoginAllowed(d, b) ==
  /\ b # None
  /\ ~b.forwarding
  /\ d.sid = b.sid
  /\ d.hostbound # None => d.hostbound = b.key
  /\ \E a \in Authenticate : (a.user = None \/ a.user = d.user) /\ b.key \in Known[a.host]

\* A login naming another key than the one asked to sign does not parse as
\* a login.
SignAllowed(d, b) ==
  /\ d.what # "garbled"
  /\ \/ ~Bounded
     \/ d.what = "sshsig" /\ d.ns \in Sign
     \/ d.what = "login" /\ d.keyMatches /\ LoginAllowed(d, b)

\* Mutant: only the sign request is looked at.
ForwardedUnlessSign(m, b) == m.type = "sign" => SignAllowed(m.data, b)

\* What handle() passes on to the backing agent.
Forwarded(m, b) ==
  \/ m.type = "identities"
  \/ m.type = "sign" /\ SignAllowed(m.data, b)

-----------------------------------------------------------------------------
Connect(c) ==
  /\ relay[c] = "none"
  /\ relay' = [relay EXCEPT ![c] = "read"]
  /\ UNCHANGED <<avars, msg, bound, dialled, answer, asked>>

\* The client writes a message and the goroutine reads it.
Ask(c, m) ==
  /\ relay[c] = "read"
  /\ msg' = [msg EXCEPT ![c] = m]
  /\ asked' = [asked EXCEPT ![c] = Append(@, m)]
  /\ relay' = [relay EXCEPT ![c] = "handle"]
  /\ UNCHANGED <<avars, bound, dialled, answer>>

\* Write the answer and go back to reading.
Answer(c, a) ==
  /\ answer' = [answer EXCEPT ![c] = a]
  /\ relay' = [relay EXCEPT ![c] = "read"]
  /\ msg' = [msg EXCEPT ![c] = None]

\* Mutant: one binding for the whole process.
HandleBindShared(c) ==
  /\ relay[c] = "handle" /\ msg[c].type = "bind"
  /\ IF VerifyBinding(msg[c])
     THEN /\ bound' = [e \in Conn |-> [key |-> msg[c].key, sid |-> msg[c].sid,
                                        forwarding |-> msg[c].forwarding]]
          /\ Answer(c, "success")
     ELSE Answer(c, "failure") /\ UNCHANGED bound
  /\ UNCHANGED <<avars, dialled, asked>>

\* A session binding is verified here and never passed on; a later one
\* replaces it.
HandleBind(c) ==
  /\ relay[c] = "handle" /\ msg[c].type = "bind"
  /\ IF VerifyBinding(msg[c])
     THEN /\ bound' = [bound EXCEPT ![c] = [key |-> msg[c].key, sid |-> msg[c].sid,
                                            forwarding |-> msg[c].forwarding]]
          /\ Answer(c, "success")
     ELSE Answer(c, "failure") /\ UNCHANGED bound
  /\ UNCHANGED <<avars, dialled, asked>>

HandleForward(c) ==
  /\ relay[c] = "handle" /\ msg[c].type # "bind"
  /\ Forwarded(msg[c], bound[c])
  /\ relay' = [relay EXCEPT ![c] = "forward"]
  /\ UNCHANGED <<avars, msg, bound, dialled, answer, asked>>

HandleRefuse(c) ==
  /\ relay[c] = "handle" /\ msg[c].type # "bind"
  /\ ~Forwarded(msg[c], bound[c])
  /\ Answer(c, "failure")
  /\ UNCHANGED <<avars, bound, dialled, asked>>

\* forward(): dial on first use, write the frame, read the reply. Each of
\* them can fail, and each failure is answered with a failure.
DialUpstream(c) ==
  /\ relay[c] = "forward" /\ ~dialled[c]
  /\ Dial(c)
  /\ dialled' = [dialled EXCEPT ![c] = TRUE]
  /\ UNCHANGED <<relay, msg, bound, answer, asked>>

WriteUpstream(c) ==
  /\ relay[c] = "forward" /\ dialled[c]
  /\ Send(c, msg[c])
  /\ relay' = [relay EXCEPT ![c] = "await"]
  /\ UNCHANGED <<msg, bound, dialled, answer, asked>>

ReadUpstream(c) ==
  /\ relay[c] = "await"
  /\ Receive(c)
  /\ Answer(c, "relayed")
  /\ UNCHANGED <<bound, dialled, asked>>

\* Mutant: a reply that will never come is waited for.
UpstreamFailsOnWrite(c) ==
  /\ \/ relay[c] = "forward" /\ ~dialled[c] /\ ~listening
     \/ relay[c] = "forward" /\ dialled[c] /\ sock[c] = "closed"
  /\ Answer(c, "failure")
  /\ UNCHANGED <<avars, bound, dialled, asked>>

UpstreamFails(c) ==
  /\ \/ relay[c] = "forward" /\ ~dialled[c] /\ ~listening
     \/ relay[c] = "forward" /\ dialled[c] /\ sock[c] = "closed"
     \/ relay[c] = "await" /\ sock[c] = "closed" /\ outbox[c] = None
  /\ Answer(c, "failure")
  /\ UNCHANGED <<avars, bound, dialled, asked>>

\* The client hangs up, or the answer cannot be written: serve returns and
\* its deferred calls close both ends.
Leave(c) ==
  /\ relay[c] = "read"
  /\ relay' = [relay EXCEPT ![c] = "closed"]
  /\ IF dialled[c] /\ peerOpen[c] THEN HangUp(c) ELSE UNCHANGED avars
  /\ UNCHANGED <<msg, bound, dialled, answer, asked>>

\* The relay process is killed with its sandbox, at any point.
Kill ==
  /\ \E c \in Conn : relay[c] \notin {"none", "closed"}
  /\ relay' = [c \in Conn |-> "closed"]
  /\ peerOpen' = [c \in Conn |-> FALSE]
  /\ UNCHANGED <<listening, sock, inbox, outbox, loopVars, worker, conns, wg, closeVars,
                 logVars, msg, bound, dialled, answer, asked>>

-----------------------------------------------------------------------------
RelayStep(c) == HandleBind(c) \/ HandleForward(c) \/ HandleRefuse(c) \/ DialUpstream(c)
                  \/ WriteUpstream(c) \/ ReadUpstream(c) \/ UpstreamFails(c)
BackingStep == AgentStep /\ UNCHANGED rvars
ClientStep(c, m) == Connect(c) \/ Ask(c, m) \/ Leave(c)

RFairness ==
  /\ \A c \in Conn : WF_allVars(RelayStep(c))
  /\ WF_allVars(ServeStep /\ UNCHANGED rvars)
  /\ \A c \in Conn : WF_allVars(WorkerStep(c) /\ UNCHANGED rvars)

RNext == BackingStep \/ Kill
           \/ \E c \in Conn : RelayStep(c) \/ \E m \in Request : ClientStep(c, m)

RSpec == RInit /\ [][RNext]_allVars /\ RFairness

-----------------------------------------------------------------------------
(* Properties.                                                             *)

\* What the capability page asks of a login signature, read off everything
\* the client ever sent on the connection: a genuine, non-forwarding binding
\* of the session in the data, to a server the entry names.
LoginIsFor(d, b) ==
  /\ b.type = "bind" /\ b.signer = b.key /\ ~b.forwarding /\ b.sid = d.sid
  /\ d.hostbound \in {None, b.key}
  /\ \E a \in Authenticate : a.user \in {None, d.user} /\ b.key \in Known[a.host]

\* On a connection whose client sent the messages h, m may be signed: it is
\* in a listed namespace, or is a login that an earlier binding admits.
Justified(h, m) ==
  \/ m.data.what = "sshsig" /\ m.data.ns \in Sign
  \/ /\ m.data.what = "login"
     /\ \E j, k \in 1..Len(h) : j < k /\ h[k] = m /\ LoginIsFor(m.data, h[j])

\* ssh-agent@1: for a bounded entry, every signature that reached the backing
\* agent is in a listed namespace, or is a login that a binding sent earlier
\* on the same connection vouches for.
SignaturesAreBounded ==
  Bounded => \A i \in 1..Len(signed) : Justified(asked[signed[i][1]], signed[i][2])

\* The messages sent so far that a relay may pass on, as connection and place.
Wanted == UNION {{<<c, i>> : i \in {j \in 1..Len(asked[c]) :
                    asked[c][j].type \in {"identities", "sign"}}} : c \in Conn}

\* ssh-agent@1: only listing and signing reach the backing agent, one request
\* for each that was asked; the others are answered without it.
OnlyListAndSignReach ==
  /\ \A c \in Conn : inbox[c] # None => inbox[c].type \in {"identities", "sign"}
  /\ requests <= Cardinality(Wanted)

\* Every message is answered, also when the agent is closed meanwhile.
EveryMessageAnswered ==
  \A c \in Conn : relay[c] = "handle" ~> relay[c] \in {"read", "closed"}

-----------------------------------------------------------------------------
(* The inductive invariant behind SignaturesAreBounded: the decision taken *)
(* on a message is followed from the client to the backing agent's log.    *)

Binding == {[key |-> m.key, sid |-> m.sid, forwarding |-> m.forwarding] :
              m \in {r \in Request : r.type = "bind"}}

RTypeOK ==
  /\ relay \in [Conn -> {"none", "read", "handle", "forward", "await", "closed"}]
  /\ msg \in [Conn -> Request \cup {None}]
  /\ bound \in [Conn -> Binding \cup {None}]
  /\ asked \in [Conn -> Seq(Request)]

\* The binding a connection holds is one its client sent, and genuine.
BindingWasSent ==
  \A c \in Conn : bound[c] # None =>
    \E j \in 1..Len(asked[c]) :
      /\ asked[c][j].type = "bind" /\ asked[c][j].signer = asked[c][j].key
      /\ bound[c].key = asked[c][j].key /\ bound[c].sid = asked[c][j].sid
      /\ bound[c].forwarding = asked[c][j].forwarding

\* The message being handled is the last one the client sent.
HandlesLastAsked ==
  \A c \in Conn : relay[c] \in {"handle", "forward", "await"} =>
    msg[c] \in Request /\ Len(asked[c]) > 0 /\ msg[c] = asked[c][Len(asked[c])]

\* What is on its way to the agent was justified when it was let through,
\* and still is.
ForwardedIsJustified ==
  \A c \in Conn :
    /\ relay[c] = "forward" /\ msg[c].type = "sign" => Justified(asked[c], msg[c])
    /\ inbox[c] # None /\ inbox[c].type = "sign" => Justified(asked[c], inbox[c])

RInv ==
  /\ AInv /\ RTypeOK /\ BindingWasSent /\ HandlesLastAsked
  /\ Bounded => ForwardedIsJustified
  /\ SignaturesAreBounded

-----------------------------------------------------------------------------
(* The inductive invariant behind OnlyListAndSignReach.  A request that    *)
(* was asked is at the relay, or with the agent and not yet counted, or    *)
(* counted, or given up: never two of these.                               *)

AtRelay == {c \in Conn : /\ relay[c] \in {"handle", "forward"}
                         /\ msg[c].type \in {"identities", "sign"}}
AtAgent == {c \in Conn : inbox[c] # None /\ worker[c] \in {"none", "read"}}

ForwardedIsListOrSign ==
  \A c \in Conn :
    /\ relay[c] = "forward" => msg[c].type \in {"identities", "sign"}
    /\ inbox[c] # None => inbox[c].type \in {"identities", "sign"}

RequestsWereAsked ==
  /\ IsFiniteSet(Wanted)
  /\ requests + Cardinality(AtRelay) + Cardinality(AtAgent) <= Cardinality(Wanted)

\* A request is out of the inbox before its answer is written.
OneAtATime == \A c \in Conn : worker[c] = "reply" => inbox[c] = None

CountInv == ForwardedIsListOrSign /\ RequestsWereAsked /\ OneAtATime
=============================================================================
