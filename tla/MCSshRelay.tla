----------------------------- MODULE MCSshRelay -----------------------------
(***************************************************************************)
(* A bounded entry that lists one namespace, one destination with a user   *)
(* and one without.  One connection with the whole alphabet of requests,   *)
(* or two connections with a few of them, so that a binding on one could   *)
(* be used on the other and the agent could be closed under both.          *)
(***************************************************************************)
EXTENDS SshRelay

CONSTANTS
  First,      \* the connection that has the whole alphabet while it is alone
  MaxAlone,   \* messages on it
  MaxShared   \* messages per connection when another one may be open too

Hosts == {"named", "anyUser"}
MCKnown == [h \in Hosts |-> IF h = "named" THEN {"k1"} ELSE {"k2"}]
MCAuthenticate == {[user |-> "git", host |-> "named"], [user |-> None, host |-> "anyUser"]}

Bind(k, by, s, f) == [type |-> "bind", key |-> k, signer |-> by, sid |-> s, forwarding |-> f]
Login(s, u, hb, own) == [type |-> "sign",
  data |-> [what |-> "login", sid |-> s, user |-> u, hostbound |-> hb, keyMatches |-> own]]
Sshsig(n) == [type |-> "sign", data |-> [what |-> "sshsig", ns |-> n]]

\* Genuine, forged, forwarding and foreign bindings; logins that match them
\* or differ in one field; both kinds of namespace; the refused rest.
MCRequest ==
  { Bind("k1", "k1", "s1", FALSE), Bind("k1", "k3", "s1", FALSE),
    Bind("k1", "k1", "s1", TRUE), Bind("k2", "k2", "s2", FALSE),
    Bind("k3", "k3", "s1", FALSE),
    Login("s1", "git", None, TRUE), Login("s1", "root", None, TRUE),
    Login("s1", "git", "k2", TRUE), Login("s1", "git", None, FALSE),
    Login("s2", "root", "k2", TRUE),
    Sshsig("git"), Sshsig("file"),
    [type |-> "sign", data |-> [what |-> "other"]],
    [type |-> "sign", data |-> [what |-> "garbled"]],
    [type |-> "identities"], [type |-> "other"] }

\* A binding, which the relay answers itself, and the login it admits, which
\* the agent answers: the login must not pass on the other connection.
BindAndLogin == {Bind("k1", "k1", "s1", FALSE), Login("s1", "git", None, TRUE)}

\* A third message follows two bindings, of which the later one counts.
OneConnection ==
  /\ Len(asked[First]) <= MaxAlone
  /\ Len(asked[First]) > 2 => \A i \in 1..2 : asked[First][i].type = "bind"
  /\ \A c \in Conn \ {First} : relay[c] \in {"none", "closed"} /\ asked[c] = <<>>
Shared ==
  \A c \in Conn : /\ Len(asked[c]) <= MaxShared
                  /\ {asked[c][i] : i \in 1..Len(asked[c])} \subseteq BindAndLogin

\* Only what the clients do is bounded: they connect and ask.
MCNext == RNext /\ (OneConnection \/ Shared)'
MCSpec == RInit /\ [][MCNext]_allVars /\ RFairness
=============================================================================
