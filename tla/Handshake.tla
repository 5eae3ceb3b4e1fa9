----------------------------- MODULE Handshake ------------------------------
(***************************************************************************)
(* The agent handshake protocol: the engine and its Agent façade           *)
(* (dalin-handshake/src/protocol.rs, agent.rs, types.rs), the Python       *)
(* client that speaks it (python/ahp_client.py), over the file transport   *)
(* (transport/file.rs): one inbox directory per agent, one file per        *)
(* message, read oldest first.                                             *)
(*                                                                         *)
(* An agent is one thread: its application pumps recv and handle_message   *)
(* and sends on what handle_message returns, if it is not addressed to     *)
(* itself.  Writing a file is not atomic: an agent that dies while it      *)
(* sends leaves a torn file, which no recv gets past.                      *)
(*                                                                         *)
(* Names, capabilities, payloads of data and the text of reasons are left  *)
(* out.  A tick is keep_alive_interval.                                    *)
(***************************************************************************)
EXTENDS Naturals, Sequences, FiniteSets

CONSTANTS
    Agents,
    Python,         \* the agents that run the Python client
    Offers,         \* what a request carries: version and token
    None,
    MaxMissed,      \* clean_expired_sessions' argument
    MaxSessions,    \* bound on the sessions a behaviour makes
    MaxData,        \* bound on what a data message is added to
    MaxStarts,      \* bound on the starts of a behaviour
    MaxPings,       \* bound on the pings of a session not yet answered
    MaxInbox        \* bound on what a ping or a torn file is added to

ASSUME HandshakeAssumption ==
    /\ Python \subseteq Agents
    /\ Offers \subseteq {"plain", "token", "bad_token", "old_version"}
    /\ MaxMissed \in Nat /\ MaxSessions \in Nat /\ MaxStarts \in Nat
    /\ MaxData \in Nat /\ MaxPings \in Nat /\ MaxInbox \in Nat

VARIABLES
    state,     \* HandshakeProtocol::state; "down" when no process runs
    sessions,  \* the sessions, by id: their owner holds them
    inbox,     \* the files of an agent's inbox, by time of change
    announced, \* the agents whose announce.json is there
    minted,    \* session ids made so far
    starts,    \* starts that are left
    answered,  \* history: sessions whose ping the peer has handled
    owed       \* history: by session, pings sent less pongs read

vars == <<state, sessions, inbox, announced, minted, starts, answered, owed>>

Sids == 1 .. MaxSessions
State == {"init", "discovered", "connected", "active", "closed", "down"}
Session == [owner : Agents, peer : Agents, state : {"connected", "active"},
            age : 0 .. MaxMissed + 1]

(* sid is the field session_id; body what the handler reads of the payload:*)
(* the offer of a request, the session id of a response that accepts it.   *)
Message == [type : {"req", "resp", "ping", "pong", "data", "disconnect", "torn"},
            from : Agents, sid : Sids \cup {None},
            body : Offers \cup Sids \cup {None}]

TypeOK ==
    /\ state \in [Agents -> State]
    /\ DOMAIN sessions \subseteq Sids
    /\ \A s \in DOMAIN sessions : sessions[s] \in Session
    /\ \A a \in Agents : \A n \in DOMAIN inbox[a] :
          LET m == inbox[a][n] IN
          /\ m.from \in Agents \ {a}
          /\ m.sid = None \/ m.sid \in 1 .. minted
          /\ m.type = "req" => m.body \in Offers
    /\ announced \subseteq Agents
    /\ minted \in 0 .. MaxSessions
    /\ starts \in 0 .. MaxStarts
    /\ owed \in [Sids -> 0 .. MaxPings]

Init ==
    /\ state = [a \in Agents |-> "down"]
    /\ sessions = [s \in {} |-> None]
    /\ inbox = [a \in Agents |-> <<>>]
    /\ announced = {}
    /\ minted = 0
    /\ starts = MaxStarts
    /\ answered = {}
    /\ owed = [s \in Sids |-> 0]

-----------------------------------------------------------------------------
Running(a) == state[a] \notin {"down", "init", "closed"}
Own(a) == {s \in DOMAIN sessions : sessions[s].owner = a}
Msg(type, from, sid, body) == [type |-> type, from |-> from, sid |-> sid, body |-> body]

Without(S) == [s \in DOMAIN sessions \ S |-> sessions[s]]
With(sid, a, peer) ==
    [s \in DOMAIN sessions \cup {sid} |->
        IF s = sid THEN [owner |-> a, peer |-> peer, state |-> "connected", age |-> 0]
        ELSE sessions[s]]

(* The messages of some types on their way, as inbox and position.         *)
InFlight(types) ==
    UNION {{<<a, n>> : n \in {i \in DOMAIN inbox[a] : inbox[a][i].type \in types}} :
             a \in Agents}

Send(to, m) == inbox' = [inbox EXCEPT ![to] = Append(@, m)]

(* start: the transport makes its directories and writes announce.json.    *)
Start(a) ==
    /\ state[a] \in {"down", "closed"}
    /\ starts > 0
    /\ starts' = starts - 1
    /\ state' = [state EXCEPT ![a] = "discovered"]
    /\ announced' = announced \cup {a}
    /\ UNCHANGED <<sessions, inbox, minted, answered, owed>>

(* stop: a Disconnect for every session.  The engine does not say which    *)
(* session it closes; the Python client names it, by its own id.           *)
Farewells(a, p) ==
    LET mine == {s \in Own(a) : sessions[s].peer = p}
        named(s) == Msg("disconnect", a, IF a \in Python THEN s ELSE None, None)
    IN  {order \in [1 .. Cardinality(mine) -> {named(s) : s \in mine}] :
            \A s \in mine : \E n \in DOMAIN order : order[n] = named(s)}

Stop(a) ==
    /\ Running(a)
    /\ \E bye \in [Agents -> UNION {Farewells(a, p) : p \in Agents}] :
          /\ \A p \in Agents : bye[p] \in Farewells(a, p)
          /\ inbox' = [p \in Agents |-> inbox[p] \o bye[p]]
    /\ sessions' = Without(Own(a))
    /\ announced' = announced \ {a}
    /\ state' = [state EXCEPT ![a] = "closed"]
    /\ UNCHANGED <<minted, starts, answered, owed>>

(* The process dies: its sessions are gone, its announcement stays; a      *)
(* message it had read may be lost, one it was writing is torn.            *)
Crash(a) ==
    /\ Running(a)
    /\ state' = [state EXCEPT ![a] = "down"]
    /\ sessions' = Without(Own(a))
    /\ \/ UNCHANGED inbox
       \/ /\ inbox[a] # <<>> /\ Head(inbox[a]).type # "torn"
          /\ inbox' = [inbox EXCEPT ![a] = Tail(@)]
       \/ \E p \in Agents \ {a} :
             /\ Len(inbox[p]) < MaxInbox
             /\ Send(p, Msg("torn", a, None, None))
    /\ UNCHANGED <<announced, minted, starts, answered, owed>>

(* Mutant of OpenSession: the id of an earlier session is taken again.     *)
OpenSessionUnderOldId(a, peer) ==
    /\ minted < MaxSessions
    /\ sessions' = With(minted + 1, a, peer)
    /\ state' = [state EXCEPT ![a] = "connected"]
    /\ UNCHANGED minted

(* handshake: the request is sent and a session of one's own is opened; no *)
(* answer is waited for.                                                   *)
OpenSession(a, peer) ==
    /\ minted < MaxSessions
    /\ minted' = minted + 1
    /\ sessions' = With(minted + 1, a, peer)
    /\ state' = [state EXCEPT ![a] = "connected"]

StartHandshake(a, peer, offer) ==
    /\ Running(a)
    /\ minted + Cardinality(InFlight({"req"})) + 1 < MaxSessions  \* ids for all answers
    /\ peer \in announced
    /\ a \in Python => offer = "plain"
    /\ OpenSession(a, peer)
    /\ Send(peer, Msg("req", a, None, offer))
    /\ UNCHANGED <<announced, starts, answered, owed>>

(* Mutant of SendHeartbeat: a ping that was sent counts as a sign of life. *)
SendHeartbeatRefreshes(a, s) ==
    /\ Running(a) /\ a \notin Python /\ s \in Own(a)
    /\ owed[s] < MaxPings
    /\ Len(inbox[sessions[s].peer]) < MaxInbox
    /\ Send(sessions[s].peer, Msg("ping", a, s, None))
    /\ owed' = [owed EXCEPT ![s] = @ + 1]
    /\ sessions' = [sessions EXCEPT ![s].age = 0]
    /\ UNCHANGED <<state, announced, minted, starts, answered>>

(* send_heartbeat: a ping, whether or not earlier ones were answered.       *)
SendHeartbeat(a, s) ==
    /\ Running(a) /\ a \notin Python /\ s \in Own(a)
    /\ owed[s] < MaxPings
    /\ Len(inbox[sessions[s].peer]) < MaxInbox
    /\ Send(sessions[s].peer, Msg("ping", a, s, None))
    /\ owed' = [owed EXCEPT ![s] = @ + 1]
    /\ UNCHANGED <<state, sessions, announced, minted, starts, answered>>

(* send_data: an error without the session, a message with it.             *)
SendData(a, s) ==
    /\ Running(a) /\ s \in Own(a)
    /\ LET p == sessions[s].peer IN
       /\ Len(inbox[p]) < MaxData
       /\ Send(p, Msg("data", a, s, None))
    /\ UNCHANGED <<state, sessions, announced, minted, starts, answered, owed>>

-----------------------------------------------------------------------------
(* recv, handle_message and the answer.  A torn file is read, cannot be    *)
(* parsed and stays: recv fails or answers nothing, over and over.         *)
Receive(a, type) ==
    /\ Running(a) /\ inbox[a] # <<>>
    /\ Head(inbox[a]).type = type
    /\ UNCHANGED <<announced, starts>>

Consume(a) == inbox' = [inbox EXCEPT ![a] = Tail(@)]
Answer(a, m) ==
    inbox' = [inbox EXCEPT ![a] = Tail(@), ![Head(inbox[a]).from] = Append(@, m)]

(* The Python client accepts whatever it is asked.                         *)
Acceptable(a, offer) == a \in Python \/ offer \in {"plain", "token"}

(* The answer carries the id the responder made for its own session.       *)
HandleReq(a) ==
    /\ Receive(a, "req")
    /\ LET m == Head(inbox[a]) IN
       \/ /\ Acceptable(a, m.body)
          /\ OpenSession(a, m.from)
          /\ Answer(a, Msg("resp", a, IF a \in Python THEN minted + 1 ELSE None,
                           minted + 1))
       \/ /\ ~Acceptable(a, m.body)
          /\ Answer(a, Msg("resp", a, None, None))
          /\ UNCHANGED <<state, sessions, minted>>
    /\ UNCHANGED <<answered, owed>>

(* handle_handshake_resp: the id is looked up among one's own sessions. A  *)
(* rejection is an error to the caller and changes nothing.                *)
HandleResp(a) ==
    /\ Receive(a, "resp")
    /\ LET m == Head(inbox[a]) IN
       IF a \notin Python /\ m.body \in Own(a)
       THEN /\ sessions' = [sessions EXCEPT ![m.body].state = "active"]
            /\ state' = [state EXCEPT ![a] = "active"]
       ELSE UNCHANGED <<sessions, state>>
    /\ Consume(a)
    /\ UNCHANGED <<minted, answered, owed>>

(* Session::heartbeat, if the id is one of one's own.                      *)
Refresh(a, sid) ==
    sessions' = IF sid \in Own(a) THEN [sessions EXCEPT ![sid].age = 0] ELSE sessions

HandlePing(a) ==
    /\ Receive(a, "ping")
    /\ LET m == Head(inbox[a]) IN
       /\ Refresh(a, m.sid)
       /\ Answer(a, Msg("pong", a, m.sid, None))
       /\ answered' = answered \cup {m.sid}
    /\ UNCHANGED <<state, minted, owed>>

(* Mutant of HandlePong: a pong is answered like a ping.                   *)
HandlePongEchoes(a) ==
    /\ Receive(a, "pong")
    /\ Refresh(a, Head(inbox[a]).sid)
    /\ inbox' = [inbox EXCEPT ![a] = Tail(@),
                    ![Head(inbox[a]).from] =
                       @ \o <<Msg("pong", a, Head(inbox[a]).sid, None),
                              Msg("ping", a, Head(inbox[a]).sid, None)>>]
    /\ owed' = [owed EXCEPT ![Head(inbox[a]).sid] = @ - 1]
    /\ UNCHANGED <<state, minted, answered>>

HandlePong(a) ==
    /\ Receive(a, "pong")
    /\ Refresh(a, Head(inbox[a]).sid)
    /\ owed' = [owed EXCEPT ![Head(inbox[a]).sid] = @ - 1]
    /\ Consume(a)
    /\ UNCHANGED <<state, minted, answered>>

(* handle_disconnect: only the session that is named, if it is one's own.  *)
HandleDisconnect(a) ==
    /\ Receive(a, "disconnect")
    /\ sessions' = Without(Own(a) \cap {Head(inbox[a]).sid})
    /\ Consume(a)
    /\ UNCHANGED <<state, minted, answered, owed>>

HandleData(a) ==
    /\ Receive(a, "data")
    /\ Consume(a)
    /\ UNCHANGED <<state, sessions, minted, answered, owed>>

Pump(a) ==
    \/ HandleReq(a) \/ HandleResp(a) \/ HandlePing(a) \/ HandlePong(a)
    \/ HandleDisconnect(a) \/ HandleData(a)

-----------------------------------------------------------------------------
(* Mutant of Expired: a session whose ping was once answered is kept.      *)
ExpiredUnlessAnswered(a) ==
    {s \in Own(a) : sessions[s].age > MaxMissed /\ s \notin answered}

(* is_heartbeat_expired and clean_expired_sessions; the Python client has  *)
(* no such thing.                                                          *)
Expired(a) == {s \in Own(a) : sessions[s].age > MaxMissed}
CleanExpired(a) ==
    /\ Running(a) /\ a \notin Python
    /\ Expired(a) # {}
    /\ sessions' = Without(Expired(a))
    /\ UNCHANGED <<state, inbox, announced, minted, starts, answered, owed>>

Tick ==
    /\ \E s \in DOMAIN sessions : sessions[s].age <= MaxMissed
    /\ sessions' = [s \in DOMAIN sessions |->
                      [sessions[s] EXCEPT !.age = IF @ > MaxMissed THEN @ ELSE @ + 1]]
    /\ UNCHANGED <<state, inbox, announced, minted, starts, answered, owed>>

Next ==
    \/ \E a \in Agents :
          \/ Start(a) \/ Stop(a) \/ Crash(a)
          \/ \E peer \in Agents \ {a}, offer \in Offers : StartHandshake(a, peer, offer)
          \/ \E s \in DOMAIN sessions : SendHeartbeat(a, s) \/ SendData(a, s)
          \/ Pump(a)
          \/ CleanExpired(a)
    \/ Tick

(* Applications pump and clean up as long as they run; time goes on. They  *)
(* need not start, stop, ping or send anything.                            *)
Spec ==
    /\ Init
    /\ [][Next]_vars
    /\ \A a \in Agents : WF_vars(Pump(a)) /\ WF_vars(CleanExpired(a))
    /\ WF_vars(Tick)

-----------------------------------------------------------------------------
(* A session is refreshed only after its peer has handled a ping that      *)
(* names it: neither a late message of another session nor a message of    *)
(* one's own keeps a dead peer's session alive.                            *)
RefreshMeansPeerAnswered ==
    [][\A s \in DOMAIN sessions \cap DOMAIN sessions' :
          sessions'[s].age < sessions[s].age => s \in answered]_vars

(* Two agents never keep each other busy: of the pings and pongs of a       *)
(* session no more are on their way than pings were sent whose pong was not *)
(* read, so a ping gets one answer and an answer none, and requests and     *)
(* responses together are no more than the handshakes that were started and *)
(* accepted.                                                                *)
NoReplyStorm ==
    /\ \A s \in Sids :
          Cardinality({f \in InFlight({"ping", "pong"}) : inbox[f[1]][f[2]].sid = s})
             <= owed[s]
    /\ Cardinality(InFlight({"req", "resp"})) <= minted

(* An agent that stops or dies for good leaves no session behind at a      *)
(* running engine, although its Disconnect closes none: they expire.       *)
DeadPeerExpires ==
    \A a \in Agents \ Python, p \in Agents :
        <>[](Running(a) /\ ~Running(p))
        => <>[](\A s \in Own(a) : sessions[s].peer # p)
=============================================================================
