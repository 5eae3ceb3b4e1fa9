--------------------------- MODULE HandshakeProofs ---------------------------
(* Safety of the handshake protocol for any number of agents and sessions.   *)
(* Two facts about the messages on their way carry it: they are no more than *)
(* what was sent and not yet answered (Counted), and what a message says of  *)
(* a session stays true, because an id is never given twice (Fits).          *)
EXTENDS Handshake, FiniteSetTheorems, TLAPS

Beats == {"ping", "pong"}
Boxes == [Agents -> Seq(Message)]

\* The heartbeat messages of a session, and the requests and responses.
Beat(s) == {m \in Message : m.type \in Beats /\ m.sid = s}
Dialogue == {m \in Message : m.type \in {"req", "resp"}}

\* The places in any inboxes of messages of a kind, and a bound on them.
Found(box, kind) ==
    {f \in Agents \X Nat : f[2] \in DOMAIN box[f[1]] /\ box[f[1]][f[2]] \in kind}
Within(box, kind, n) == IsFiniteSet(Found(box, kind)) /\ Cardinality(Found(box, kind)) <= n

\* What a message in the inbox of an agent says is so.
Fits(a, m) ==
    /\ m.from \in Agents \ {a}
    /\ m.sid = None \/ m.sid \in 1 .. minted
    /\ m.type = "req" => m.body \in Offers
    /\ m.type \in Beats => m.sid \in 1 .. minted
    /\ m.type = "ping" /\ m.sid \in DOMAIN sessions => sessions[m.sid].owner = m.from
    /\ m.type = "pong" => m.sid \in answered

\* What the messages on their way say is so.
Held(box) ==
    /\ box \in Boxes
    /\ \A a \in Agents : \A n \in DOMAIN box[a] : Fits(a, box[a][n])

\* They are no more than what is not yet answered.
Counted(box, open, made) ==
    /\ \A s \in Sids : Within(box, Beat(s), open[s])
    /\ Within(box, Dialogue, made)

SessionsFit ==
    /\ DOMAIN sessions \subseteq 1 .. minted
    /\ \A s \in DOMAIN sessions :
          sessions[s] \in Session /\ sessions[s].peer # sessions[s].owner

Inv ==
    /\ state \in [Agents -> State]
    /\ announced \subseteq Agents
    /\ minted \in 0 .. MaxSessions
    /\ starts \in 0 .. MaxStarts
    /\ owed \in [Sids -> 0 .. MaxPings]
    /\ SessionsFit
    /\ Held(inbox)
    /\ Counted(inbox, owed, minted)

-----------------------------------------------------------------------------
LEMMA Bounds ==
  MaxMissed \in Nat /\ MaxSessions \in Nat /\ MaxStarts \in Nat /\ MaxPings \in Nat
  BY HandshakeAssumption

LEMMA FoundInFlight ==
  ASSUME inbox \in Boxes
  PROVE  /\ InFlight({"req", "resp"}) = Found(inbox, Dialogue)
         /\ \A s : {f \in InFlight(Beats) : inbox[f[1]][f[2]].sid = s}
                   = Found(inbox, Beat(s))
<1>1. \A a \in Agents : \A n \in DOMAIN inbox[a] : n \in Nat /\ inbox[a][n] \in Message
  BY DEF Boxes
<1>2. ASSUME NEW types
      PROVE  InFlight(types) = {f \in Agents \X Nat : /\ f[2] \in DOMAIN inbox[f[1]]
                                                     /\ inbox[f[1]][f[2]].type \in types}
  BY <1>1 DEF InFlight
<1>3. InFlight({"req", "resp"}) = Found(inbox, Dialogue)
  BY <1>1, <1>2 DEF Found, Dialogue
<1>4. ASSUME NEW s
      PROVE  {f \in InFlight(Beats) : inbox[f[1]][f[2]].sid = s} = Found(inbox, Beat(s))
  BY <1>1, <1>2 DEF Found, Beat
<1>5. QED
  BY <1>3, <1>4

-----------------------------------------------------------------------------
(* What taking the first message of an inbox does.                           *)
Taken(box, a) == [box EXCEPT ![a] = Tail(@)]
Sent(box, a, m) == [box EXCEPT ![a] = Append(@, m)]

LEMMA TakenBox ==
  ASSUME NEW box \in Boxes, NEW a \in Agents, box[a] # <<>>
  PROVE  /\ Taken(box, a) \in Boxes
         /\ \A p \in Agents \ {a} : Taken(box, a)[p] = box[p]
         /\ \A i \in DOMAIN Taken(box, a)[a] :
               /\ i \in Nat /\ i + 1 \in DOMAIN box[a] /\ i + 1 # 1
               /\ Taken(box, a)[a][i] = box[a][i + 1]
         /\ 1 \in DOMAIN box[a] /\ Head(box[a]) = box[a][1] /\ Head(box[a]) \in Message
  BY DEF Taken, Boxes

LEMMA SentBox ==
  ASSUME NEW box \in Boxes, NEW a \in Agents, NEW m \in Message
  PROVE  /\ Sent(box, a, m) \in Boxes
         /\ \A p \in Agents \ {a} : Sent(box, a, m)[p] = box[p]
         /\ DOMAIN Sent(box, a, m)[a] = DOMAIN box[a] \cup {Len(box[a]) + 1}
         /\ Len(box[a]) + 1 \in Nat /\ Len(box[a]) + 1 \notin DOMAIN box[a]
         /\ \A i \in DOMAIN box[a] : Sent(box, a, m)[a][i] = box[a][i]
         /\ Sent(box, a, m)[a][Len(box[a]) + 1] = m
  BY DEF Sent, Boxes

\* Where a message was before the one in front of it was taken.
Before(a, f) == IF f[1] = a THEN <<a, f[2] + 1>> ELSE f

LEMMA FoundTaken ==
  ASSUME NEW box \in Boxes, NEW a \in Agents, box[a] # <<>>, NEW kind,
         NEW f \in Found(Taken(box, a), kind)
  PROVE  /\ Before(a, f) \in Found(box, kind)
         /\ Before(a, f) # <<a, 1>>
         /\ Taken(box, a)[f[1]][f[2]] = box[Before(a, f)[1]][Before(a, f)[2]]
<1>1. f \in Agents \X Nat /\ f = <<f[1], f[2]>>
  BY DEF Found
<1>2. CASE f[1] = a
  <2>1. Before(a, f) = <<a, f[2] + 1>>
    BY <1>2 DEF Before
  <2>2. f[2] + 1 \in DOMAIN box[a] /\ f[2] + 1 # 1 /\ Taken(box, a)[a][f[2]] = box[a][f[2] + 1]
    BY <1>2, TakenBox DEF Found
  <2>3. box[a][f[2] + 1] \in kind
    BY <1>2, <2>2 DEF Found
  <2>4. QED
    BY <1>1, <1>2, <2>1, <2>2, <2>3 DEF Found
<1>3. CASE f[1] # a
  <2>1. Before(a, f) = f
    BY <1>3 DEF Before
  <2>2. Taken(box, a)[f[1]] = box[f[1]]
    BY <1>1, <1>3, TakenBox
  <2>3. QED
    BY <1>1, <1>3, <2>1, <2>2 DEF Found
<1>4. QED
  BY <1>2, <1>3

LEMMA BeforeInjective ==
  ASSUME NEW a, NEW f \in Agents \X Nat, NEW g \in Agents \X Nat, Before(a, f) = Before(a, g)
  PROVE  f = g
  BY DEF Before

\* The place of a message that is sent.
Place(box, a) == <<a, Len(box[a]) + 1>>

LEMMA FoundSent ==
  ASSUME NEW box \in Boxes, NEW a \in Agents, NEW m \in Message, NEW kind
  PROVE  /\ Found(Sent(box, a, m), kind)
            = Found(box, kind) \cup (IF m \in kind THEN {Place(box, a)} ELSE {})
         /\ Place(box, a) \notin Found(box, kind)
         /\ Sent(box, a, m)[Place(box, a)[1]][Place(box, a)[2]] = m
         /\ \A f \in Found(box, kind) : Sent(box, a, m)[f[1]][f[2]] = box[f[1]][f[2]]
<1> USE DEF Place
<1>1. ASSUME NEW f
      PROVE  f \in Found(Sent(box, a, m), kind)
             <=> \/ f \in Found(box, kind)
                 \/ m \in kind /\ f = <<a, Len(box[a]) + 1>>
  <2>1. CASE f \in Agents \X Nat /\ f[1] = a
    BY <2>1, SentBox DEF Found
  <2>2. CASE f \in Agents \X Nat /\ f[1] # a
    BY <2>2, SentBox DEF Found
  <2>3. CASE f \notin Agents \X Nat
    BY <2>3, SentBox DEF Found
  <2>4. QED
    BY <2>1, <2>2, <2>3
<1>2. <<a, Len(box[a]) + 1>> \notin Found(box, kind)
  BY SentBox DEF Found
<1>3. \A f \in Found(box, kind) : Sent(box, a, m)[f[1]][f[2]] = box[f[1]][f[2]]
  BY SentBox DEF Found
<1>4. Sent(box, a, m)[a][Len(box[a]) + 1] = m
  BY SentBox
<1>5. QED
  BY <1>1, <1>2, <1>3, <1>4

-----------------------------------------------------------------------------
(* A message taken is one less of its kind, one sent is one more.            *)
LEMMA CountTaken ==
  ASSUME NEW box \in Boxes, NEW a \in Agents, box[a] # <<>>, NEW kind,
         IsFiniteSet(Found(box, kind))
  PROVE  /\ IsFiniteSet(Found(Taken(box, a), kind))
         /\ Cardinality(Found(Taken(box, a), kind)) <= Cardinality(Found(box, kind))
         /\ Head(box[a]) \in kind =>
               Cardinality(Found(Taken(box, a), kind)) + 1 <= Cardinality(Found(box, kind))
<1> DEFINE S == Found(Taken(box, a), kind)
           T == Found(box, kind) \ {<<a, 1>>}
           h == [f \in S |-> Before(a, f)]
<1>1. h \in Injection(S, T)
  <2>1. \A f \in S : Before(a, f) \in T
    BY FoundTaken
  <2>2. \A f, g \in S : Before(a, f) = Before(a, g) => f = g
    BY BeforeInjective DEF Found
  <2> HIDE DEF S, T
  <2>3. h \in [S -> T] /\ \A f, g \in S : h[f] = h[g] => f = g
    BY <2>1, <2>2
  <2>4. QED
    BY <2>3 DEF Injection, IsInjective
<1>2. /\ IsFiniteSet(T) /\ Cardinality(T) \in Nat
      /\ Cardinality(Found(box, kind)) \in Nat
      /\ Cardinality(T) <= Cardinality(Found(box, kind))
      /\ <<a, 1>> \in Found(box, kind) => Cardinality(T) + 1 = Cardinality(Found(box, kind))
  <2> DEFINE all == Found(box, kind)
             first == <<a, 1>>
  <2>1. IsFiniteSet(all)
    OBVIOUS
  <2> HIDE DEF all, first
  <2>2. /\ IsFiniteSet(all \ {first})
        /\ Cardinality(all \ {first})
           = IF first \in all THEN Cardinality(all) - 1 ELSE Cardinality(all)
    BY <2>1, FS_RemoveElement
  <2>3. Cardinality(all) \in Nat /\ Cardinality(all \ {first}) \in Nat
    BY <2>1, <2>2, FS_CardinalityType
  <2>4. QED
    BY <2>2, <2>3 DEF all, first
<1> HIDE DEF S, T, h
<1>3. IsFiniteSet(S) /\ Cardinality(S) <= Cardinality(T) /\ Cardinality(S) \in Nat
  BY <1>1, <1>2, FS_Injection, FS_CardinalityType
<1>4. Head(box[a]) \in kind => <<a, 1>> \in Found(box, kind)
  BY TakenBox DEF Found
<1>5. QED
  BY <1>2, <1>3, <1>4 DEF S

LEMMA CountSent ==
  ASSUME NEW box \in Boxes, NEW a \in Agents, NEW m \in Message, NEW kind,
         IsFiniteSet(Found(box, kind))
  PROVE  /\ IsFiniteSet(Found(Sent(box, a, m), kind))
         /\ Cardinality(Found(Sent(box, a, m), kind))
            = IF m \in kind THEN Cardinality(Found(box, kind)) + 1
              ELSE Cardinality(Found(box, kind))
<1> DEFINE S == Found(box, kind)
           T == Found(Sent(box, a, m), kind)
           new == Place(box, a)
<1>1. T = S \cup (IF m \in kind THEN {new} ELSE {}) /\ new \notin S /\ IsFiniteSet(S)
  BY FoundSent
<1> HIDE DEF S, T, new
<1>2. IsFiniteSet(S \cup {new}) /\ Cardinality(S \cup {new}) = Cardinality(S) + 1
  BY <1>1, FS_AddElement
<1>3. T = IF m \in kind THEN S \cup {new} ELSE S
  BY <1>1
<1>4. QED
  BY <1>1, <1>2, <1>3 DEF S, T

LEMMA CountedTaken ==
  ASSUME NEW box \in Boxes, NEW a \in Agents, box[a] # <<>>,
         NEW open \in [Sids -> Nat], NEW made \in Nat, Counted(box, open, made)
  PROVE  /\ Counted(Taken(box, a), open, made)
         /\ Head(box[a]) \in Dialogue => Within(Taken(box, a), Dialogue, made - 1)
         /\ \A s \in Sids : Head(box[a]) \in Beat(s) =>
               Within(Taken(box, a), Beat(s), open[s] - 1) /\ open[s] > 0
<1>1. ASSUME NEW kind, NEW n \in Nat, Within(box, kind, n)
      PROVE  /\ Within(Taken(box, a), kind, n)
             /\ Head(box[a]) \in kind => Within(Taken(box, a), kind, n - 1) /\ n > 0
  <2>1. IsFiniteSet(Found(box, kind)) /\ Cardinality(Found(box, kind)) <= n
    BY <1>1 DEF Within
  <2>2. IsFiniteSet(Found(Taken(box, a), kind))
    BY <2>1, CountTaken
  <2>3. Cardinality(Found(box, kind)) \in Nat /\ Cardinality(Found(Taken(box, a), kind)) \in Nat
    BY <2>1, <2>2, FS_CardinalityType
  <2>4. QED
    BY <2>1, <2>2, <2>3, CountTaken DEF Within
<1>2. QED
  BY <1>1 DEF Counted

LEMMA CountedSent ==
  ASSUME NEW box \in Boxes, NEW a \in Agents, NEW m \in Message,
         NEW open \in [Sids -> Nat], NEW made \in Nat,
         \A s \in Sids : Within(box, Beat(s), IF m \in Beat(s) THEN open[s] - 1 ELSE open[s]),
         Within(box, Dialogue, IF m \in Dialogue THEN made - 1 ELSE made)
  PROVE  Counted(Sent(box, a, m), open, made)
<1>1. ASSUME NEW kind, NEW n \in Nat, Within(box, kind, IF m \in kind THEN n - 1 ELSE n)
      PROVE  Within(Sent(box, a, m), kind, n)
  <2>1. IsFiniteSet(Found(box, kind)) /\ Cardinality(Found(box, kind)) \in Nat
    BY <1>1, FS_CardinalityType DEF Within
  <2>2. QED
    BY <1>1, <2>1, CountSent DEF Within
<1>2. QED
  BY <1>1 DEF Counted

-----------------------------------------------------------------------------
(* What every step does to the sessions: no id is given twice, an id keeps   *)
(* its owner, and an answer is not taken back.                               *)
Onward ==
    /\ minted' \in Nat /\ minted <= minted'
    /\ answered \subseteq answered'
    /\ \A s \in DOMAIN sessions' :
          s \in 1 .. minted => /\ s \in DOMAIN sessions
                               /\ sessions'[s].owner = sessions[s].owner

LEMMA FitsStays ==
  ASSUME minted \in Nat, Onward, NEW a \in Agents, NEW m, Fits(a, m)
  PROVE  Fits(a, m)'
  BY DEF Onward, Fits, Beats

LEMMA HeldStays ==
  ASSUME minted \in Nat, Onward, NEW box, Held(box), inbox' = box
  PROVE  Held(inbox)'
<1>1. \A a \in Agents : \A n \in DOMAIN box[a] : Fits(a, box[a][n])'
  BY FitsStays DEF Held
<1>2. QED
  BY <1>1 DEF Held

LEMMA TakenHeld ==
  ASSUME Inv, NEW a \in Agents, inbox[a] # <<>>
  PROVE  /\ Held(Taken(inbox, a)) /\ Counted(Taken(inbox, a), owed, minted)
         /\ Head(inbox[a]) \in Message /\ Fits(a, Head(inbox[a]))
         /\ Head(inbox[a]) \in Dialogue => Within(Taken(inbox, a), Dialogue, minted - 1)
         /\ \A s \in Sids : Head(inbox[a]) \in Beat(s) =>
               Within(Taken(inbox, a), Beat(s), owed[s] - 1) /\ owed[s] > 0
<1> DEFINE box == Taken(inbox, a)
<1>1. inbox \in Boxes /\ Held(inbox) /\ Counted(inbox, owed, minted)
      /\ owed \in [Sids -> Nat] /\ minted \in Nat
  BY Bounds DEF Inv, Held
<1>2. box \in Boxes /\ Head(inbox[a]) \in Message /\ Fits(a, Head(inbox[a]))
  BY <1>1, TakenBox DEF Held
<1>3. ASSUME NEW p \in Agents, NEW n \in DOMAIN box[p] PROVE Fits(p, box[p][n])
  <2>1. CASE p = a
    BY <1>1, <1>3, <2>1, TakenBox DEF Held
  <2>2. CASE p # a
    BY <1>1, <1>3, <2>2, TakenBox DEF Held
  <2>3. QED
    BY <2>1, <2>2
<1> HIDE DEF box
<1>4. Held(box)
  BY <1>2, <1>3 DEF Held
<1>5. QED
  BY <1>1, <1>2, <1>4, CountedTaken DEF box

LEMMA SentHeld ==
  ASSUME minted \in Nat, Onward, NEW box, Held(box),
         NEW a \in Agents, NEW m \in Message, Fits(a, m)',
         inbox' = Sent(box, a, m)
  PROVE  Held(inbox)'
<1> DEFINE new == Sent(box, a, m)
<1>1. box \in Boxes /\ new \in Boxes
  BY SentBox DEF Held
<1>2. \A p \in Agents : \A n \in DOMAIN box[p] : Fits(p, box[p][n])'
  BY FitsStays DEF Held
<1>3. ASSUME NEW p \in Agents, NEW n \in DOMAIN new[p] PROVE Fits(p, new[p][n])'
  <2>1. CASE p = a
    BY <1>1, <1>2, <1>3, <2>1, SentBox
  <2>2. CASE p # a
    BY <1>1, <1>2, <1>3, <2>2, SentBox
  <2>3. QED
    BY <2>1, <2>2
<1> HIDE DEF new
<1>4. inbox' = new
  BY DEF new
<1>5. QED
  BY <1>1, <1>3, <1>4 DEF Held

\* A message that is no heartbeat, request or response counts for nothing.
LEMMA SentAside ==
  ASSUME Inv, NEW box, Held(box), Counted(box, owed, minted),
         NEW a \in Agents, NEW m \in Message, m.type \notin Beats \cup {"req", "resp"}
  PROVE  Counted(Sent(box, a, m), owed, minted)
<1>1. m \notin Dialogue /\ (\A s : m \notin Beat(s))
  BY DEF Dialogue, Beat
<1>2. box \in Boxes /\ owed \in [Sids -> Nat] /\ minted \in Nat
  BY Bounds DEF Held, Inv
<1>3. \A s \in Sids : Within(box, Beat(s), owed[s])
  BY DEF Counted
<1>4. Within(box, Dialogue, minted)
  BY DEF Counted
<1>5. QED
  BY <1>1, <1>2, <1>3, <1>4, CountedSent

-----------------------------------------------------------------------------
(* The sessions: opened, ended, refreshed.                                   *)
LEMMA Opened ==
  ASSUME Inv, NEW a \in Agents, NEW peer \in Agents \ {a}, OpenSession(a, peer),
         answered' = answered
  PROVE  /\ minted' = minted + 1 /\ minted' \in 1 .. MaxSessions
         /\ SessionsFit' /\ Onward /\ state' \in [Agents -> State]
<1>1. /\ minted \in Nat /\ minted' = minted + 1 /\ minted' \in 1 .. MaxSessions
      /\ minted + 1 \notin DOMAIN sessions
  BY Bounds DEF Inv, OpenSession, SessionsFit
<1>2. state' \in [Agents -> State]
  BY DEF OpenSession, Inv, State
<1>3. /\ DOMAIN sessions' = DOMAIN sessions \cup {minted + 1}
      /\ sessions'[minted + 1] = [owner |-> a, peer |-> peer, state |-> "connected", age |-> 0]
      /\ \A s \in DOMAIN sessions : sessions'[s] = sessions[s]
  BY <1>1 DEF OpenSession, With
<1>4. [owner |-> a, peer |-> peer, state |-> "connected", age |-> 0] \in Session
  BY Bounds DEF Session
<1>5. SessionsFit'
  BY <1>1, <1>3, <1>4 DEF SessionsFit, Inv
<1>6. Onward
  BY <1>1, <1>3 DEF Onward
<1>7. QED
  BY <1>1, <1>2, <1>5, <1>6

\* Sessions that are ended: the others stay what they are.
LEMMA Ended ==
  ASSUME Inv, NEW S, sessions' = Without(S), minted' = minted, answered' = answered
  PROVE  SessionsFit' /\ Onward
<1>1. /\ DOMAIN sessions' = DOMAIN sessions \ S
      /\ \A s \in DOMAIN sessions' : sessions'[s] = sessions[s]
  BY DEF Without
<1>2. QED
  BY <1>1 DEF Inv, SessionsFit, Onward

\* Sessions that are touched keep their owner and their peer.
Touched ==
    /\ DOMAIN sessions' = DOMAIN sessions
    /\ \A s \in DOMAIN sessions :
          /\ sessions'[s] \in Session
          /\ sessions'[s].owner = sessions[s].owner
          /\ sessions'[s].peer = sessions[s].peer

LEMMA TouchedFit ==
  ASSUME Inv, Touched, minted' = minted, answered \subseteq answered'
  PROVE  SessionsFit' /\ Onward
  BY DEF Inv, SessionsFit, Onward, Touched

LEMMA Refreshed ==
  ASSUME Inv, NEW a \in Agents, NEW sid, Refresh(a, sid)
  PROVE  Touched
<1>1. CASE sid \in Own(a)
  <2>1. sid \in DOMAIN sessions /\ sessions' = [sessions EXCEPT ![sid].age = 0]
    BY <1>1 DEF Refresh, Own
  <2>2. 0 \in 0 .. MaxMissed + 1
    BY Bounds
  <2>3. QED
    BY <2>1, <2>2 DEF Inv, SessionsFit, Session, Touched
<1>2. CASE sid \notin Own(a)
  BY <1>2 DEF Refresh, Inv, SessionsFit, Touched
<1>3. QED
  BY <1>1, <1>2

LEMMA Kept ==
  ASSUME Inv, sessions' = sessions, minted' = minted, answered \subseteq answered'
  PROVE  SessionsFit' /\ Onward
  BY DEF Inv, SessionsFit, Onward

-----------------------------------------------------------------------------
(* One lemma for each action.                                                *)
LEMMA StartInv == ASSUME Inv, NEW a \in Agents, Start(a) PROVE Inv'
<1>1. SessionsFit' /\ Onward
  BY Kept DEF Start
<1>2. Held(inbox)'
  BY <1>1, HeldStays DEF Start, Inv
<1>3. QED
  BY <1>1, <1>2, Bounds DEF Start, Inv, State

LEMMA FarewellsAre ==
  ASSUME Inv, NEW a \in Agents, NEW p \in Agents, NEW bye \in Farewells(a, p)
  PROVE  /\ bye \in Seq(Message)
         /\ \A n \in DOMAIN bye : Fits(p, bye[n]) /\ bye[n].type = "disconnect"
<1> DEFINE mine == {s \in Own(a) : sessions[s].peer = p}
           named(s) == Msg("disconnect", a, IF a \in Python THEN s ELSE None, None)
<1>1. bye \in [1 .. Cardinality(mine) -> {named(s) : s \in mine}]
  BY DEF Farewells
<1>2. Cardinality(mine) \in Nat
  <2>1. IsFiniteSet(1 .. minted) /\ mine \subseteq 1 .. minted
    BY FS_Interval DEF Inv, SessionsFit, Own
  <2>2. QED
    BY <2>1, FS_Subset, FS_CardinalityType
<1>3. ASSUME NEW s \in mine
      PROVE  named(s) \in Message /\ Fits(p, named(s)) /\ named(s).type = "disconnect"
  <2>1. s \in 1 .. minted /\ s \in Sids /\ a # p
    BY Bounds DEF Inv, SessionsFit, Own, Sids
  <2>2. named(s) \in Message
    BY <2>1 DEF Msg, Message
  <2>3. Fits(p, named(s)) /\ named(s).type = "disconnect"
    BY <2>1 DEF Msg, Fits, Beats
  <2>4. QED
    BY <2>2, <2>3
<1> HIDE DEF mine, named
<1>4. QED
  BY <1>1, <1>2, <1>3

LEMMA StopInv == ASSUME Inv, NEW a \in Agents, Stop(a) PROVE Inv'
<1>1. PICK bye \in [Agents -> UNION {Farewells(a, p) : p \in Agents}] :
        /\ \A p \in Agents : bye[p] \in Farewells(a, p)
        /\ inbox' = [p \in Agents |-> inbox[p] \o bye[p]]
  BY DEF Stop
<1>2. SessionsFit' /\ Onward
  BY Ended DEF Stop
<1>3. \A p \in Agents : /\ bye[p] \in Seq(Message) /\ inbox[p] \in Seq(Message)
                        /\ \A n \in DOMAIN bye[p] :
                              Fits(p, bye[p][n]) /\ bye[p][n].type = "disconnect"
  BY <1>1, FarewellsAre DEF Inv, Held, Boxes
<1>4. ASSUME NEW p \in Agents
      PROVE  /\ inbox'[p] \in Seq(Message)
             /\ DOMAIN inbox[p] \subseteq DOMAIN inbox'[p]
             /\ \A n \in DOMAIN inbox[p] : inbox'[p][n] = inbox[p][n]
             /\ \A n \in DOMAIN inbox'[p] \ DOMAIN inbox[p] :
                   \E k \in DOMAIN bye[p] : inbox'[p][n] = bye[p][k]
  <2>1. inbox'[p] = inbox[p] \o bye[p] /\ inbox[p] \in Seq(Message) /\ bye[p] \in Seq(Message)
    BY <1>1, <1>3
  <2>2. \A n \in DOMAIN inbox'[p] \ DOMAIN inbox[p] :
           n - Len(inbox[p]) \in DOMAIN bye[p] /\ inbox'[p][n] = bye[p][n - Len(inbox[p])]
    BY <2>1
  <2>3. QED
    BY <2>1, <2>2
<1>5. inbox' \in Boxes
  BY <1>1, <1>4 DEF Boxes
<1>6. ASSUME NEW kind, \A m \in kind : m.type # "disconnect"
      PROVE  Found(inbox', kind) = Found(inbox, kind)
  <2>1. \A p \in Agents : \A n \in DOMAIN inbox'[p] \ DOMAIN inbox[p] :
           inbox'[p][n] \notin kind
    <3>1. ASSUME NEW p \in Agents, NEW n \in DOMAIN inbox'[p] \ DOMAIN inbox[p]
          PROVE  inbox'[p][n].type = "disconnect"
      <4>1. PICK k \in DOMAIN bye[p] : inbox'[p][n] = bye[p][k]
        BY <1>4
      <4>2. QED
        BY <1>3, <4>1
    <3>2. QED
      BY <1>6, <3>1
  <2>2. QED
    BY <1>4, <2>1 DEF Found
<1>7. Counted(inbox, owed, minted)'
  <2>1. \A s : Found(inbox', Beat(s)) = Found(inbox, Beat(s))
    BY <1>6 DEF Beat, Beats
  <2>2. Found(inbox', Dialogue) = Found(inbox, Dialogue)
    BY <1>6 DEF Dialogue
  <2>3. Counted(inbox, owed, minted) /\ owed' = owed /\ minted' = minted
    BY DEF Inv, Stop
  <2>4. QED
    BY <2>1, <2>2, <2>3 DEF Counted, Within
<1>8. ASSUME NEW p \in Agents, NEW n \in DOMAIN inbox'[p], NEW m, m = inbox'[p][n]
      PROVE  Fits(p, m)'
  <2>1. CASE n \in DOMAIN inbox[p]
    <3>1. m = inbox[p][n]
      BY <1>4, <1>8, <2>1
    <3>2. QED
      BY <1>2, <2>1, <3>1, FitsStays DEF Inv, Held
  <2>2. CASE n \notin DOMAIN inbox[p]
    <3>1. PICK k \in DOMAIN bye[p] : m = bye[p][k]
      BY <1>4, <1>8, <2>2
    <3>2. Fits(p, m)
      BY <1>3, <3>1
    <3>3. QED
      BY <1>2, <3>2, FitsStays DEF Inv
  <2>3. QED
    BY <2>1, <2>2
<1>9. Held(inbox)'
  <2>1. (\A p \in Agents : \A n \in DOMAIN inbox[p] : Fits(p, inbox[p][n]))'
    BY <1>8
  <2>2. QED
    BY <1>5, <2>1 DEF Held
<1>10. QED
  BY <1>2, <1>7, <1>9 DEF Inv, Stop, State

LEMMA CrashInv == ASSUME Inv, NEW a \in Agents, Crash(a) PROVE Inv'
<1>1. SessionsFit' /\ Onward
  BY Ended DEF Crash
<1> DEFINE Good == Held(inbox)' /\ Counted(inbox', owed, minted)
<1>2. ASSUME UNCHANGED inbox PROVE Good
  BY <1>1, <1>2, HeldStays DEF Inv
<1>3. ASSUME inbox[a] # <<>>, inbox' = [inbox EXCEPT ![a] = Tail(@)]
      PROVE  Good
  <2>1. Held(Taken(inbox, a)) /\ Counted(Taken(inbox, a), owed, minted)
    BY <1>3, TakenHeld
  <2>2. inbox' = Taken(inbox, a)
    BY <1>3 DEF Taken
  <2>3. QED
    BY <1>1, <2>1, <2>2, HeldStays DEF Inv
<1>4. ASSUME NEW p \in Agents \ {a}, Send(p, Msg("torn", a, None, None))
      PROVE  Good
  <2> DEFINE m == Msg("torn", a, None, None)
  <2>1. m \in Message /\ Fits(p, m)' /\ m.type \notin Beats \cup {"req", "resp"}
    BY DEF Msg, Message, Fits, Beats
  <2>2. inbox' = Sent(inbox, p, m)
    BY <1>4 DEF Send, Sent
  <2> HIDE DEF m
  <2>3. Held(inbox)'
    BY <1>1, <2>1, <2>2, SentHeld DEF Inv
  <2>4. Counted(inbox', owed, minted)
    BY <2>1, <2>2, SentAside DEF Inv
  <2>5. QED
    BY <2>3, <2>4
<1>5. Good
  BY <1>2, <1>3, <1>4 DEF Crash
<1>6. QED
  BY <1>1, <1>5 DEF Crash, Inv, State

LEMMA StartHandshakeInv ==
  ASSUME Inv, NEW a \in Agents, NEW peer \in Agents \ {a}, NEW offer \in Offers,
         StartHandshake(a, peer, offer)
  PROVE  Inv'
<1> DEFINE m == Msg("req", a, None, offer)
<1>1. /\ minted' = minted + 1 /\ minted' \in 1 .. MaxSessions /\ minted \in Nat
      /\ SessionsFit' /\ Onward /\ state' \in [Agents -> State]
  BY Opened DEF StartHandshake, Inv
<1>2. m \in Message /\ Fits(peer, m)' /\ m \in Dialogue /\ \A s : m \notin Beat(s)
  BY DEF Msg, Message, Fits, Beats, Beat, Dialogue
<1>3. inbox' = Sent(inbox, peer, m) /\ inbox \in Boxes
  BY DEF StartHandshake, Send, Sent, Inv, Held
<1> HIDE DEF m
<1>4. Held(inbox)'
  BY <1>1, <1>2, <1>3, SentHeld DEF Inv
<1>5. Counted(inbox', owed, minted')
  <2>1. (\A s \in Sids : Within(inbox, Beat(s), owed[s])) /\ Within(inbox, Dialogue, minted)
    BY DEF Inv, Counted
  <2>2. owed \in [Sids -> Nat] /\ minted' \in Nat /\ minted = minted' - 1
    BY <1>1, Bounds DEF Inv
  <2>3. QED
    BY <1>2, <1>3, <2>1, <2>2, CountedSent
<1>6. QED
  BY <1>1, <1>4, <1>5 DEF Inv, StartHandshake

LEMMA SendHeartbeatInv ==
  ASSUME Inv, NEW a \in Agents, NEW s \in DOMAIN sessions, SendHeartbeat(a, s)
  PROVE  Inv'
<1> DEFINE m == Msg("ping", a, s, None)
<1> PICK p : p = sessions[s].peer
  OBVIOUS
<1>1. SessionsFit' /\ Onward
  BY Kept DEF SendHeartbeat
<1>2. p \in Agents \ {a} /\ s \in 1 .. minted /\ s \in Sids /\ sessions[s].owner = a
  BY Bounds DEF SendHeartbeat, Own, Inv, SessionsFit, Session, Sids
<1>3. /\ m \in Message /\ Fits(p, m)' /\ m \notin Dialogue
      /\ \A t : m \in Beat(t) <=> t = s
  BY <1>2 DEF Msg, Message, Fits, Beats, Beat, Dialogue, SendHeartbeat
<1>4. inbox' = Sent(inbox, p, m) /\ inbox \in Boxes
  BY DEF SendHeartbeat, Send, Sent, Inv, Held
<1> HIDE DEF m
<1>5. Held(inbox)'
  BY <1>1, <1>2, <1>3, <1>4, SentHeld DEF Inv
<1>6. /\ owed' \in [Sids -> 0 .. MaxPings] /\ owed' \in [Sids -> Nat]
      /\ owed[s] = owed'[s] - 1 /\ \A t \in Sids \ {s} : owed'[t] = owed[t]
  BY <1>2, Bounds DEF Inv, SendHeartbeat
<1>7. Counted(inbox', owed', minted)
  <2>1. (\A t \in Sids : Within(inbox, Beat(t), owed[t])) /\ Within(inbox, Dialogue, minted)
        /\ minted \in Nat
    BY DEF Inv, Counted
  <2>2. \A t \in Sids : Within(inbox, Beat(t), IF m \in Beat(t) THEN owed'[t] - 1 ELSE owed'[t])
    BY <1>3, <1>6, <2>1
  <2>3. QED
    BY <1>2, <1>3, <1>4, <1>6, <2>1, <2>2, CountedSent
<1>8. QED
  BY <1>1, <1>5, <1>6, <1>7 DEF Inv, SendHeartbeat

LEMMA SendDataInv ==
  ASSUME Inv, NEW a \in Agents, NEW s \in DOMAIN sessions, SendData(a, s)
  PROVE  Inv'
<1> DEFINE m == Msg("data", a, s, None)
<1> PICK p : p = sessions[s].peer
  OBVIOUS
<1>1. SessionsFit' /\ Onward
  BY Kept DEF SendData
<1>2. p \in Agents \ {a} /\ s \in 1 .. minted /\ s \in Sids
  BY Bounds DEF SendData, Own, Inv, SessionsFit, Session, Sids
<1>3. m \in Message /\ Fits(p, m)' /\ m.type \notin Beats \cup {"req", "resp"}
  BY <1>2 DEF Msg, Message, Fits, Beats, SendData
<1>4. inbox' = Sent(inbox, p, m)
  BY DEF SendData, Send, Sent
<1> HIDE DEF m
<1>5. Held(inbox)'
  BY <1>1, <1>2, <1>3, <1>4, SentHeld DEF Inv
<1>6. Counted(inbox', owed, minted)
  BY <1>2, <1>3, <1>4, SentAside DEF Inv
<1>7. QED
  BY <1>1, <1>5, <1>6 DEF Inv, SendData

\* An answer goes out behind what the inbox of its reader holds.
LEMMA AnswerIs ==
  ASSUME Held(inbox), NEW a \in Agents, inbox[a] # <<>>, NEW m, Answer(a, m),
         Head(inbox[a]).from \in Agents \ {a}
  PROVE  inbox' = Sent(Taken(inbox, a), Head(inbox[a]).from, m)
  BY DEF Answer, Sent, Taken, Held, Boxes

LEMMA HandleReqInv == ASSUME Inv, NEW a \in Agents, HandleReq(a) PROVE Inv'
<1> DEFINE box == Taken(inbox, a)
<1> PICK req : req = Head(inbox[a])
  OBVIOUS
<1>1. inbox[a] # <<>> /\ req.type = "req"
  BY DEF HandleReq, Receive
<1>2. /\ Held(box) /\ req.from \in Agents \ {a}
      /\ \A s \in Sids : Within(box, Beat(s), owed[s])
      /\ Within(box, Dialogue, minted - 1)
  BY <1>1, TakenHeld DEF Fits, Dialogue, Counted
<1> box \in Boxes /\ owed \in [Sids -> Nat] /\ minted \in Nat
  BY <1>2, Bounds DEF Held, Inv
<1>3. CASE OpenSession(a, req.from)
           /\ Answer(a, Msg("resp", a, IF a \in Python THEN minted + 1 ELSE None, minted + 1))
  <2> PICK m : m = Msg("resp", a, IF a \in Python THEN minted + 1 ELSE None, minted + 1)
    OBVIOUS
  <2>1. /\ minted' = minted + 1 /\ minted' \in 1 .. MaxSessions /\ minted \in Nat
        /\ SessionsFit' /\ Onward /\ state' \in [Agents -> State]
    BY <1>2, <1>3, Opened DEF HandleReq, Inv
  <2>2. m \in Message /\ Fits(req.from, m)' /\ m \in Dialogue /\ \A s : m \notin Beat(s)
    <3>1. minted + 1 \in Sids /\ minted + 1 \in 1 .. minted'
      BY <2>1, Bounds DEF Sids
    <3>2. PICK sid \in {minted + 1, None} : m = Msg("resp", a, sid, minted + 1)
      OBVIOUS
    <3>3. m \in Message /\ m.from = a /\ m.type = "resp" /\ m.sid = sid
      BY <3>1, <3>2 DEF Msg, Message
    <3>4. Fits(req.from, m)' /\ m \in Dialogue /\ \A s : m \notin Beat(s)
      BY <1>2, <3>1, <3>2, <3>3 DEF Fits, Beats, Beat, Dialogue
    <3>5. QED
      BY <3>3, <3>4
  <2>3. inbox' = Sent(box, req.from, m)
    BY <1>1, <1>2, <1>3, AnswerIs DEF Inv
  <2> HIDE DEF box
  <2>4. Held(inbox)'
    BY <1>2, <2>1, <2>2, <2>3, SentHeld
  <2>5. Counted(inbox', owed, minted')
    <3>1. Within(box, Dialogue, minted' - 1) /\ minted' \in Nat
      BY <1>2, <2>1, FS_CardinalityType DEF Within
    <3>2. QED
      BY <1>2, <2>2, <2>3, <3>1, CountedSent
  <2>6. QED
    BY <2>1, <2>4, <2>5 DEF Inv, HandleReq, Receive
<1>4. CASE Answer(a, Msg("resp", a, None, None)) /\ UNCHANGED <<state, sessions, minted>>
  <2> DEFINE m == Msg("resp", a, None, None)
  <2>1. SessionsFit' /\ Onward
    BY <1>4, Kept DEF HandleReq
  <2>2. m \in Message /\ Fits(req.from, m)' /\ m \in Dialogue /\ \A s : m \notin Beat(s)
    BY <1>2 DEF Msg, Message, Fits, Beats, Beat, Dialogue
  <2>3. inbox' = Sent(box, req.from, m)
    BY <1>1, <1>2, <1>4, AnswerIs DEF Inv
  <2> HIDE DEF m, box
  <2>4. Held(inbox)'
    BY <1>2, <1>4, <2>1, <2>2, <2>3, SentHeld DEF Inv
  <2>5. Counted(inbox', owed, minted)
    BY <1>2, <2>2, <2>3, CountedSent
  <2>6. QED
    BY <1>4, <2>1, <2>4, <2>5 DEF Inv, HandleReq, Receive
<1>5. QED
  BY <1>3, <1>4 DEF HandleReq

LEMMA HandlePingInv == ASSUME Inv, NEW a \in Agents, HandlePing(a) PROVE Inv'
<1> DEFINE box == Taken(inbox, a)
<1> PICK ping : ping = Head(inbox[a])
  OBVIOUS
<1> DEFINE m == Msg("pong", a, ping.sid, None)
<1>1. inbox[a] # <<>> /\ ping.type = "ping"
  BY DEF HandlePing, Receive
<1>2. /\ Held(box) /\ ping.from \in Agents \ {a} /\ ping.sid \in 1 .. minted
      /\ Counted(box, owed, minted) /\ ping \in Message
  BY <1>1, TakenHeld DEF Fits, Beats
<1>3. Refresh(a, ping.sid) /\ minted' = minted /\ answered' = answered \cup {ping.sid}
  BY DEF HandlePing
<1>4. SessionsFit' /\ Onward
  BY <1>3, Refreshed, TouchedFit
<1>5. /\ m \in Message /\ Fits(ping.from, m)' /\ m \notin Dialogue /\ ping.sid \in Sids
      /\ \A s : m \in Beat(s) <=> s = ping.sid
  BY <1>2, <1>3, Bounds DEF Msg, Message, Fits, Beats, Beat, Dialogue, Sids, Inv
<1>6. inbox' = Sent(box, ping.from, m)
  BY <1>1, <1>2, AnswerIs DEF Inv, HandlePing
<1>7. Within(box, Beat(ping.sid), owed[ping.sid] - 1)
  BY <1>1, <1>2, <1>5, TakenHeld DEF Beat, Beats
<1> HIDE DEF m, box
<1>8. Held(inbox)'
  BY <1>2, <1>4, <1>5, <1>6, SentHeld DEF Inv
<1>9. Counted(inbox', owed, minted)
  <2>1. \A s \in Sids : Within(box, Beat(s), IF m \in Beat(s) THEN owed[s] - 1 ELSE owed[s])
    BY <1>2, <1>5, <1>7 DEF Counted
  <2>2. box \in Boxes /\ owed \in [Sids -> Nat] /\ minted \in Nat /\ Within(box, Dialogue, minted)
    BY <1>2, Bounds DEF Held, Inv, Counted
  <2>3. QED
    BY <1>2, <1>5, <1>6, <2>1, <2>2, CountedSent
<1>10. QED
  BY <1>4, <1>8, <1>9 DEF Inv, HandlePing, Receive

\* A message that is taken and not answered.
LEMMA ConsumeHeld ==
  ASSUME Inv, NEW a \in Agents, inbox[a] # <<>>, Consume(a), Onward
  PROVE  Held(inbox)' /\ Counted(inbox', owed, minted)
<1>1. Held(Taken(inbox, a)) /\ Counted(Taken(inbox, a), owed, minted)
  BY TakenHeld
<1>2. inbox' = Taken(inbox, a)
  BY DEF Consume, Taken
<1>3. QED
  BY <1>1, <1>2, HeldStays DEF Inv

LEMMA HandleRespTouches ==
  ASSUME Inv, NEW a \in Agents, HandleResp(a)
  PROVE  Touched /\ \A s \in DOMAIN sessions : sessions'[s].age = sessions[s].age
<1>1. CASE UNCHANGED sessions
  BY <1>1 DEF Inv, SessionsFit, Touched
<1>2. ASSUME NEW sid \in DOMAIN sessions, sessions' = [sessions EXCEPT ![sid].state = "active"]
      PROVE  Touched /\ \A s \in DOMAIN sessions : sessions'[s].age = sessions[s].age
  BY <1>2 DEF Inv, SessionsFit, Session, Touched
<1>3. QED
  BY <1>1, <1>2 DEF HandleResp, Own

LEMMA HandleRespInv == ASSUME Inv, NEW a \in Agents, HandleResp(a) PROVE Inv'
<1>1. SessionsFit' /\ Onward
  BY HandleRespTouches, TouchedFit DEF HandleResp
<1>2. Held(inbox)' /\ Counted(inbox', owed, minted)
  BY <1>1, ConsumeHeld DEF HandleResp, Receive
<1>3. state' \in [Agents -> State]
  BY DEF HandleResp, Inv, State
<1>4. QED
  BY <1>1, <1>2, <1>3 DEF HandleResp, Receive, Inv

\* A pong that is read is one ping that is no longer open.
LEMMA HandlePongInv == ASSUME Inv, NEW a \in Agents, HandlePong(a) PROVE Inv'
<1> PICK pong : pong = Head(inbox[a])
  OBVIOUS
<1>1. inbox[a] # <<>> /\ pong.type = "pong" /\ Refresh(a, pong.sid) /\ Consume(a)
  BY DEF HandlePong, Receive
<1>2. SessionsFit' /\ Onward
  BY <1>1, Refreshed, TouchedFit DEF HandlePong
<1>3. Held(inbox)' /\ Counted(inbox', owed, minted)
  BY <1>1, <1>2, ConsumeHeld
<1>4. pong.sid \in Sids /\ pong \in Beat(pong.sid)
  BY <1>1, TakenHeld, Bounds DEF Fits, Beats, Beat, Sids, Inv
<1>5. Within(inbox', Beat(pong.sid), owed[pong.sid] - 1) /\ owed[pong.sid] > 0
  <2>1. inbox' = Taken(inbox, a)
    BY <1>1 DEF Consume, Taken
  <2>2. QED
    BY <1>1, <1>4, <2>1, TakenHeld
<1>6. /\ owed' \in [Sids -> 0 .. MaxPings] /\ owed'[pong.sid] = owed[pong.sid] - 1
      /\ \A s \in Sids \ {pong.sid} : owed'[s] = owed[s]
  <2>1. owed \in [Sids -> 0 .. MaxPings] /\ owed' = [owed EXCEPT ![pong.sid] = @ - 1]
    BY DEF Inv, HandlePong
  <2>2. owed[pong.sid] - 1 \in 0 .. MaxPings
    BY <1>4, <1>5, <2>1, Bounds
  <2>3. QED
    BY <1>4, <2>1, <2>2
<1>7. Counted(inbox', owed', minted)
  BY <1>3, <1>5, <1>6 DEF Counted
<1>8. QED
  BY <1>2, <1>3, <1>6, <1>7 DEF HandlePong, Receive, Inv

LEMMA HandleOtherInv ==
  ASSUME Inv, NEW a \in Agents, HandleDisconnect(a) \/ HandleData(a)
  PROVE  Inv'
<1>1. SessionsFit' /\ Onward
  <2>1. CASE HandleDisconnect(a)
    BY <2>1, Ended DEF HandleDisconnect
  <2>2. CASE HandleData(a)
    BY <2>2, Kept DEF HandleData
  <2>3. QED
    BY <2>1, <2>2
<1>2. Held(inbox)' /\ Counted(inbox', owed, minted)
  BY <1>1, ConsumeHeld DEF HandleDisconnect, HandleData, Receive
<1>3. QED
  BY <1>1, <1>2 DEF HandleDisconnect, HandleData, Receive, Inv

LEMMA CleanExpiredInv == ASSUME Inv, NEW a \in Agents, CleanExpired(a) PROVE Inv'
<1>1. SessionsFit' /\ Onward
  BY Ended DEF CleanExpired
<1>2. Held(inbox)'
  BY <1>1, HeldStays DEF CleanExpired, Inv
<1>3. QED
  BY <1>1, <1>2 DEF CleanExpired, Inv

LEMMA TickTouches ==
  ASSUME Inv, Tick
  PROVE  Touched /\ \A s \in DOMAIN sessions : sessions'[s].age >= sessions[s].age
<1>1. ASSUME NEW s \in DOMAIN sessions
      PROVE  /\ sessions'[s] \in Session
             /\ sessions'[s].owner = sessions[s].owner
             /\ sessions'[s].peer = sessions[s].peer
             /\ sessions'[s].age >= sessions[s].age
  <2>1. sessions[s] \in Session /\ sessions[s].age \in 0 .. MaxMissed + 1
    BY DEF Inv, SessionsFit, Session
  <2>2. sessions'[s] = [sessions[s] EXCEPT !.age = IF @ > MaxMissed THEN @ ELSE @ + 1]
    BY DEF Tick
  <2>3. QED
    BY <2>1, <2>2, Bounds DEF Session
<1>2. QED
  BY <1>1 DEF Touched, Tick

LEMMA TickInv == ASSUME Inv, Tick PROVE Inv'
<1>1. SessionsFit' /\ Onward
  BY TickTouches, TouchedFit DEF Tick
<1>2. Held(inbox)'
  BY <1>1, HeldStays DEF Tick, Inv
<1>3. QED
  BY <1>1, <1>2 DEF Tick, Inv

-----------------------------------------------------------------------------
LEMMA InitInv == Init => Inv
<1> SUFFICES ASSUME Init PROVE Inv
  OBVIOUS
<1>1. inbox \in Boxes /\ \A a \in Agents : DOMAIN inbox[a] = {}
  BY DEF Init, Boxes
<1>2. \A kind : Found(inbox, kind) = {}
  BY <1>1 DEF Found
<1>3. Held(inbox)
  BY <1>1 DEF Held
<1>4. Counted(inbox, owed, minted)
  <2>1. \A kind : Within(inbox, kind, 0)
    BY <1>2, FS_EmptySet DEF Within
  <2>2. minted = 0 /\ \A s \in Sids : owed[s] = 0
    BY DEF Init
  <2>3. QED
    BY <2>1, <2>2 DEF Counted
<1>5. QED
  BY <1>3, <1>4, Bounds DEF Init, Inv, State, SessionsFit

LEMMA StepInv == Inv /\ [Next]_vars => Inv'
<1> SUFFICES ASSUME Inv, [Next]_vars PROVE Inv'
  OBVIOUS
<1>1. CASE UNCHANGED vars
  <2>1. SessionsFit' /\ Onward
    BY <1>1, Kept DEF vars
  <2>2. QED
    BY <1>1, <2>1, HeldStays DEF vars, Inv
<1>2. ASSUME NEW a \in Agents, Start(a) \/ Stop(a) \/ Crash(a) PROVE Inv'
  BY <1>2, StartInv, StopInv, CrashInv
<1>3. ASSUME NEW a \in Agents, NEW peer \in Agents \ {a}, NEW offer \in Offers,
             StartHandshake(a, peer, offer)
      PROVE  Inv'
  BY <1>3, StartHandshakeInv
<1>4. ASSUME NEW a \in Agents, NEW s \in DOMAIN sessions,
             SendHeartbeat(a, s) \/ SendData(a, s)
      PROVE  Inv'
  BY <1>4, SendHeartbeatInv, SendDataInv
<1>5. ASSUME NEW a \in Agents, Pump(a) PROVE Inv'
  BY <1>5, HandleReqInv, HandleRespInv, HandlePingInv, HandlePongInv, HandleOtherInv DEF Pump
<1>6. ASSUME NEW a \in Agents, CleanExpired(a) PROVE Inv'
  BY <1>6, CleanExpiredInv
<1>7. CASE Tick
  BY <1>7, TickInv
<1>8. QED
  BY <1>1, <1>2, <1>3, <1>4, <1>5, <1>6, <1>7 DEF Next

LEMMA Invariance == Spec => []Inv
  BY InitInv, StepInv, PTL DEF Spec

\* Sessions, inboxes and what they hold keep their types; no agent has a message
\* of its own in its inbox and no message names a session that was never made
\* (protocol.rs, transport/file.rs).
THEOREM TypeCorrect == Spec => []TypeOK
<1>1. Inv => TypeOK
  BY Bounds DEF Inv, SessionsFit, Held, Fits, TypeOK, Sids
<1>2. QED
  BY <1>1, Invariance, PTL

\* However many agents greet each other and however often they ping, no more
\* heartbeat messages of a session are on their way than its pings that are not
\* yet answered, and requests and responses are never more than the sessions
\* made (handle_message answers a message by one at most, and a response or a
\* pong by none).
THEOREM NeverAStorm == Spec => []NoReplyStorm
<1>1. Inv => NoReplyStorm
  <2> SUFFICES ASSUME Inv PROVE NoReplyStorm
    OBVIOUS
  <2>1. /\ InFlight({"req", "resp"}) = Found(inbox, Dialogue)
        /\ \A s : {f \in InFlight({"ping", "pong"}) : inbox[f[1]][f[2]].sid = s}
                  = Found(inbox, Beat(s))
    BY FoundInFlight DEF Inv, Held, Beats
  <2>2. QED
    BY <2>1 DEF Inv, Counted, Within, NoReplyStorm
<1>2. QED
  BY <1>1, Invariance, PTL

-----------------------------------------------------------------------------
\* What RefreshMeansPeerAnswered says of a step.
Deserved ==
    \A s \in DOMAIN sessions \cap DOMAIN sessions' :
       sessions'[s].age < sessions[s].age => s \in answered

\* A ping names a session of its sender, which is not the one who handles it;
\* a pong names a session whose ping was handled.
LEMMA StepDeserved == Inv /\ [Next]_vars => Deserved
<1> SUFFICES ASSUME Inv, [Next]_vars PROVE Deserved
  OBVIOUS
<1> USE Bounds
<1>1. \A s \in DOMAIN sessions : sessions[s].age \in 0 .. MaxMissed + 1
  BY DEF Inv, SessionsFit, Session
<1>2. ASSUME UNCHANGED sessions PROVE Deserved
  BY <1>1, <1>2 DEF Deserved
<1>3. ASSUME NEW S, sessions' = Without(S) PROVE Deserved
  BY <1>1, <1>3 DEF Deserved, Without
<1>4. ASSUME NEW a \in Agents, NEW peer, OpenSession(a, peer) PROVE Deserved
  <2>1. minted + 1 \notin DOMAIN sessions
    BY DEF Inv, SessionsFit
  <2>2. \A s \in DOMAIN sessions : sessions'[s] = sessions[s]
    BY <1>4, <2>1 DEF OpenSession, With
  <2>3. QED
    BY <1>1, <2>2 DEF Deserved
<1>5. ASSUME NEW a \in Agents, HandleReq(a) PROVE Deserved
  BY <1>2, <1>4, <1>5 DEF HandleReq
<1>6. ASSUME NEW a \in Agents, HandleResp(a) PROVE Deserved
  BY <1>1, <1>6, HandleRespTouches DEF Deserved
<1>7. ASSUME NEW a \in Agents, HandlePing(a) PROVE Deserved
  <2>1. inbox[a] # <<>> /\ Head(inbox[a]).type = "ping" /\ Refresh(a, Head(inbox[a]).sid)
    BY <1>7 DEF HandlePing, Receive
  <2>2. Fits(a, Head(inbox[a]))
    BY <2>1, TakenHeld DEF Inv
  <2>3. Head(inbox[a]).sid \notin Own(a)
    BY <2>1, <2>2 DEF Fits, Own
  <2>4. QED
    BY <1>2, <2>1, <2>3 DEF Refresh
<1>8. ASSUME NEW a \in Agents, HandlePong(a) PROVE Deserved
  <2>1. inbox[a] # <<>> /\ Head(inbox[a]).type = "pong" /\ Refresh(a, Head(inbox[a]).sid)
    BY <1>8 DEF HandlePong, Receive
  <2>2. Head(inbox[a]).sid \in answered
    BY <2>1, TakenHeld DEF Inv, Fits
  <2>3. \A s \in DOMAIN sessions : s # Head(inbox[a]).sid => sessions'[s] = sessions[s]
    BY <2>1 DEF Refresh
  <2>4. QED
    BY <1>1, <2>2, <2>3 DEF Deserved
<1>9. CASE Tick
  BY <1>1, <1>9, TickTouches DEF Deserved, Touched, Session
<1>10. CASE UNCHANGED vars
  BY <1>2, <1>10 DEF vars
<1>11. ASSUME NEW a \in Agents, HandleDisconnect(a) \/ HandleData(a) PROVE Deserved
  BY <1>2, <1>3, <1>11 DEF HandleDisconnect, HandleData
<1>12. ASSUME NEW a \in Agents, Pump(a) PROVE Deserved
  BY <1>5, <1>6, <1>7, <1>8, <1>11, <1>12 DEF Pump
<1>13. ASSUME NEW a \in Agents, Start(a) \/ Stop(a) \/ Crash(a) \/ CleanExpired(a)
       PROVE  Deserved
  BY <1>2, <1>3, <1>13 DEF Start, Stop, Crash, CleanExpired
<1>14. ASSUME NEW a \in Agents, NEW peer, NEW offer, StartHandshake(a, peer, offer)
       PROVE  Deserved
  BY <1>4, <1>14 DEF StartHandshake
<1>15. ASSUME NEW a \in Agents, NEW s, SendHeartbeat(a, s) \/ SendData(a, s) PROVE Deserved
  BY <1>2, <1>15 DEF SendHeartbeat, SendData
<1>16. QED
  BY <1>9, <1>10, <1>12, <1>13, <1>14, <1>15 DEF Next

\* A session is only refreshed after its peer has handled a ping that names it,
\* so a late message of another session never keeps a dead peer's session alive
\* (handle_ping, handle_pong, Session::heartbeat).
THEOREM RefreshDeserved == Spec => RefreshMeansPeerAnswered
<1>1. Inv /\ [Next]_vars => [Deserved]_vars
  BY StepDeserved
<1>2. Spec => [][Deserved]_vars
  BY <1>1, Invariance, PTL DEF Spec
<1>3. QED
  BY <1>2 DEF RefreshMeansPeerAnswered, Deserved
=============================================================================
