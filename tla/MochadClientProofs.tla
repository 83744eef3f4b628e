------------------------- MODULE MochadClientProofs -------------------------
(***************************************************************************)
(* For any number of sockets: after stop() no socket is ever installed,    *)
(* none is leaked, and the connection callbacks stay paired.  And what the *)
(* client reads, for any number of houses, events, restarts of mochad and  *)
(* ends of connections: every report is returned as mochad wrote it, and   *)
(* the recorded states catch up with mochad's.                             *)
(***************************************************************************)
EXTENDS MochadReader, SequenceTheorems, TLAPS

\* Where in the client thread a socket may be held or installed, and that
\* stop() sets the event before it takes the lock.
ClientInv ==
    /\ held # None <=> cpc = "install"
    /\ socket # None => cpc \in {"connectCallback", "testConnected", "read", "disconnect"}
    /\ mpc \in AfterStop \cup {"stopDisconnect"} => stopEvent
    /\ StoppedStaysDown
    /\ NoSocketLeak
    /\ CallbacksPaired

\* At the start there is no thread and no socket.
LEMMA TypeInit == Init => TypeOK
<1>1. 0 \in 0 .. MaxSockets /\ 0 \in 0 .. 0 /\ {} \subseteq 1 .. 0
  BY ClientAssumption
<1> QED
  BY <1>1 DEF Init, TypeOK, ClientStep, MainStep, None

\* Every step of either thread keeps the types.
LEMMA TypeNext == TypeOK /\ [Next]_vars => TypeOK'
<1> SUFFICES ASSUME TypeOK, [Next]_vars
             PROVE  TypeOK'
  OBVIOUS
<1> USE DEF TypeOK, ClientStep, MainStep, None, client
<1>0. made \in Nat /\ 0 \in 0 .. made
  BY ClientAssumption
<1>1. CASE CreateSocket
  <2>1. /\ made + 1 \in 0 .. MaxSockets
        /\ made + 1 \in 1 .. made + 1
        /\ 1 .. made \subseteq 1 .. made + 1 /\ 0 .. made \subseteq 0 .. made + 1
        /\ 1 .. made + 1 \subseteq 0 .. made + 1
    BY <1>0, <1>1, ClientAssumption DEF CreateSocket
  <2> QED
    BY <1>1, <2>1 DEF CreateSocket
<1>2. CASE InstallSocket
  <2>1. held \in 1 .. made /\ held \in 0 .. made
    BY <1>0, <1>2 DEF InstallSocket
  <2>2. /\ held' = None
        /\ cpc' \in {"testConnected", "connectCallback"}
        /\ open' \subseteq open
        /\ socket' \in {socket, held}
        /\ peer' \in BOOLEAN
        /\ UNCHANGED <<made, told, running, stopEvent, lock, mpc>>
    BY <1>2 DEF InstallSocket
  <2> QED
    BY <2>1, <2>2
<1>3. CASE Disconnect
  BY <1>0, <1>3 DEF Disconnect, CloseSocket
<1>4. CASE RunLoop \/ CreateFails \/ ConnectCallback \/ TestConnected \/ ReadEnds
  BY <1>4 DEF RunLoop, CreateFails, ConnectCallback, TestConnected, ReadEnds
<1>5. CASE DisconnectCallback \/ ReconnectDelay
  BY <1>5 DEF DisconnectCallback, ReconnectDelay
<1>6. CASE Start \/ LeaveConnected \/ StopSetEvent \/ StopJoin
  BY <1>6 DEF Start, LeaveConnected, StopSetEvent, StopJoin
<1>7. CASE StopDisconnect
  BY <1>0, <1>7 DEF StopDisconnect, CloseSocket
<1>8. CASE EnterConnected \/ Signal \/ PeerGone
  BY <1>8 DEF EnterConnected, Signal, PeerGone
<1>9. CASE UNCHANGED vars
  BY <1>9 DEF vars
<1> QED
  BY <1>1, <1>2, <1>3, <1>4, <1>5, <1>6, <1>7, <1>8, <1>9
     DEF Next, ClientThread, MainThread

\* The two threads and their shared state keep their types.
THEOREM TypeCorrect == Spec => []TypeOK
  BY TypeInit, TypeNext, PTL DEF Spec

\* Every step of either thread keeps ClientInv.
LEMMA ClientInvStep == TypeOK /\ ClientInv /\ [Next]_vars => ClientInv'
<1> SUFFICES ASSUME TypeOK, ClientInv, [Next]_vars
             PROVE  ClientInv'
  OBVIOUS
<1> USE DEF ClientInv, StoppedStaysDown, NoSocketLeak, CallbacksPaired, AfterStop, None, client
<1>1. CASE RunLoop
  BY <1>1 DEF RunLoop
<1>2. CASE CreateSocket
  <2>1. socket = None /\ held = None /\ made \in Nat /\ made + 1 # 0
    BY <1>2, ClientAssumption DEF CreateSocket, TypeOK
  <2> QED
    BY <1>2, <2>1 DEF CreateSocket
<1>3. CASE CreateFails
  BY <1>3 DEF CreateFails
<1>4. CASE InstallSocket
  <2>1. socket = None /\ held # None /\ open = {held}
    BY <1>4 DEF InstallSocket
  <2>2. CASE stopEvent
    BY <1>4, <2>1, <2>2 DEF InstallSocket
  <2>3. CASE ~stopEvent
    BY <1>4, <2>1, <2>3 DEF InstallSocket
  <2> QED
    BY <2>2, <2>3
<1>5. CASE ConnectCallback
  BY <1>5 DEF ConnectCallback
<1>6. CASE TestConnected
  BY <1>6 DEF TestConnected
<1>7. CASE ReadEnds
  BY <1>7 DEF ReadEnds
<1>8. CASE Disconnect
  BY <1>8 DEF Disconnect, CloseSocket
<1>9. CASE DisconnectCallback
  BY <1>9 DEF DisconnectCallback
<1>10. CASE ReconnectDelay
  BY <1>10 DEF ReconnectDelay
<1>11. CASE Start
  BY <1>11 DEF Start, TypeOK
<1>12. CASE LeaveConnected \/ EnterConnected \/ Signal \/ PeerGone
  BY <1>12 DEF LeaveConnected, EnterConnected, Signal, PeerGone
<1>13. CASE StopSetEvent
  BY <1>13 DEF StopSetEvent
<1>14. CASE StopDisconnect
  <2>1. held # socket \/ held = None
    BY <1>14 DEF StopDisconnect
  <2>2. open' = {s \in {0, held} : s # 0}
    BY <1>14, <2>1 DEF StopDisconnect, CloseSocket
  <2> QED
    BY <1>14, <2>2 DEF StopDisconnect, CloseSocket
<1>15. CASE StopJoin
  BY <1>15 DEF StopJoin
<1>16. CASE UNCHANGED vars
  BY <1>16 DEF vars
<1> QED
  BY <1>1, <1>2, <1>3, <1>4, <1>5, <1>6, <1>7, <1>8, <1>9, <1>10, <1>11, <1>12,
     <1>13, <1>14, <1>15, <1>16 DEF Next, ClientThread, MainThread

\* At the start there is nothing to be wrong.
LEMMA ClientInvInit == Init => ClientInv
  BY DEF Init, ClientInv, StoppedStaysDown, NoSocketLeak, CallbacksPaired, AfterStop, None

\* ClientInv holds throughout.
THEOREM ClientInvCorrect == Spec => []ClientInv
  BY ClientInvInit, ClientInvStep, TypeCorrect, PTL DEF Spec

\* After stop()'s disconnect no socket is ever installed again: the stop
\* event, set before the lock is taken and tested under it, decides the race.
THEOREM StopCorrect == Spec => []StoppedStaysDown
  BY ClientInvCorrect, PTL DEF ClientInv

\* Every open socket is the installed one or the one connect() holds.
THEOREM NoLeakCorrect == Spec => []NoSocketLeak
  BY ClientInvCorrect, PTL DEF ClientInv

\* The bridge is told of the disconnect before the client connects again.
THEOREM CallbacksCorrect == Spec => []CallbacksPaired
  BY ClientInvCorrect, PTL DEF ClientInv

(***************************************************************************)
(* What the client reads.                                                  *)
(***************************************************************************)
Value  == {"ON", "OFF", UNKNOWN}
States == [House -> Value]
Line   == [kind : {"selected", "other"}]
            \cup [kind : {"house", "event"}, house : House, value : Value]
            \cup [kind : {"end"}, said : States]
Token  == Line \cup {NL}
Parser == [active : BOOLEAN, snapshot : States]

ReaderType ==
    /\ actual \in States /\ view \in States /\ assumed \subseteq House
    /\ requests \in Nat /\ crossed \in BOOLEAN
    /\ report \in [open : BOOLEAN, left : SUBSET House, said : States]
    /\ wire \in Seq(Token) /\ buffer \in Seq(Token)
    /\ parser \in Parser

\* The text is n lines; reading them takes the parser from p[0] to p[n] and the
\* recorded states from v[0] to v[n], and each end of a report finds the parser
\* with what that report said.
Reading(text, n, p, v) ==
    /\ n \in Nat /\ Len(text) = 2 * n
    /\ p \in [0 .. n -> Parser] /\ v \in [0 .. n -> States]
    /\ \A i \in 1 .. n :
         /\ text[2 * i] = NL /\ text[2 * i - 1] \in Line
         /\ p[i] = Feed(p[i - 1], text[2 * i - 1])
         /\ v[i] = Apply(v[i - 1], p[i - 1], text[2 * i - 1])
         /\ text[2 * i - 1].kind = "end" =>
              p[i - 1].active /\ p[i - 1].snapshot = text[2 * i - 1].said

\* StatusParser.feed and StateManager.apply keep their types.
LEMMA FeedType ==
    ASSUME NEW q \in Parser, NEW w \in States, NEW l \in Line
    PROVE  Feed(q, l) \in Parser /\ Apply(w, q, l) \in States
<1>1. ResetParser \in Parser /\ [active |-> TRUE, snapshot |-> Nothing] \in Parser
  BY DEF ResetParser, Parser, Nothing, States, Value
<1>2. WithSnapshot(w, q.snapshot) \in States
  BY DEF WithSnapshot, Parser, States
<1>3. CASE l \in [kind : {"house", "event"}, house : House, value : Value]
  <2>1. l.house \in House /\ l.value \in Value /\ l.kind \in {"house", "event"}
    BY <1>3
  <2>2. [q EXCEPT !.snapshot[l.house] = l.value] \in Parser
    BY <2>1 DEF Parser, States
  <2>3. [w EXCEPT ![l.house] = l.value] \in States
    BY <2>1 DEF States
  <2>4. Feed(q, l) \in {q, [q EXCEPT !.snapshot[l.house] = l.value]}
    BY <2>1 DEF Feed
  <2>5. Apply(w, q, l) \in {w, [w EXCEPT ![l.house] = l.value]}
    BY <2>1 DEF Apply, Returns
  <2> QED
    BY <2>2, <2>3, <2>4, <2>5
<1>4. CASE l \in [kind : {"selected", "other"}] \cup [kind : {"end"}, said : States]
  <2>1. l.kind \in {"selected", "other", "end"}
    BY <1>4
  <2>2. Feed(q, l) \in {q, ResetParser, [active |-> TRUE, snapshot |-> Nothing]}
    BY <2>1 DEF Feed
  <2>3. Apply(w, q, l) \in {w, WithSnapshot(w, q.snapshot)}
    BY <2>1 DEF Apply, Returns
  <2> QED
    BY <1>1, <1>2, <2>2, <2>3
<1> QED
  BY <1>3, <1>4 DEF Line

\* A line makes states that agree but for some houses agree in the houses it
\* records too.
LEMMA AgreeAfter ==
    ASSUME NEW q \in Parser, NEW w \in States, NEW u \in States, NEW l \in Line,
           NEW but, \A h \in House \ but : w[h] = u[h]
    PROVE  \A h \in House \ (but \ Recorded(q, l)) : Apply(w, q, l)[h] = Apply(u, q, l)[h]
<1>1. CASE l.kind = "event"
  <2>1. /\ Recorded(q, l) = {l.house}
        /\ Apply(w, q, l) = [w EXCEPT ![l.house] = l.value]
        /\ Apply(u, q, l) = [u EXCEPT ![l.house] = l.value]
    BY <1>1 DEF Recorded, Apply, Returns
  <2> QED
    BY <2>1 DEF States
<1>2. CASE l.kind # "event" /\ Returns(q, l)
  <2>1. /\ Recorded(q, l) = {h \in House : q.snapshot[h] # UNKNOWN}
        /\ Apply(w, q, l) = WithSnapshot(w, q.snapshot)
        /\ Apply(u, q, l) = WithSnapshot(u, q.snapshot)
    BY <1>2 DEF Recorded, Apply
  <2> QED
    BY <2>1 DEF WithSnapshot
<1>3. CASE l.kind # "event" /\ ~Returns(q, l)
  BY <1>3 DEF Recorded, Apply
<1> QED
  BY <1>1, <1>2, <1>3

\* No text: nothing changes.
LEMMA ReadNothing ==
    ASSUME NEW q \in Parser, NEW w \in States
    PROVE  \E p, v : Reading(Empty, 0, p, v) /\ p[0] = q /\ v[0] = w
<1> DEFINE p == [i \in 0 .. 0 |-> q]
           v == [i \in 0 .. 0 |-> w]
<1>1. p \in [0 .. 0 -> Parser] /\ v \in [0 .. 0 -> States] /\ p[0] = q /\ v[0] = w
  OBVIOUS
<1>2. Len(Empty) = 2 * 0 /\ 1 .. 0 = {}
  BY DEF Empty
<1>3. Reading(Empty, 0, p, v)
  BY <1>1, <1>2 DEF Reading
<1> QED
  BY <1>1, <1>3

\* mochad writes one more line.
LEMMA ReadOneMore ==
    ASSUME NEW text \in Seq(Token), NEW n, NEW p, NEW v, Reading(text, n, p, v),
           NEW l \in Line, l.kind = "end" => p[n].active /\ p[n].snapshot = l.said
    PROVE  \E p2, v2 :
             /\ Reading(text \o << l, NL >>, n + 1, p2, v2)
             /\ p2[0] = p[0] /\ v2[0] = v[0]
             /\ p2[n + 1] = Feed(p[n], l) /\ v2[n + 1] = Apply(v[n], p[n], l)
<1> DEFINE p2 == [i \in 0 .. n + 1 |-> IF i <= n THEN p[i] ELSE Feed(p[n], l)]
           v2 == [i \in 0 .. n + 1 |-> IF i <= n THEN v[i] ELSE Apply(v[n], p[n], l)]
           longer == text \o << l, NL >>
<1>1. /\ n \in Nat /\ Len(text) = 2 * n
      /\ p \in [0 .. n -> Parser] /\ v \in [0 .. n -> States]
      /\ p[n] \in Parser /\ v[n] \in States
  BY DEF Reading
<1>2. Feed(p[n], l) \in Parser /\ Apply(v[n], p[n], l) \in States
  BY <1>1, FeedType
<1>3. p2 \in [0 .. n + 1 -> Parser] /\ v2 \in [0 .. n + 1 -> States]
  <2>1. \A i \in 0 .. n + 1 : i <= n => p[i] \in Parser /\ v[i] \in States
    BY <1>1
  <2> HIDE DEF p2, v2
  <2>2. \A i \in 0 .. n + 1 : p2[i] \in Parser /\ v2[i] \in States
    BY <2>1, <1>2 DEF p2, v2
  <2> QED
    BY <2>2 DEF p2, v2
<1>4. /\ Len(longer) = 2 * (n + 1)
      /\ \A j \in 1 .. 2 * n : longer[j] = text[j]
      /\ longer[2 * (n + 1) - 1] = l /\ longer[2 * (n + 1)] = NL
  <2>1. << l, NL >> \in Seq(Token) /\ Len(<< l, NL >>) = 2
    BY DEF Token
  <2> QED
    BY <2>1, <1>1
<1>5. /\ \A i \in 0 .. n : p2[i] = p[i] /\ v2[i] = v[i]
      /\ p2[n + 1] = Feed(p[n], l) /\ v2[n + 1] = Apply(v[n], p[n], l)
  BY <1>1
<1> HIDE DEF p2, v2, longer
<1>6. ASSUME NEW i \in 1 .. n + 1
      PROVE  /\ longer[2 * i] = NL /\ longer[2 * i - 1] \in Line
             /\ p2[i] = Feed(p2[i - 1], longer[2 * i - 1])
             /\ v2[i] = Apply(v2[i - 1], p2[i - 1], longer[2 * i - 1])
             /\ longer[2 * i - 1].kind = "end" =>
                  p2[i - 1].active /\ p2[i - 1].snapshot = longer[2 * i - 1].said
  <2>1. CASE i = n + 1
    <3>1. i - 1 = n /\ n \in 0 .. n
      BY <1>1, <2>1
    <3>2. p2[i - 1] = p[n] /\ v2[i - 1] = v[n]
      BY <3>1, <1>5
    <3> QED
      BY <2>1, <3>2, <1>4, <1>5
  <2>2. CASE i # n + 1
    <3>1. /\ i \in 1 .. n /\ i \in 0 .. n /\ i - 1 \in 0 .. n
          /\ 2 * i \in 1 .. 2 * n /\ 2 * i - 1 \in 1 .. 2 * n
      BY <1>1, <2>2
    <3>2. /\ longer[2 * i] = text[2 * i] /\ longer[2 * i - 1] = text[2 * i - 1]
          /\ p2[i] = p[i] /\ v2[i] = v[i] /\ p2[i - 1] = p[i - 1] /\ v2[i - 1] = v[i - 1]
      BY <3>1, <1>4, <1>5
    <3>3. /\ text[2 * i] = NL /\ text[2 * i - 1] \in Line
          /\ p[i] = Feed(p[i - 1], text[2 * i - 1])
          /\ v[i] = Apply(v[i - 1], p[i - 1], text[2 * i - 1])
          /\ text[2 * i - 1].kind = "end" =>
               p[i - 1].active /\ p[i - 1].snapshot = text[2 * i - 1].said
      BY <3>1 DEF Reading
    <3> QED
      BY <3>2, <3>3
  <2> QED
    BY <2>1, <2>2
<1>7. Reading(longer, n + 1, p2, v2)
  BY <1>1, <1>3, <1>4, <1>6 DEF Reading
<1>8. p2[0] = p[0] /\ v2[0] = v[0]
  BY <1>1, <1>5
<1> QED
  BY <1>5, <1>7, <1>8 DEF longer

\* The reader takes the first line.
LEMMA ReadFirst ==
    ASSUME NEW text \in Seq(Token), NEW n, NEW p, NEW v, Reading(text, n, p, v), n # 0
    PROVE  \E p2, v2 :
             /\ Reading(SubSeq(text, 3, Len(text)), n - 1, p2, v2)
             /\ p2[0] = Feed(p[0], text[1]) /\ v2[0] = Apply(v[0], p[0], text[1])
             /\ p2[n - 1] = p[n] /\ v2[n - 1] = v[n]
<1> DEFINE p2 == [i \in 0 .. n - 1 |-> p[i + 1]]
           v2 == [i \in 0 .. n - 1 |-> v[i + 1]]
           rest == SubSeq(text, 3, Len(text))
<1>1. /\ n \in Nat \ {0} /\ Len(text) = 2 * n
      /\ p \in [0 .. n -> Parser] /\ v \in [0 .. n -> States]
  BY DEF Reading
<1>2. p2 \in [0 .. n - 1 -> Parser] /\ v2 \in [0 .. n - 1 -> States]
  BY <1>1
<1>3. /\ Len(rest) = 2 * (n - 1)
      /\ \A j \in 1 .. 2 * (n - 1) : rest[j] = text[j + 2]
  BY <1>1
<1>4. \A i \in 0 .. n - 1 : p2[i] = p[i + 1] /\ v2[i] = v[i + 1]
  BY <1>1
<1> HIDE DEF p2, v2, rest
<1>5. ASSUME NEW i \in 1 .. n - 1
      PROVE  /\ rest[2 * i] = NL /\ rest[2 * i - 1] \in Line
             /\ p2[i] = Feed(p2[i - 1], rest[2 * i - 1])
             /\ v2[i] = Apply(v2[i - 1], p2[i - 1], rest[2 * i - 1])
             /\ rest[2 * i - 1].kind = "end" =>
                  p2[i - 1].active /\ p2[i - 1].snapshot = rest[2 * i - 1].said
  <2>1. /\ i + 1 \in 1 .. n /\ i \in 0 .. n - 1 /\ i - 1 \in 0 .. n - 1
        /\ 2 * i \in 1 .. 2 * (n - 1) /\ 2 * i - 1 \in 1 .. 2 * (n - 1)
        /\ (i - 1) + 1 = i /\ (i + 1) - 1 = i
        /\ 2 * i + 2 = 2 * (i + 1) /\ (2 * i - 1) + 2 = 2 * (i + 1) - 1
    BY <1>1
  <2>2. /\ rest[2 * i] = text[2 * (i + 1)] /\ rest[2 * i - 1] = text[2 * (i + 1) - 1]
        /\ p2[i] = p[i + 1] /\ v2[i] = v[i + 1] /\ p2[i - 1] = p[i] /\ v2[i - 1] = v[i]
    BY <2>1, <1>3, <1>4
  <2> DEFINE k == i + 1
  <2>3. /\ text[2 * k] = NL /\ text[2 * k - 1] \in Line
        /\ p[k] = Feed(p[k - 1], text[2 * k - 1])
        /\ v[k] = Apply(v[k - 1], p[k - 1], text[2 * k - 1])
        /\ text[2 * k - 1].kind = "end" =>
             p[k - 1].active /\ p[k - 1].snapshot = text[2 * k - 1].said
    <3>1. k \in 1 .. n
      BY <2>1
    <3> HIDE DEF k
    <3> QED
      BY <3>1 DEF Reading
  <2>4. k - 1 = i
    BY <2>1
  <2> QED
    BY <2>2, <2>3, <2>4
<1>6. Reading(rest, n - 1, p2, v2)
  <2>1. n - 1 \in Nat
    BY <1>1
  <2> QED
    BY <2>1, <1>2, <1>3, <1>5 DEF Reading
<1>7. /\ p2[0] = Feed(p[0], text[1]) /\ v2[0] = Apply(v[0], p[0], text[1])
      /\ p2[n - 1] = p[n] /\ v2[n - 1] = v[n]
  <2>1. /\ 1 \in 1 .. n /\ 0 \in 0 .. n - 1 /\ n - 1 \in 0 .. n - 1 /\ (n - 1) + 1 = n
        /\ 1 - 1 = 0 /\ 2 * 1 - 1 = 1 /\ 0 + 1 = 1
    BY <1>1
  <2>2. p[1] = Feed(p[1 - 1], text[2 * 1 - 1])
        /\ v[1] = Apply(v[1 - 1], p[1 - 1], text[2 * 1 - 1])
    BY <2>1 DEF Reading
  <2>3. p2[0] = p[1] /\ v2[0] = v[1] /\ p2[n - 1] = p[n] /\ v2[n - 1] = v[n]
    BY <2>1, <1>4
  <2> QED
    BY <2>1, <2>2, <2>3
<1> QED
  BY <1>6, <1>7 DEF rest

Text == buffer \o wire

\* The text behind its first two tokens.
LEMMA DropTwo ==
    ASSUME NEW S, NEW s \in Seq(S), Len(s) >= 2
    PROVE  LET r == SubSeq(s, 3, Len(s))
           IN  /\ r \in Seq(S) /\ Len(r) = Len(s) - 2
               /\ \A i \in 1 .. Len(s) - 2 : r[i] = s[i + 2]
<1>1. Len(s) \in Nat /\ \A i \in 3 .. Len(s) : s[i] \in S
  OBVIOUS
<1>2. /\ SubSeq(s, 3, Len(s)) \in Seq(S)
      /\ Len(SubSeq(s, 3, Len(s))) = IF 3 <= Len(s) THEN Len(s) - 3 + 1 ELSE 0
      /\ \A i \in 1 .. Len(s) - 3 + 1 : SubSeq(s, 3, Len(s))[i] = s[3 + i - 1]
  BY <1>1, SubSeqProperties
<1>3. /\ Len(s) - 3 + 1 = Len(s) - 2 /\ \A i \in Int : 3 + i - 1 = i + 2
      /\ (IF 3 <= Len(s) THEN Len(s) - 3 + 1 ELSE 0) = Len(s) - 2
  BY <1>1
<1> QED
  BY <1>2, <1>3

\* A line in the buffer is the first line of the text: two tokens, because no
\* connection's text is run together with that of another.
LEMMA BufferedLine ==
    ASSUME ReaderType, NEW n, NEW p, NEW v, Reading(Text, n, p, v), HasLine(buffer)
    PROVE  /\ n # 0 /\ Text \in Seq(Token) /\ Text[1] \in Line
           /\ FirstLine(buffer) = Text[1]
           /\ AfterLine(buffer) \in Seq(Token)
           /\ AfterLine(buffer) \o wire = SubSeq(Text, 3, Len(Text))
<1>1. wire \in Seq(Token) /\ buffer \in Seq(Token) /\ Text \in Seq(Token)
  BY DEF ReaderType, Text
<1> DEFINE ends == {i \in 1 .. Len(buffer) : buffer[i] = NL}
<1>2. ends # {} /\ LineEnd(buffer) = Min(ends)
  BY DEF HasLine, LineEnd, SelectInSeq
<1>3. PICK e \in 1 .. Len(buffer) : buffer[e] = NL
  BY <1>2
<1>4. /\ Len(Text) = Len(buffer) + Len(wire)
      /\ \A i \in 1 .. Len(buffer) : Text[i] = buffer[i]
  BY <1>1 DEF Text
<1>5. n \in Nat \ {0}
  BY <1>1, <1>4 DEF Reading
<1>6. Text[2] = NL /\ Text[1] \in Line
  <2>1. 1 \in 1 .. n /\ 2 * 1 = 2 /\ 2 * 1 - 1 = 1
    BY <1>5
  <2>2. Text[2 * 1] = NL /\ Text[2 * 1 - 1] \in Line
    BY <2>1 DEF Reading
  <2> QED
    BY <2>1, <2>2
<1>7. Text[1] # NL
  BY <1>6 DEF Line, NL
<1>8. 1 \in 1 .. Len(buffer) /\ e # 1 /\ 2 \in 1 .. Len(buffer)
  <2>1. Len(buffer) \in Nat
    BY <1>1
  <2>2. 1 \in 1 .. Len(buffer)
    BY <1>3, <2>1
  <2>3. e # 1
    BY <2>2, <1>3, <1>4, <1>7
  <2> QED
    BY <2>1, <2>2, <2>3, <1>3
<1>9. LineEnd(buffer) = 2
  <2>1. 2 \in ends /\ \A i \in ends : 2 <= i
    BY <1>4, <1>6, <1>7, <1>8
  <2>2. Min(ends) = 2
    <3>1. ends \subseteq Int
      OBVIOUS
    <3> HIDE DEF ends
    <3>2. \A x \in ends : (\A y \in ends : x =< y) => x = 2
      BY <2>1, <3>1
    <3> QED
      BY <2>1, <3>2 DEF Min
  <2> QED
    BY <2>2, <1>2
<1>10. FirstLine(buffer) = Text[1]
  BY <1>4, <1>8, <1>9 DEF FirstLine
<1>11. AfterLine(buffer) = SubSeq(buffer, 3, Len(buffer)) /\ AfterLine(buffer) \in Seq(Token)
  BY <1>1, <1>8, <1>9 DEF AfterLine
<1>12. SubSeq(buffer, 3, Len(buffer)) \o wire = SubSeq(Text, 3, Len(Text))
  <2> DEFINE x == SubSeq(buffer, 3, Len(buffer))
             y == SubSeq(Text, 3, Len(Text))
  <2>1. /\ x \in Seq(Token) /\ Len(x) = Len(buffer) - 2
        /\ \A i \in 1 .. Len(buffer) - 2 : x[i] = buffer[i + 2]
    <3>1. Len(buffer) >= 2
      BY <1>1, <1>8
    <3> QED
      BY <1>1, <3>1, DropTwo
  <2>2. /\ y \in Seq(Token) /\ Len(y) = Len(Text) - 2
        /\ \A i \in 1 .. Len(Text) - 2 : y[i] = Text[i + 2]
    <3>1. Len(Text) >= 2
      BY <1>1, <1>4, <1>8
    <3> QED
      BY <1>1, <3>1, DropTwo
  <2>3. \A i \in 1 .. Len(wire) : Text[Len(buffer) + i] = wire[i]
    BY <1>1 DEF Text
  <2> HIDE DEF x, y
  <2>4. /\ x \o wire \in Seq(Token) /\ Len(x \o wire) = Len(y)
        /\ \A i \in 1 .. Len(y) :
             (x \o wire)[i] = IF i <= Len(x) THEN x[i] ELSE wire[i - Len(x)]
    <3>1. /\ x \o wire \in Seq(Token) /\ Len(x \o wire) = Len(x) + Len(wire)
          /\ \A i \in 1 .. Len(x) + Len(wire) :
               (x \o wire)[i] = IF i <= Len(x) THEN x[i] ELSE wire[i - Len(x)]
      BY <1>1, <2>1, ConcatProperties
    <3>2. Len(x) + Len(wire) = Len(y)
      BY <1>1, <1>4, <1>8, <2>1, <2>2
    <3> QED
      BY <3>1, <3>2
  <2>5. ASSUME NEW i \in 1 .. Len(y)
        PROVE  (x \o wire)[i] = y[i]
    <3>1. CASE i <= Len(x)
      <4>1. i \in 1 .. Len(buffer) - 2 /\ i \in 1 .. Len(Text) - 2 /\ i + 2 \in 1 .. Len(buffer)
        BY <3>1, <1>1, <1>4, <2>1, <2>2
      <4> QED
        BY <3>1, <4>1, <1>4, <2>1, <2>2, <2>4
    <3>2. CASE ~(i <= Len(x))
      <4>1. /\ i - Len(x) \in 1 .. Len(wire) /\ i \in 1 .. Len(Text) - 2
            /\ Len(buffer) + (i - Len(x)) = i + 2
        BY <3>2, <1>1, <1>4, <2>1, <2>2
      <4> QED
        BY <3>2, <4>1, <2>2, <2>3, <2>4
    <3> QED
      BY <3>1, <3>2
  <2>6. x \o wire = y
    BY <2>2, <2>4, <2>5, SeqEqual
  <2> QED
    BY <2>6 DEF x, y
<1> QED
  BY <1>1, <1>5, <1>6, <1>10, <1>11, <1>12

\* Text that is put together twice may be put together in either order.
LEMMA TextAssociative ==
    ASSUME NEW a \in Seq(Token), NEW b \in Seq(Token), NEW c \in Seq(Token)
    PROVE  (a \o b) \o c = a \o (b \o c)
  BY ConcatAssociative, SMTT(60)

\* Received text only moves from the wire to the buffer.
LEMMA ReceivedText ==
    ASSUME NEW b \in Seq(Token), NEW w \in Seq(Token), NEW k \in 1 .. Len(w)
    PROVE  /\ b \o SubSeq(w, 1, k) \in Seq(Token)
           /\ SubSeq(w, k + 1, Len(w)) \in Seq(Token)
           /\ (b \o SubSeq(w, 1, k)) \o SubSeq(w, k + 1, Len(w)) = b \o w
<1> DEFINE x == SubSeq(w, 1, k)
           y == SubSeq(w, k + 1, Len(w))
<1>1. x \in Seq(Token) /\ y \in Seq(Token)
  OBVIOUS
<1>2. x \o y = w
  <2>1. 1 \in 1 .. Len(w) + 1 /\ k \in 0 .. Len(w) /\ Len(w) \in k .. Len(w)
    OBVIOUS
  <2>2. x \o y = SubSeq(w, 1, Len(w))
    BY <2>1, ConcatAdjacentSubSeq
  <2> QED
    BY <2>2, SubSeqFull
<1> HIDE DEF x, y
<1>3. (b \o x) \o y = b \o (x \o y)
  BY <1>1, TextAssociative
<1>4. b \o x \in Seq(Token)
  BY <1>1
<1> QED
  BY <1>1, <1>2, <1>3, <1>4 DEF x, y

Connecting == {"install", "connectCallback", "testConnected", "read"}
Resting    == {"unborn", "run", "create", "disconnectCallback", "wait", "exit"}

\* Between connections nothing is left of the last one but what the parser
\* holds; the buffer exists only inside the read loop.
RestInv ==
    /\ cpc \in Resting => wire = Empty
    /\ cpc \in Resting \cup {"install"} => requests = 0 /\ report = NoReport /\ ~crossed
    /\ cpc # "read" => buffer = Empty
    /\ ~report.open => report = NoReport

\* With the states w the bridge has what mochad has, but for the houses that
\* the report being written has still to name or will correct at its end.
CaughtUp(w) ==
    /\ report.open => \A h \in House :
         /\ report.said[h] # UNKNOWN => report.said[h] = actual[h]
         /\ report.said[h] = UNKNOWN /\ h \notin report.left /\ actual[h] # UNKNOWN
              => w[h] = actual[h]
    /\ ~report.open /\ requests = 0 /\ cpc \in {"testConnected", "read"} =>
         \A h \in House : actual[h] # UNKNOWN => w[h] = actual[h]

\* What the parser q and the states w are to be when all text is read.
Follows(q, w) ==
    /\ report.open => q.active /\ q.snapshot = report.said
    /\ Attached /\ ~crossed => CaughtUp(w)

\* The states w are the recorded ones, but for those the bridge has assumed.
Agrees(w) == \A h \in House \ assumed : w[h] = view[h]

StreamInv ==
    cpc \in Connecting =>
      \E n, p, v : /\ Reading(Text, n, p, v)
                   /\ p[0] = parser /\ Agrees(v[0])
                   /\ Follows(p[n], v[n])

ReaderInv == TypeOK /\ ClientInv /\ ReaderType /\ RestInv /\ StreamInv

\* Every step of the composition is a step of the client, or leaves it alone.
LEMMA ReaderStepsAreClientSteps == [ReaderNext]_rvars => [Next]_vars
<1> SUFFICES ASSUME [ReaderNext]_rvars
             PROVE  Next \/ UNCHANGED vars
  OBVIOUS
<1>1. CASE ReaderThread
  BY <1>1 DEF ReaderThread, OnMochadConnected, Receive, OnMochadLine, ReadLoopEnds,
              CloseConnection, Next, ClientThread
<1>2. CASE MainThread \/ EnterConnected \/ Signal \/ PeerGone
  BY <1>2 DEF Next
<1>3. CASE Sync \/ MochadWrites \/ MochadRestarts
           \/ \E h \in House, v \in {"ON", "OFF"} : OptimisticUpdate(h, v) \/ MochadEvent(h, v)
  BY <1>3 DEF Sync, MochadWrites, MochadBegins, MochadHouse, MochadEnds, MochadEvent, OptimisticUpdate,
              MochadRestarts
<1>4. CASE UNCHANGED rvars
  BY <1>4 DEF rvars
<1> QED
  BY <1>1, <1>2, <1>3, <1>4 DEF ReaderNext

\* Where the steps that touch no text lead from and to.
Moves ==
    \/ cpc' = cpc /\ (Attached' => Attached)
    \/ cpc \in Resting /\ cpc' \in Resting
    \/ cpc = "create" /\ cpc' = "install"
    \/ cpc \in {"create", "testConnected"} /\ cpc' = "disconnect"
    \/ cpc = "install" /\ cpc' = "connectCallback" /\ Attached
    \/ cpc = "install" /\ cpc' = "testConnected" /\ ~Attached'
    \/ cpc = "testConnected" /\ cpc' = "read" /\ (Attached' => Attached)

PlainStep ==
    \/ RunLoop \/ CreateSocket \/ CreateFails \/ InstallSocket \/ TestConnected
    \/ DisconnectCallback \/ ReconnectDelay
    \/ MainThread \/ EnterConnected \/ Signal \/ PeerGone

\* The steps of both threads that neither read nor close the connection.
LEMMA PlainStepMoves ==
    ASSUME TypeOK, ClientInv, PlainStep
    PROVE  Moves
<1> USE DEF Moves, Attached, Resting, None, client
<1>1. CASE RunLoop \/ CreateSocket \/ CreateFails \/ DisconnectCallback \/ ReconnectDelay
  BY <1>1 DEF RunLoop, CreateSocket, CreateFails, DisconnectCallback, ReconnectDelay
<1>2. CASE InstallSocket
  BY <1>2 DEF InstallSocket, ClientInv
<1>3. CASE TestConnected
  BY <1>3 DEF TestConnected
<1>4. CASE Start
  BY <1>4 DEF Start, TypeOK
<1>5. CASE StopDisconnect
  BY <1>5 DEF StopDisconnect, CloseSocket
<1>6. CASE LeaveConnected \/ StopSetEvent \/ StopJoin
  BY <1>6 DEF LeaveConnected, StopSetEvent, StopJoin
<1>7. CASE EnterConnected \/ Signal \/ PeerGone
  BY <1>7 DEF EnterConnected, Signal, PeerGone
<1> QED
  BY <1>1, <1>2, <1>3, <1>4, <1>5, <1>6, <1>7 DEF PlainStep, MainThread

\* They keep what is known of the text.
LEMMA PlainStepKeeps ==
    ASSUME ReaderInv, Moves, UNCHANGED <<mochadVars, textVars>>
    PROVE  ReaderType' /\ RestInv' /\ StreamInv'
<1>1. /\ UNCHANGED <<actual, events, requests, report, crossed, wire, buffer, parser, view, assumed>>
      /\ Text' = Text
  BY DEF mochadVars, textVars, Text
<1>2. ReaderType'
  BY <1>1 DEF ReaderInv, ReaderType
<1>3. RestInv'
  BY <1>1 DEF ReaderInv, RestInv, Moves, Resting
<1>4. StreamInv'
  <2>1. CASE cpc = "create" /\ cpc' = "install"
    <3>1. buffer = Empty /\ wire = Empty /\ report = NoReport /\ parser \in Parser /\ view \in States
      BY <2>1 DEF ReaderInv, RestInv, ReaderType, Resting
    <3>2. Text' = Empty
      BY <1>1, <3>1 DEF Text, Empty
    <3>3. PICK p, v : Reading(Empty, 0, p, v) /\ p[0] = parser /\ Agrees(v[0])
      BY <3>1, ReadNothing DEF Agrees
    <3>4. Follows(p[0], v[0])'
      BY <1>1, <2>1, <3>1 DEF Follows, CaughtUp, NoReport
    <3> QED
      BY <1>1, <3>2, <3>3, <3>4 DEF StreamInv, Agrees
  <2>2. CASE cpc' \in Connecting /\ cpc \in Connecting
    <3>1. PICK n, p, v : /\ Reading(Text, n, p, v) /\ p[0] = parser /\ Agrees(v[0])
                         /\ Follows(p[n], v[n])
      BY <2>2 DEF ReaderInv, StreamInv
    <3>2. /\ Attached' => Attached
          /\ Attached' /\ cpc' \in {"testConnected", "read"} => cpc \in {"testConnected", "read"}
      BY <2>2 DEF Moves, Resting, Connecting
    <3>3. Follows(p[n], v[n])'
      BY <1>1, <3>1, <3>2 DEF Follows, CaughtUp
    <3> QED
      BY <1>1, <3>1, <3>3 DEF StreamInv, Agrees
  <2>3. CASE cpc' \notin Connecting
    BY <2>3 DEF StreamInv, Agrees
  <2> QED
    BY <2>1, <2>2, <2>3 DEF Moves, Resting, Connecting
<1> QED
  BY <1>2, <1>3, <1>4

\* The connect callback asks for the status, so that a report is owed.
LEMMA ConnectedKeeps ==
    ASSUME ReaderInv, OnMochadConnected
    PROVE  ReaderType' /\ RestInv' /\ StreamInv'
<1>1. /\ cpc = "connectCallback" /\ cpc' = "testConnected"
      /\ UNCHANGED <<held, socket, peer>>
      /\ requests' = (IF socket # None /\ peer THEN requests + 1 ELSE requests)
      /\ UNCHANGED <<actual, events, report, crossed, wire, buffer, parser, view, assumed>>
      /\ Text' = Text
  BY DEF OnMochadConnected, ConnectCallback, textVars, Text
<1>2. ReaderType' /\ requests \in Nat
  BY <1>1 DEF ReaderInv, ReaderType
<1>3. RestInv'
  BY <1>1 DEF ReaderInv, RestInv, Resting
<1>4. Attached' => Attached /\ requests' # 0
  <2>1. held = None
    BY <1>1 DEF ReaderInv, ClientInv
  <2> QED
    BY <1>1, <1>2, <2>1 DEF Attached
<1>5. PICK n, p, v : /\ Reading(Text, n, p, v) /\ p[0] = parser /\ Agrees(v[0])
                     /\ Follows(p[n], v[n])
  BY <1>1 DEF ReaderInv, StreamInv, Connecting
<1>6. Follows(p[n], v[n])'
  BY <1>1, <1>4, <1>5 DEF Follows, CaughtUp
<1>7. StreamInv'
  BY <1>1, <1>5, <1>6 DEF StreamInv, Agrees
<1> QED
  BY <1>2, <1>3, <1>7

\* Receiving moves text from the wire to the buffer.
LEMMA ReceiveKeeps ==
    ASSUME ReaderInv, Receive
    PROVE  ReaderType' /\ RestInv' /\ StreamInv'
<1>1. /\ cpc = "read" /\ cpc' = "read" /\ UNCHANGED <<held, socket, peer>>
      /\ UNCHANGED <<actual, events, requests, report, crossed, parser, view, assumed>>
  BY DEF Receive, vars, client, mochadVars
<1>2. wire \in Seq(Token) /\ buffer \in Seq(Token)
  BY DEF ReaderInv, ReaderType
<1>3. wire' \in Seq(Token) /\ buffer' \in Seq(Token) /\ Text' = Text
  <2>1. PICK k \in 1 .. Len(wire) : /\ buffer' = buffer \o SubSeq(wire, 1, k)
                                    /\ wire' = SubSeq(wire, k + 1, Len(wire))
    BY DEF Receive
  <2> QED
    BY <1>2, <2>1, ReceivedText DEF Text
<1>4. ReaderType'
  BY <1>1, <1>3 DEF ReaderInv, ReaderType
<1>5. RestInv'
  BY <1>1 DEF ReaderInv, RestInv, Resting
<1>6. PICK n, p, v : /\ Reading(Text, n, p, v) /\ p[0] = parser /\ Agrees(v[0])
                     /\ Follows(p[n], v[n])
  BY <1>1 DEF ReaderInv, StreamInv, Connecting
<1>7. Follows(p[n], v[n])'
  BY <1>1, <1>6 DEF Follows, CaughtUp, Attached
<1>8. StreamInv'
  BY <1>1, <1>3, <1>6, <1>7 DEF StreamInv, Agrees
<1> QED
  BY <1>4, <1>5, <1>8

\* Reading a line moves the parser and the states along.
LEMMA LineKeeps ==
    ASSUME ReaderInv, OnMochadLine
    PROVE  ReaderType' /\ RestInv' /\ StreamInv'
<1>1. /\ cpc = "read" /\ cpc' = "read" /\ UNCHANGED <<held, socket, peer>>
      /\ UNCHANGED <<actual, events, requests, report, crossed, wire>>
      /\ HasLine(buffer) /\ buffer' = AfterLine(buffer)
      /\ parser' = Feed(parser, FirstLine(buffer))
      /\ view' = Apply(view, parser, FirstLine(buffer))
      /\ assumed' = assumed \ Recorded(parser, FirstLine(buffer))
  BY DEF OnMochadLine, vars, client, mochadVars
<1>2. PICK n, p, v : /\ Reading(Text, n, p, v) /\ p[0] = parser /\ Agrees(v[0])
                     /\ Follows(p[n], v[n])
  BY <1>1 DEF ReaderInv, StreamInv, Connecting
<1>3. /\ n # 0 /\ Text \in Seq(Token) /\ Text[1] \in Line
      /\ FirstLine(buffer) = Text[1]
      /\ AfterLine(buffer) \in Seq(Token)
      /\ AfterLine(buffer) \o wire = SubSeq(Text, 3, Len(Text))
  BY <1>1, <1>2, BufferedLine DEF ReaderInv
<1>4. parser' \in Parser /\ view' \in States
  <2>1. parser \in Parser /\ view \in States
    BY DEF ReaderInv, ReaderType
  <2> QED
    BY <1>1, <1>3, <2>1, FeedType
<1>5. ReaderType'
  BY <1>1, <1>3, <1>4 DEF ReaderInv, ReaderType
<1>6. RestInv'
  BY <1>1 DEF ReaderInv, RestInv, Resting
<1>7. Text' = SubSeq(Text, 3, Len(Text))
  BY <1>1, <1>3 DEF Text
<1>8. PICK p2, v2 :
        /\ Reading(SubSeq(Text, 3, Len(Text)), n - 1, p2, v2)
        /\ p2[0] = Feed(p[0], Text[1]) /\ v2[0] = Apply(v[0], p[0], Text[1])
        /\ p2[n - 1] = p[n] /\ v2[n - 1] = v[n]
  BY <1>2, <1>3, ReadFirst
<1>9. Follows(p[n], v[n])'
  BY <1>1, <1>2 DEF Follows, CaughtUp, Attached
<1>10. Agrees(v2[0])'
  <2>1. v[0] \in States /\ view \in States /\ parser \in Parser
    BY <1>2 DEF Reading, ReaderInv, ReaderType
  <2>2. \A h \in House \ (assumed \ Recorded(parser, Text[1])) :
          Apply(v[0], parser, Text[1])[h] = Apply(view, parser, Text[1])[h]
    BY <1>2, <1>3, <2>1, AgreeAfter DEF Agrees
  <2> QED
    BY <1>1, <1>2, <1>3, <1>8, <2>2 DEF Agrees
<1>11. StreamInv'
  BY <1>1, <1>2, <1>3, <1>7, <1>8, <1>9, <1>10 DEF StreamInv
<1> QED
  BY <1>5, <1>6, <1>11

\* When the read loop ends the buffer is gone, with the piece of a line in it.
LEMMA LoopEndKeeps ==
    ASSUME ReaderInv, ReadLoopEnds
    PROVE  ReaderType' /\ RestInv' /\ StreamInv'
<1>1. /\ cpc' = "disconnect" /\ buffer' = Empty
      /\ UNCHANGED <<actual, events, requests, report, crossed, wire, parser, view, assumed>>
  BY DEF ReadLoopEnds, ReadEnds, mochadVars
<1>2. Empty \in Seq(Token)
  BY DEF Empty
<1> QED
  BY <1>1, <1>2 DEF ReaderInv, ReaderType, RestInv, StreamInv, Connecting, Resting

\* When the connection is closed everything else of it is gone.
LEMMA CloseKeeps ==
    ASSUME ReaderInv, CloseConnection
    PROVE  ReaderType' /\ RestInv' /\ StreamInv'
<1>1. /\ cpc = "disconnect" /\ cpc' = "disconnectCallback" /\ wire' = Empty
      /\ requests' = 0 /\ report' = NoReport /\ crossed' = FALSE
      /\ UNCHANGED <<actual, events, buffer, parser, view, assumed>>
  BY DEF CloseConnection, Disconnect
<1>2. Empty \in Seq(Token)
  BY DEF Empty
<1>3. NoReport \in [open : BOOLEAN, left : SUBSET House, said : States] /\ NoReport.open = FALSE
  BY DEF NoReport, Nothing, States, Value
<1>4. ReaderType'
  BY <1>1, <1>2, <1>3 DEF ReaderInv, ReaderType
<1>5. RestInv' /\ StreamInv'
  BY <1>1 DEF ReaderInv, RestInv, StreamInv, Connecting
<1> QED
  BY <1>4, <1>5

\* A SYNC command makes mochad owe one more report.
LEMMA SyncKeeps ==
    ASSUME ReaderInv, Sync
    PROVE  ReaderType' /\ RestInv' /\ StreamInv'
<1>1. /\ socket # None /\ UNCHANGED <<cpc, held, socket, peer>>
      /\ requests' = (IF peer THEN requests + 1 ELSE requests)
      /\ UNCHANGED <<actual, report, crossed, wire, buffer, parser, view, assumed>>
      /\ Text' = Text
  BY DEF Sync, vars, client, textVars, Text
<1>2. ReaderType' /\ requests \in Nat
  BY <1>1 DEF ReaderInv, ReaderType
<1>3. cpc \notin Resting \cup {"install"}
  BY <1>1 DEF ReaderInv, ClientInv, Resting
<1>4. RestInv'
  BY <1>1, <1>3 DEF ReaderInv, RestInv
<1>5. StreamInv'
  <2> SUFFICES ASSUME cpc \in Connecting
               PROVE  StreamInv'
    BY <1>1 DEF StreamInv, Agrees
  <2>1. PICK n, p, v : /\ Reading(Text, n, p, v) /\ p[0] = parser /\ Agrees(v[0])
                       /\ Follows(p[n], v[n])
    BY DEF ReaderInv, StreamInv
  <2>2. requests' = 0 => requests = 0
    BY <1>1, <1>2
  <2>3. Follows(p[n], v[n])'
    BY <1>1, <2>1, <2>2 DEF Follows, CaughtUp, Attached
  <2> QED
    BY <1>1, <2>1, <2>3 DEF StreamInv, Agrees
<1> QED
  BY <1>2, <1>4, <1>5

\* A command leaves the text alone, and the state it records is assumed.
LEMMA OptimisticKeeps ==
    ASSUME ReaderInv, NEW h \in House, NEW x \in {"ON", "OFF"}, OptimisticUpdate(h, x)
    PROVE  ReaderType' /\ RestInv' /\ StreamInv'
<1>1. /\ UNCHANGED <<cpc, held, socket, peer, actual, requests, report, crossed,
                     wire, buffer, parser>>
      /\ view' = [view EXCEPT ![h] = x] /\ assumed' = assumed \cup {h}
      /\ Text' = Text
  BY DEF OptimisticUpdate, vars, client, Text
<1>2. view \in States /\ view' \in States
  BY <1>1 DEF ReaderInv, ReaderType, States, Value
<1>3. ReaderType'
  BY <1>1, <1>2 DEF ReaderInv, ReaderType
<1>4. RestInv'
  BY <1>1 DEF ReaderInv, RestInv
<1>5. StreamInv'
  <2> SUFFICES ASSUME cpc \in Connecting
               PROVE  StreamInv'
    BY <1>1 DEF StreamInv
  <2>1. PICK n, p, v : /\ Reading(Text, n, p, v) /\ p[0] = parser /\ Agrees(v[0])
                       /\ Follows(p[n], v[n])
    BY DEF ReaderInv, StreamInv
  <2>2. Agrees(v[0])'
    BY <1>1, <1>2, <2>1 DEF Agrees, States
  <2>3. Follows(p[n], v[n])'
    BY <1>1, <2>1 DEF Follows, CaughtUp, Attached
  <2> QED
    BY <1>1, <2>1, <2>2, <2>3 DEF StreamInv
<1> QED
  BY <1>3, <1>4, <1>5

\* A connection that mochad may write to is not one of the resting steps.
LEMMA AttachedConnects ==
    ASSUME ReaderInv, Attached
    PROVE  cpc \notin Resting
  BY DEF ReaderInv, ClientInv, Attached, Resting

\* mochad writes a line: the text goes on, if the line leads from what is to be
\* when all text before it is read to what is to be after it.
LEMMA WriteKeeps ==
    ASSUME ReaderInv, NEW l \in Line, Write(l), UNCHANGED <<vars, buffer, parser, view, assumed>>,
           \A q \in Parser, w \in States : Follows(q, w) =>
             /\ l.kind = "end" => q.active /\ q.snapshot = l.said
             /\ Follows(Feed(q, l), Apply(w, q, l))'
    PROVE  wire' \in Seq(Token) /\ StreamInv'
<1>1. /\ wire' = wire \o << l, NL >> /\ UNCHANGED <<cpc, buffer, parser, view, assumed>>
      /\ wire \in Seq(Token) /\ buffer \in Seq(Token) /\ << l, NL >> \in Seq(Token)
  BY DEF Write, vars, client, ReaderInv, ReaderType, Token
<1>2. wire' \in Seq(Token) /\ Text \in Seq(Token)
  BY <1>1 DEF Text
<1>3. Text' = Text \o << l, NL >>
  <2>1. (buffer \o wire) \o << l, NL >> = buffer \o (wire \o << l, NL >>)
    BY <1>1, TextAssociative
  <2> QED
    BY <1>1, <2>1 DEF Text
<1>4. ASSUME cpc \in Connecting
      PROVE  StreamInv'
  <2>1. PICK n, p, v : /\ Reading(Text, n, p, v) /\ p[0] = parser /\ Agrees(v[0])
                       /\ Follows(p[n], v[n])
    BY <1>4 DEF ReaderInv, StreamInv
  <2>2. p[n] \in Parser /\ v[n] \in States
    BY <2>1 DEF Reading
  <2>3. /\ l.kind = "end" => p[n].active /\ p[n].snapshot = l.said
        /\ Follows(Feed(p[n], l), Apply(v[n], p[n], l))'
    BY <2>1, <2>2
  <2>4. PICK p2, v2 :
          /\ Reading(Text \o << l, NL >>, n + 1, p2, v2)
          /\ p2[0] = p[0] /\ v2[0] = v[0]
          /\ p2[n + 1] = Feed(p[n], l) /\ v2[n + 1] = Apply(v[n], p[n], l)
    BY <1>2, <2>1, <2>3, ReadOneMore
  <2>5. Agrees(v2[0])'
    BY <1>1, <2>1, <2>4 DEF Agrees
  <2> QED
    BY <1>1, <1>3, <2>1, <2>3, <2>4, <2>5 DEF StreamInv
<1> QED
  BY <1>1, <1>2, <1>4 DEF StreamInv

\* The report begins: from here on the parser forgets what it held.
LEMMA BeginsKeeps ==
    ASSUME ReaderInv, MochadBegins
    PROVE  ReaderType' /\ RestInv' /\ StreamInv'
<1> DEFINE known == {h \in House : actual[h] # UNKNOWN}
<1>1. /\ Attached /\ UNCHANGED <<vars, actual, events, buffer, parser, view, assumed>>
      /\ requests \in Nat /\ requests' = requests - 1 /\ requests > 0
      /\ report' = [open |-> TRUE, left |-> known, said |-> Nothing]
      /\ crossed' = FALSE /\ Write(Selected)
  BY DEF MochadBegins, ReaderInv, ReaderType
<1>2. Nothing \in States /\ Selected \in Line /\ Selected.kind = "selected"
  BY DEF Nothing, States, Value, Selected, Line
<1>3. /\ cpc' = cpc /\ report'.open = TRUE /\ report'.said = Nothing /\ report'.left = known
      /\ UNCHANGED <<actual, buffer, parser, view, assumed>>
  BY <1>1 DEF vars, client
<1>4. ASSUME NEW q \in Parser, NEW w \in States, Follows(q, w)
      PROVE  /\ Selected.kind = "end" => q.active /\ q.snapshot = Selected.said
             /\ Follows(Feed(q, Selected), Apply(w, q, Selected))'
  <2>1. Feed(q, Selected) = [active |-> TRUE, snapshot |-> Nothing]
    BY <1>2 DEF Feed
  <2>2. \A h \in House : Nothing[h] = UNKNOWN
    BY DEF Nothing
  <2> QED
    BY <1>2, <1>3, <2>1, <2>2 DEF Follows, CaughtUp
<1>5. wire' \in Seq(Token) /\ StreamInv'
  BY <1>1, <1>2, <1>4, WriteKeeps
<1>6. ReaderType'
  <2>1. requests' \in Nat /\ report' \in [open : BOOLEAN, left : SUBSET House, said : States]
    BY <1>1, <1>2
  <2> QED
    BY <1>1, <1>3, <1>5, <2>1 DEF ReaderInv, ReaderType
<1>7. RestInv'
  <2>1. cpc \notin Resting /\ cpc # "install"
    BY <1>1, AttachedConnects DEF ReaderInv, RestInv
  <2> QED
    BY <1>3, <2>1 DEF ReaderInv, RestInv
<1> QED
  BY <1>5, <1>6, <1>7

\* A house's line goes into what was said and into the parser's snapshot.
LEMMA HouseKeeps ==
    ASSUME ReaderInv, NEW h \in House, MochadHouse(h)
    PROVE  ReaderType' /\ RestInv' /\ StreamInv'
<1>1. /\ Attached /\ h \in report.left
      /\ UNCHANGED <<vars, actual, events, requests, crossed, buffer, parser, view, assumed>>
      /\ report' = [report EXCEPT !.left = @ \ {h}, !.said[h] = actual[h]]
      /\ Write(HouseLine(h, actual[h]))
  BY DEF MochadHouse
<1>2. /\ actual \in States /\ actual[h] \in Value
      /\ report \in [open : BOOLEAN, left : SUBSET House, said : States]
  BY DEF ReaderInv, ReaderType, States
<1>3. PICK l \in Line : /\ l = HouseLine(h, actual[h])
                         /\ l.kind = "house" /\ l.house = h /\ l.value = actual[h]
  <2>1. LET x == HouseLine(h, actual[h])
        IN  x \in Line /\ x.kind = "house" /\ x.house = h /\ x.value = actual[h]
    BY <1>2 DEF HouseLine, Line
  <2> QED
    BY <2>1
<1>4. report.open
  BY <1>1 DEF ReaderInv, RestInv, NoReport
<1>5. /\ report'.open = report.open /\ report'.left = report.left \ {h}
      /\ report'.said = [report.said EXCEPT ![h] = actual[h]]
      /\ report' \in [open : BOOLEAN, left : SUBSET House, said : States]
      /\ report.said \in States
  BY <1>1, <1>2 DEF States
<1>6. /\ UNCHANGED <<cpc, held, socket, peer, actual, requests, crossed, buffer, parser, view, assumed>>
      /\ Attached' = Attached
  BY <1>1 DEF vars, client, Attached
<1>7. ASSUME NEW q \in Parser, NEW w \in States, Follows(q, w)
      PROVE  /\ l.kind = "end" => q.active /\ q.snapshot = l.said
             /\ Follows(Feed(q, l), Apply(w, q, l))'
  <2>1. q.active /\ q.snapshot = report.said
    BY <1>4, <1>7 DEF Follows
  <2>2. /\ Feed(q, l) = [q EXCEPT !.snapshot[h] = actual[h]]
        /\ Apply(w, q, l) = w
    BY <1>3, <2>1 DEF Feed, Apply, Returns
  <2>3. Feed(q, l).active /\ Feed(q, l).snapshot = report'.said
    BY <1>5, <2>1, <2>2 DEF Parser
  <2>4. ASSUME Attached, ~crossed
        PROVE  CaughtUp(w)'
    <3>1. CaughtUp(w)
      BY <2>4, <1>7 DEF Follows
    <3>2. ASSUME NEW g \in House
          PROVE  /\ report'.said[g] # UNKNOWN => report'.said[g] = actual[g]
                 /\ report'.said[g] = UNKNOWN /\ g \notin report'.left /\ actual[g] # UNKNOWN
                      => w[g] = actual[g]
      <4>1. report'.said[g] = IF g = h THEN actual[h] ELSE report.said[g]
        BY <1>5 DEF States
      <4> QED
        BY <1>4, <1>5, <3>1, <4>1 DEF CaughtUp
    <3> QED
      BY <1>4, <1>5, <1>6, <3>2 DEF CaughtUp
  <2> QED
    BY <1>3, <1>6, <2>2, <2>3, <2>4 DEF Follows
<1>8. wire' \in Seq(Token) /\ StreamInv'
  BY <1>1, <1>3, <1>7, WriteKeeps
<1>9. ReaderType'
  BY <1>5, <1>6, <1>8 DEF ReaderInv, ReaderType
<1>10. RestInv'
  <2>1. cpc \notin Resting /\ cpc # "install"
    BY <1>1, <1>4, AttachedConnects DEF ReaderInv, RestInv, NoReport
  <2> QED
    BY <1>4, <1>5, <1>6, <2>1 DEF ReaderInv, RestInv
<1> QED
  BY <1>8, <1>9, <1>10

\* The end: the parser returns what was said, and the states have caught up.
LEMMA EndsKeeps ==
    ASSUME ReaderInv, MochadEnds
    PROVE  ReaderType' /\ RestInv' /\ StreamInv'
<1>1. /\ Attached /\ report.open /\ report.left = {}
      /\ UNCHANGED <<vars, actual, events, requests, crossed, buffer, parser, view, assumed>>
      /\ report' = NoReport /\ Write(End(report.said))
  BY DEF MochadEnds
<1>2. report.said \in States /\ report'.open = FALSE
      /\ report' \in [open : BOOLEAN, left : SUBSET House, said : States]
  BY <1>1 DEF ReaderInv, ReaderType, NoReport, Nothing, States, Value
<1>3. PICK l \in Line : l = End(report.said) /\ l.kind = "end" /\ l.said = report.said
  <2>1. LET x == End(report.said)
        IN  x \in Line /\ x.kind = "end" /\ x.said = report.said
    BY <1>2 DEF End, Line
  <2> QED
    BY <2>1
<1>4. /\ UNCHANGED <<cpc, held, socket, peer, actual, requests, crossed, buffer, parser, view, assumed>>
      /\ Attached' = Attached
  BY <1>1 DEF vars, client, Attached
<1>5. ASSUME NEW q \in Parser, NEW w \in States, Follows(q, w)
      PROVE  /\ l.kind = "end" => q.active /\ q.snapshot = l.said
             /\ Follows(Feed(q, l), Apply(w, q, l))'
  <2>1. q.active /\ q.snapshot = report.said
    BY <1>1, <1>5 DEF Follows
  <2>2. Apply(w, q, l) = WithSnapshot(w, l.said)
    BY <1>3, <2>1 DEF Apply, Returns
  <2>3. ASSUME Attached, ~crossed
        PROVE  CaughtUp(WithSnapshot(w, l.said))'
    <3>1. CaughtUp(w)
      BY <2>3, <1>5 DEF Follows
    <3>2. \A g \in House : actual[g] # UNKNOWN => WithSnapshot(w, l.said)[g] = actual[g]
      BY <1>1, <1>3, <3>1 DEF CaughtUp, WithSnapshot
    <3> QED
      BY <1>2, <1>4, <3>2 DEF CaughtUp
  <2> QED
    BY <1>2, <1>3, <1>4, <2>1, <2>2, <2>3 DEF Follows
<1>6. wire' \in Seq(Token) /\ StreamInv'
  BY <1>1, <1>3, <1>5, WriteKeeps
<1>7. ReaderType'
  BY <1>2, <1>4, <1>6 DEF ReaderInv, ReaderType
<1>8. RestInv'
  <2>1. cpc \notin Resting /\ cpc # "install"
    BY <1>1, AttachedConnects DEF ReaderInv, RestInv, NoReport
  <2> QED
    BY <1>1, <1>4, <2>1 DEF ReaderInv, RestInv
<1> QED
  BY <1>6, <1>7, <1>8

\* An event is a line of its own for whoever is connected.
LEMMA EventKeeps ==
    ASSUME ReaderInv, NEW h \in House, NEW x \in {"ON", "OFF"}, MochadEvent(h, x)
    PROVE  ReaderType' /\ RestInv' /\ StreamInv'
<1>1. /\ UNCHANGED <<vars, requests, report, buffer, parser, view, assumed>>
      /\ actual' = [actual EXCEPT ![h] = x]
      /\ IF Attached THEN Write(EventLine(h, x)) ELSE UNCHANGED wire
      /\ crossed' = (crossed \/ report.said[h] # UNKNOWN)
  BY DEF MochadEvent
<1>2. actual \in States /\ x \in Value /\ actual' \in States
  BY <1>1 DEF ReaderInv, ReaderType, States, Value
<1>3. /\ UNCHANGED <<cpc, held, socket, peer, requests, report, buffer, parser, view, assumed>>
      /\ Attached' = Attached
  BY <1>1 DEF vars, client, Attached
<1>4. crossed' \in BOOLEAN /\ (~crossed' => ~crossed /\ report.said[h] = UNKNOWN)
  BY <1>1
<1>5. wire' \in Seq(Token) /\ StreamInv'
  <2>1. CASE Attached
    <3>1. PICK l \in Line : /\ l = EventLine(h, x)
                            /\ l.kind = "event" /\ l.house = h /\ l.value = x
      <4>1. LET y == EventLine(h, x)
            IN  y \in Line /\ y.kind = "event" /\ y.house = h /\ y.value = x
        BY <1>2 DEF EventLine, Line
      <4> QED
        BY <4>1
    <3>2. ASSUME NEW q \in Parser, NEW w \in States, Follows(q, w)
          PROVE  /\ l.kind = "end" => q.active /\ q.snapshot = l.said
                 /\ Follows(Feed(q, l), Apply(w, q, l))'
      <4>1. Feed(q, l) = q /\ Apply(w, q, l) = [w EXCEPT ![h] = x]
        BY <3>1 DEF Feed, Apply, Returns
      <4>2. ASSUME ~crossed'
            PROVE  CaughtUp([w EXCEPT ![h] = x])'
        <5>1. CaughtUp(w) /\ report.said[h] = UNKNOWN
          BY <2>1, <1>4, <3>2, <4>2 DEF Follows
        <5>2. ASSUME NEW g \in House
              PROVE  /\ actual'[g] = IF g = h THEN x ELSE actual[g]
                     /\ [w EXCEPT ![h] = x][g] = IF g = h THEN x ELSE w[g]
          BY <1>1, <1>2 DEF States
        <5> QED
          BY <1>3, <5>1, <5>2 DEF CaughtUp
      <4>3. Follows(q, [w EXCEPT ![h] = x])'
        BY <1>3, <3>2, <4>2 DEF Follows
      <4> QED
        BY <3>1, <4>1, <4>3
    <3> QED
      BY <1>1, <2>1, <3>1, <3>2, WriteKeeps
  <2>2. CASE ~Attached
    <3>1. wire' = wire /\ Text' = Text /\ wire \in Seq(Token)
      BY <1>1, <1>3, <2>2 DEF Text, ReaderInv, ReaderType
    <3>2. ASSUME cpc \in Connecting
          PROVE  StreamInv'
      <4>1. PICK n, p, v : /\ Reading(Text, n, p, v) /\ p[0] = parser /\ Agrees(v[0])
                           /\ Follows(p[n], v[n])
        BY <3>2 DEF ReaderInv, StreamInv
      <4>2. Follows(p[n], v[n])'
        BY <1>3, <2>2, <4>1 DEF Follows
      <4> QED
        BY <1>3, <3>1, <4>1, <4>2 DEF StreamInv, Agrees
    <3> QED
      BY <1>3, <3>1, <3>2 DEF StreamInv, Agrees
  <2> QED
    BY <2>1, <2>2
<1>6. ReaderType'
  BY <1>2, <1>3, <1>4, <1>5 DEF ReaderInv, ReaderType
<1>7. RestInv'
  <2>1. CASE Attached
    <3>1. cpc \notin Resting
      BY <2>1, AttachedConnects
    <3>2. cpc = "install" => report.said[h] = UNKNOWN /\ ~crossed
      BY DEF ReaderInv, RestInv, NoReport, Nothing
    <3>3. cpc = "install" => ~crossed'
      BY <1>1, <3>2
    <3> QED
      BY <1>3, <3>1, <3>3 DEF ReaderInv, RestInv
  <2>2. CASE ~Attached
    <3>1. wire' = wire
      BY <1>1, <2>2
    <3>2. cpc \in Resting \cup {"install"} => report.said[h] = UNKNOWN /\ ~crossed
      BY DEF ReaderInv, RestInv, NoReport, Nothing
    <3>3. cpc \in Resting \cup {"install"} => ~crossed'
      BY <1>1, <3>2
    <3> QED
      BY <1>3, <3>1, <3>3 DEF ReaderInv, RestInv
  <2> QED
    BY <2>1, <2>2
<1> QED
  BY <1>5, <1>6, <1>7

\* mochad is restarted only when nobody is attached, whose text then says
\* nothing of the states any more.
LEMMA RestartKeeps ==
    ASSUME ReaderInv, MochadRestarts
    PROVE  ReaderType' /\ RestInv' /\ StreamInv'
<1>1. /\ UNCHANGED <<vars, requests, report, crossed, wire, buffer, parser, view, assumed>>
      /\ actual' = Nothing /\ ~Attached /\ Text' = Text
  BY DEF MochadRestarts, textVars, Text
<1>2. UNCHANGED cpc /\ Attached' = Attached /\ actual' \in States
  BY <1>1 DEF vars, client, Attached, Nothing, States, Value
<1>3. ReaderType' /\ RestInv'
  BY <1>1, <1>2 DEF ReaderInv, ReaderType, RestInv
<1>4. ASSUME cpc \in Connecting
      PROVE  StreamInv'
  <2>1. PICK n, p, v : /\ Reading(Text, n, p, v) /\ p[0] = parser /\ Agrees(v[0])
                       /\ Follows(p[n], v[n])
    BY <1>4 DEF ReaderInv, StreamInv
  <2>2. Follows(p[n], v[n])'
    BY <1>1, <1>2, <2>1 DEF Follows
  <2> QED
    BY <1>1, <2>1, <2>2 DEF StreamInv, Agrees
<1> QED
  BY <1>2, <1>3, <1>4 DEF StreamInv, Agrees

\* Every step of the client, of the bridge and of mochad keeps the invariant.
LEMMA ReaderInvStep == ReaderInv /\ [ReaderNext]_rvars => ReaderInv'
<1> SUFFICES ASSUME ReaderInv, [ReaderNext]_rvars
             PROVE  ReaderInv'
  OBVIOUS
<1>1. TypeOK' /\ ClientInv'
  BY ReaderStepsAreClientSteps, TypeNext, ClientInvStep DEF ReaderInv
<1>2. ReaderType' /\ RestInv' /\ StreamInv'
  <2>1. CASE PlainStep /\ UNCHANGED <<mochadVars, textVars>>
    BY <2>1, PlainStepMoves, PlainStepKeeps DEF ReaderInv
  <2>2. CASE OnMochadConnected \/ Receive \/ OnMochadLine \/ ReadLoopEnds \/ CloseConnection
    BY <2>2, ConnectedKeeps, ReceiveKeeps, LineKeeps, LoopEndKeeps, CloseKeeps
  <2>3. CASE Sync \/ MochadBegins \/ MochadEnds \/ MochadRestarts
    BY <2>3, SyncKeeps, BeginsKeeps, EndsKeeps, RestartKeeps
  <2>4. CASE \E h \in House : MochadHouse(h)
    BY <2>4, HouseKeeps
  <2>5. CASE \E h \in House, x \in {"ON", "OFF"} : OptimisticUpdate(h, x) \/ MochadEvent(h, x)
    BY <2>5, OptimisticKeeps, EventKeeps
  <2>6. CASE UNCHANGED rvars
    <3>1. Moves /\ UNCHANGED <<mochadVars, textVars>>
      BY <2>6 DEF rvars, vars, client, Moves, Attached
    <3> QED
      BY <3>1, PlainStepKeeps
  <2> QED
    BY <2>1, <2>2, <2>3, <2>4, <2>5, <2>6
       DEF ReaderNext, ReaderThread, MochadWrites, PlainStep
<1> QED
  BY <1>1, <1>2 DEF ReaderInv

\* The invariant of the composition, from which the properties follow.
THEOREM ReaderInvCorrect == ReaderSpec => []ReaderInv
<1>1. ReaderInit => ReaderInv
  <2> SUFFICES ASSUME ReaderInit
               PROVE  ReaderInv
    OBVIOUS
  <2>1. TypeOK /\ ClientInv /\ cpc = "unborn"
    BY TypeInit, ClientInvInit DEF ReaderInit, Init
  <2>2. Nothing \in States /\ Empty \in Seq(Token)
    BY DEF Nothing, States, Value, Empty
  <2>3. /\ NoReport \in [open : BOOLEAN, left : SUBSET House, said : States]
        /\ ResetParser \in Parser
    BY <2>2 DEF NoReport, ResetParser, Parser
  <2>4. ReaderType
    BY <2>2, <2>3 DEF ReaderInit, ReaderType
  <2>5. RestInv
    BY DEF ReaderInit, RestInv
  <2>6. StreamInv
    BY <2>1 DEF StreamInv, Connecting
  <2> QED
    BY <2>1, <2>4, <2>5, <2>6 DEF ReaderInv
<1> QED
  BY <1>1, ReaderInvStep, PTL DEF ReaderSpec

\* The client's own invariants hold of the composition too: callbacks, text
\* and SYNC commands do not disturb them.
THEOREM ReaderClientCorrect ==
    ReaderSpec => [](TypeOK /\ StoppedStaysDown /\ NoSocketLeak /\ CallbacksPaired)
<1>1. ReaderInv => TypeOK /\ StoppedStaysDown /\ NoSocketLeak /\ CallbacksPaired
  BY DEF ReaderInv, ClientInv
<1> QED
  BY <1>1, ReaderInvCorrect, PTL

\* The end of a report finds the parser in that report, with exactly what
\* mochad said in it: what an earlier connection left in the parser is gone
\* with "Device selected", and no text of it is left in the buffer.
THEOREM ReportsCorrect == ReaderSpec => []EveryReportReturned
<1>1. ReaderInv => EveryReportReturned
  <2> SUFFICES ASSUME ReaderInv, cpc = "read", HasLine(buffer), FirstLine(buffer).kind = "end"
               PROVE  /\ Returns(parser, FirstLine(buffer))
                      /\ parser.snapshot = FirstLine(buffer).said
    BY DEF EveryReportReturned
  <2>1. PICK n, p, v : Reading(Text, n, p, v) /\ p[0] = parser
    BY DEF ReaderInv, StreamInv, Connecting
  <2>2. n # 0 /\ FirstLine(buffer) = Text[1]
    BY <2>1, BufferedLine DEF ReaderInv
  <2>3. 1 \in 1 .. n /\ 2 * 1 - 1 = 1 /\ 1 - 1 = 0
    BY <2>1, <2>2 DEF Reading
  <2>4. Text[2 * 1 - 1].kind = "end" =>
          p[1 - 1].active /\ p[1 - 1].snapshot = Text[2 * 1 - 1].said
    BY <2>1, <2>3 DEF Reading
  <2>5. parser.active /\ parser.snapshot = Text[1].said
    BY <2>1, <2>2, <2>3, <2>4
  <2> QED
    BY <2>2, <2>5 DEF Returns
<1> QED
  BY <1>1, ReaderInvCorrect, PTL

\* With everything read the bridge has the states that mochad has, wherever
\* mochad has spoken since the bridge last assumed one for a command.
THEOREM ViewCorrect == ReaderSpec => []ViewFollows
<1>1. ReaderInv => ViewFollows
  <2> SUFFICES ASSUME ReaderInv, cpc = "read", Attached, wire = Empty, buffer = Empty,
                      requests = 0, ~report.open, ~crossed
               PROVE  \A h \in House \ assumed : actual[h] # UNKNOWN => view[h] = actual[h]
    BY DEF ViewFollows
  <2>1. PICK n, p, v : Reading(Text, n, p, v) /\ Agrees(v[0]) /\ Follows(p[n], v[n])
    BY DEF ReaderInv, StreamInv, Connecting
  <2>2. Len(Text) = 0
    BY DEF Text, Empty
  <2>3. n = 0
    BY <2>1, <2>2 DEF Reading
  <2> QED
    BY <2>1, <2>3 DEF Follows, CaughtUp, Agrees
<1> QED
  BY <1>1, ReaderInvCorrect, PTL
=============================================================================
