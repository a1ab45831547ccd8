------------------------------ MODULE Ipc_proofs ------------------------------
(***************************************************************************)
(* The IPC, for any processes, calls and events: every answer goes to the  *)
(* process that asked, in the order of its questions; every request is     *)
(* accounted for; a call returns its own answer when nothing was on its    *)
(* way before; the values of a call arrive, for any numbers; the unions    *)
(* they are kept in keep them, for any widths of their parts; and what is  *)
(* set of a display by a call is read by another, for any displays, sizes, *)
(* places of any number of bits, scales and opacities.                     *)
(***************************************************************************)
EXTENDS IpcValues, Calls, SequenceTheorems, FiniteSetTheorems, TLAPS

\* Requests q are still to be read and calls a answered: all are of u, the
\* answered ones before the others, each in the order of its numbers.
Ordered(u, q, a) ==
    /\ \A i \in DOMAIN q : q[i].user = u
    /\ \A i \in DOMAIN a : a[i].user = u
    /\ \A i, j \in DOMAIN q : i < j => q[i].number < q[j].number
    /\ \A i, j \in DOMAIN a : i < j => a[i].number < a[j].number
    /\ \A i \in DOMAIN a, j \in DOMAIN q : a[i].number < q[j].number

\* All of them came before call number n.
Earlier(q, a, n) ==
    /\ \A i \in DOMAIN q : q[i].number < n
    /\ \A i \in DOMAIN a : a[i].number < n

OrderInv ==
    \A u \in Users :
        /\ Ordered(u, toServer[u], answered[u])
        /\ user[u] # "gone" => Earlier(toServer[u], answered[u], Number(u))

\* the answers that were given, one element each
Given(a) == UNION {{u} \X DOMAIN a[u] : u \in Users}

CountInv ==
    /\ IsFiniteSet(DOMAIN sActiveRequestMap)
    /\ IsFiniteSet(Given(answered))
    /\ RequestsAccounted

\* What is on its way from and to a process that called alone is its call, the
\* answer to it, and what answers nothing.
OnTheWay(q, m, c) ==
    /\ \A i \in DOMAIN q : q[i] = c
    /\ \A i \in DOMAIN m : ResultOf(m[i]) \in {None, c}

OwnInv ==
    \A u \in Users :
        alone[u] => /\ OnTheWay(toServer[u], toUser[u], call[u])
                    /\ result[u] \in {None, call[u]}

IInv == TypeOK /\ OrderInv /\ CountInv /\ OwnInv

-----------------------------------------------------------------------------
(* Sequences that grow at the end and shrink at the front.                 *)

\* A sequence with an element more.
LEMMA AppendAt ==
    ASSUME NEW S, NEW s \in Seq(S), NEW e \in S
    PROVE  /\ Append(s, e) \in Seq(S)
           /\ DOMAIN s = 1..Len(s) /\ Len(s) \in Nat
           /\ DOMAIN Append(s, e) = 1..(Len(s) + 1)
           /\ \A i \in DOMAIN Append(s, e) :
                 Append(s, e)[i] = IF i = Len(s) + 1 THEN e ELSE s[i]
BY AppendProperties, LenProperties

\* A sequence without its first element.
LEMMA TailAt ==
    ASSUME NEW S, NEW s \in Seq(S), s # <<>>
    PROVE  /\ Tail(s) \in Seq(S)
           /\ DOMAIN s = 1..Len(s) /\ Len(s) \in Nat \ {0}
           /\ DOMAIN Tail(s) = 1..(Len(s) - 1)
           /\ \A i \in DOMAIN Tail(s) : i + 1 \in DOMAIN s /\ Tail(s)[i] = s[i + 1]
           /\ Head(s) = s[1] /\ 1 \in DOMAIN s /\ Head(s) \in S
BY HeadTailProperties, LenProperties, EmptySeq

\* The elements of a queue of calls are calls, and numbered.
LEMMA CallFields ==
    ASSUME NEW s \in Seq(Call), NEW i \in DOMAIN s
    PROVE  s[i] \in Call /\ s[i].number \in Nat \ {0}
<1>1. s[i] \in Call
  BY LenProperties, ElementOfSeq
<1>2. QED BY <1>1 DEF Call

-----------------------------------------------------------------------------
(* The order of calls and answers.                                         *)

\* A new call comes after the others.
LEMMA CallingKeepsOrder ==
    ASSUME NEW u \in Users, NEW q \in Seq(Call), NEW a \in Seq(Call), NEW c \in Call,
           c.user = u, Ordered(u, q, a), Earlier(q, a, c.number)
    PROVE  Ordered(u, Append(q, c), a) /\ Earlier(Append(q, c), a, c.number + 1)
<1> DEFINE p == Append(q, c)
<1>1. /\ DOMAIN q = 1..Len(q) /\ Len(q) \in Nat
      /\ DOMAIN p = 1..(Len(q) + 1)
      /\ \A i \in DOMAIN p : p[i] = IF i = Len(q) + 1 THEN c ELSE q[i]
  BY AppendAt
<1>2. c.number \in Nat /\ \A i \in DOMAIN q : q[i].number \in Nat
  BY CallFields DEF Call
<1>3. \A i \in DOMAIN a : a[i].number \in Nat
  BY CallFields
<1> HIDE DEF p
<1>4. \A i \in DOMAIN p : p[i].user = u
  BY <1>1 DEF Ordered
<1>5. \A i, j \in DOMAIN p : i < j => p[i].number < p[j].number
  BY <1>1, <1>2 DEF Ordered, Earlier
<1>6. \A i \in DOMAIN a, j \in DOMAIN p : a[i].number < p[j].number
  BY <1>1 DEF Ordered, Earlier
<1>7. \A i \in DOMAIN p : p[i].number < c.number + 1
  BY <1>1, <1>2 DEF Earlier
<1>8. \A i \in DOMAIN a : a[i].number < c.number + 1
  BY <1>2, <1>3 DEF Earlier
<1>9. QED BY <1>4, <1>5, <1>6, <1>7, <1>8 DEF Ordered, Earlier, p

\* The request at the front is read, and answered or not.
LEMMA ReadingKeepsOrder ==
    ASSUME NEW u \in Users, NEW q \in Seq(Call), NEW a \in Seq(Call), q # <<>>,
           Ordered(u, q, a)
    PROVE  /\ Ordered(u, Tail(q), a)
           /\ Ordered(u, Tail(q), Append(a, Head(q)))
           /\ \A n \in Nat : Earlier(q, a, n) => /\ Earlier(Tail(q), a, n)
                                                 /\ Earlier(Tail(q), Append(a, Head(q)), n)
<1> DEFINE t == Tail(q)
           h == Head(q)
           b == Append(a, h)
<1>1. /\ DOMAIN q = 1..Len(q) /\ Len(q) \in Nat \ {0}
      /\ DOMAIN t = 1..(Len(q) - 1)
      /\ \A i \in DOMAIN t : i + 1 \in DOMAIN q /\ t[i] = q[i + 1]
      /\ h = q[1] /\ 1 \in DOMAIN q /\ h \in Call
  BY TailAt
<1>2. /\ DOMAIN a = 1..Len(a) /\ Len(a) \in Nat
      /\ DOMAIN b = 1..(Len(a) + 1)
      /\ \A i \in DOMAIN b : b[i] = IF i = Len(a) + 1 THEN h ELSE a[i]
  BY <1>1, AppendAt
<1> HIDE DEF t, h, b
<1>3. Ordered(u, t, a)
  BY <1>1 DEF Ordered
<1>4. \A i \in DOMAIN b : b[i].user = u
  BY <1>1, <1>2 DEF Ordered
<1>5. \A i, j \in DOMAIN b : i < j => b[i].number < b[j].number
  BY <1>1, <1>2 DEF Ordered
<1>6. \A j \in DOMAIN t : h.number < t[j].number
  BY <1>1 DEF Ordered
<1>7. \A i \in DOMAIN b, j \in DOMAIN t : b[i].number < t[j].number
  BY <1>2, <1>3, <1>6 DEF Ordered
<1>8. \A n \in Nat : Earlier(q, a, n) => Earlier(t, a, n) /\ Earlier(t, b, n)
  BY <1>1, <1>2 DEF Earlier
<1>9. QED BY <1>3, <1>4, <1>5, <1>7, <1>8 DEF Ordered, t, h, b

\* The server stops, and what it has not read is lost.
LEMMA StoppingKeepsOrder ==
    ASSUME NEW u, NEW q, NEW a, NEW n, Ordered(u, q, a)
    PROVE  Ordered(u, <<>>, a) /\ (Earlier(q, a, n) => Earlier(<<>>, a, n))
BY DOMAIN <<>> = {} DEF Ordered, Earlier

-----------------------------------------------------------------------------
(* Types.                                                                  *)

\* A message that is sent does not spoil the queues of messages.
LEMMA SendToTypes ==
    ASSUME toUser \in [Users -> Seq(Message)], NEW us, NEW m \in Message, SendTo(us, m)
    PROVE  toUser' \in [Users -> Seq(Message)]
<1>1. \A u \in Users : Append(toUser[u], m) \in Seq(Message)
  BY AppendAt
<1>2. QED BY <1>1 DEF SendTo

\* The next call of a process has a number.
LEMMA NumberType ==
    ASSUME TypeOK, NEW u \in Users
    PROVE  Number(u) \in Nat \ {0}
BY DEF TypeOK, Number, Call

\* A request that is answered when it is read is forgotten at once.
AnswerAtOnce(u, new) ==
    /\ sActiveRequestMap' = sActiveRequestMap
    /\ answered' = [answered EXCEPT ![u] = Append(@, new)]
    /\ \E type \in {"response", "error"} : SendTo({u}, [type |-> type, call |-> new])

\* One that is not answered stays in the map.
NoAnswer(u, new) ==
    /\ ~new.query
    /\ sActiveRequestMap' = [id \in DOMAIN sActiveRequestMap \cup {sMessageId} |->
                                IF id = sMessageId THEN [fd |-> u, call |-> new]
                                ELSE sActiveRequestMap[id]]
    /\ UNCHANGED <<toUser, answered>>

\* A request that is read is answered at once, or kept and no query.
LEMMA ReadRequestEffect ==
    ASSUME TypeOK, NEW u \in Users, NEW success \in BOOLEAN, ReadRequest(u, success)
    PROVE  /\ Head(toServer[u]) \in Call
           /\ sMessageId' = sMessageId + 1
           /\ AnswerAtOnce(u, Head(toServer[u])) \/ NoAnswer(u, Head(toServer[u]))
<1> DEFINE new == Head(toServer[u])
           ask == [fd |-> u, call |-> new]
           map == [id \in DOMAIN sActiveRequestMap \cup {sMessageId} |->
                      IF id = sMessageId THEN ask ELSE sActiveRequestMap[id]]
           type == IF success THEN "response" ELSE "error"
<1>1. new \in Call
  BY TailAt DEF TypeOK, ReadRequest
<1>2. sMessageId \notin DOMAIN sActiveRequestMap
  BY DEF TypeOK
<1>3. /\ DOMAIN map = DOMAIN sActiveRequestMap \cup {sMessageId}
      /\ map[sMessageId] = ask
      /\ \A id \in DOMAIN sActiveRequestMap : map[id] = sActiveRequestMap[id]
  BY <1>2
<1>4. [id \in DOMAIN map \ {sMessageId} |-> map[id]] = sActiveRequestMap
  <2>1. DOMAIN map \ {sMessageId} = DOMAIN sActiveRequestMap
    BY <1>2, <1>3
  <2>2. [id \in DOMAIN sActiveRequestMap |-> map[id]]
           = [id \in DOMAIN sActiveRequestMap |-> sActiveRequestMap[id]]
    BY <1>3
  <2> HIDE DEF map
  <2>3. QED BY <2>1, <2>2 DEF TypeOK
<1>5. \/ Answers(new, success) /\ Reply(map, sMessageId, type)
      \/ ~Answers(new, success) /\ sActiveRequestMap' = map /\ UNCHANGED <<toUser, answered>>
  BY DEF ReadRequest
<1>6. sMessageId' = sMessageId + 1
  BY DEF ReadRequest
<1>7. CASE Answers(new, success) /\ Reply(map, sMessageId, type)
  <2> HIDE DEF map, new
  <2>1. /\ sActiveRequestMap' = sActiveRequestMap
        /\ answered' = [answered EXCEPT ![u] = Append(@, new)]
        /\ SendTo({u}, [type |-> type, call |-> new])
    BY <1>3, <1>4, <1>7 DEF Reply
  <2>2. type \in {"response", "error"}
    OBVIOUS
  <2>3. QED BY <1>1, <1>6, <2>1, <2>2 DEF new, AnswerAtOnce
<1>8. CASE ~Answers(new, success) /\ sActiveRequestMap' = map /\ UNCHANGED <<toUser, answered>>
  <2>1. ~new.query
    BY <1>8 DEF Answers
  <2>2. QED BY <1>1, <1>6, <1>8, <2>1 DEF NoAnswer
<1>9. QED BY <1>5, <1>7, <1>8

\* Every step keeps the types.
LEMMA TypesKept == ASSUME TypeOK, [Next]_vars PROVE TypeOK'
<1> USE IpcAssumption
<1>1. ASSUME NEW u \in Users, Connect(u) PROVE TypeOK'
  BY <1>1 DEF Connect, TypeOK, serverVars
<1>2. ASSUME NEW u \in Users, NEW query \in BOOLEAN, NEW withResult \in BOOLEAN,
             Begin(u, query, withResult)
      PROVE TypeOK'
  <2> DEFINE new == [user |-> u, number |-> Number(u), query |-> query]
  <2>1. new \in Call
    BY NumberType DEF Call
  <2>2. toServer' \in [Users -> Seq(Call)]
    BY <1>2, <2>1, AppendAt DEF Begin, TypeOK
  <2>3. call' \in [Users -> Call \cup {None}]
    BY <1>2, <2>1 DEF Begin, TypeOK
  <2>4. (alone' \in [Users -> BOOLEAN]) /\ (partial' \in [Users -> BOOLEAN])
    BY <1>2, Zenon DEF Begin, TypeOK
  <2>5. /\ user' \in [Users -> {"started", "idle", "sending", "calling", "waiting", "gone"}]
        /\ result' \in [Users -> Call \cup {None}]
    BY <1>2 DEF Begin, TypeOK
  <2>6. UNCHANGED <<toUser, backlog, serverVars, answered, events>>
    BY <1>2 DEF Begin
  <2>7. QED BY <2>2, <2>3, <2>4, <2>5, <2>6 DEF TypeOK, serverVars
<1>3. ASSUME NEW u \in Users, SendPayload(u) PROVE TypeOK'
  BY <1>3 DEF SendPayload, TypeOK, serverVars
<1>4. ASSUME NEW u \in Users, TakeMessage(u) PROVE TypeOK'
  <2>1. Tail(toUser[u]) \in Seq(Message) /\ Head(toUser[u]) \in Message
    BY <1>4, TailAt DEF TakeMessage, TypeOK
  <2>2. ResultOf(Head(toUser[u])) \in Call \cup {None}
    BY <2>1 DEF ResultOf, Message
  <2>3. QED BY <1>4, <2>1, <2>2 DEF TakeMessage, TypeOK, serverVars
<1>5. ASSUME NEW u \in Users, GiveUp(u) PROVE TypeOK'
  BY <1>5 DEF GiveUp, TypeOK, serverVars
<1>6. ASSUME NEW u \in Users, ProcessMessages(u) PROVE TypeOK'
  <2>1. Tail(toUser[u]) \in Seq(Message)
    BY <1>6, TailAt DEF ProcessMessages, TypeOK
  <2>2. QED BY <1>6, <2>1 DEF ProcessMessages, TypeOK, userVars, serverVars
<1>7. ASSUME NEW u \in Users, Exit(u) PROVE TypeOK'
  <2>1. <<>> \in Seq(Message)
    BY EmptySeq
  <2>2. QED BY <1>7, <2>1 DEF Exit, TypeOK, serverVars
<1>8. CASE Select
  BY <1>8 DEF Select, TypeOK, userVars
<1>9. CASE RemoveInactiveClients
  BY <1>9 DEF RemoveInactiveClients, TypeOK, userVars
<1>10. ASSUME NEW u \in Users, AcceptClient(u) \/ ReadEnd(u) PROVE TypeOK'
  BY <1>10 DEF AcceptClient, ReadEnd, TypeOK, userVars
<1>11. ASSUME NEW u \in Users, NEW success \in BOOLEAN, ReadRequest(u, success) PROVE TypeOK'
  <2> DEFINE new == Head(toServer[u])
  <2>1. new \in Call /\ Tail(toServer[u]) \in Seq(Call)
    BY <1>11, TailAt DEF ReadRequest, TypeOK
  <2>2. toServer' \in [Users -> Seq(Call)]
    BY <1>11, <2>1 DEF ReadRequest, TypeOK
  <2>3. sMessageId' = sMessageId + 1 /\ sMessageId \in Nat
    BY <1>11, ReadRequestEffect DEF TypeOK
  <2>4. /\ UNCHANGED <<userVars, partial, backlog, active, mClients, sClientsToRemove, polling, events>>
        /\ ready' \subseteq Users
    BY <1>11 DEF ReadRequest, TypeOK
  <2>5. Append(answered[u], new) \in Seq(Call)
    BY <2>1, AppendAt DEF TypeOK
  <2>6. AnswerAtOnce(u, new) \/ NoAnswer(u, new)
    BY <1>11, ReadRequestEffect
  <2>7. CASE AnswerAtOnce(u, new)
    <3>1. PICK type \in {"response", "error"} : SendTo({u}, [type |-> type, call |-> new])
      BY <2>7 DEF AnswerAtOnce
    <3>2. [type |-> type, call |-> new] \in Message
      BY <2>1 DEF Message
    <3>3. toUser' \in [Users -> Seq(Message)]
      BY <3>1, <3>2, SendToTypes DEF TypeOK
    <3>4. sActiveRequestMap' = sActiveRequestMap /\ answered' \in [Users -> Seq(Call)]
      BY <2>5, <2>7 DEF AnswerAtOnce, TypeOK
    <3>5. QED BY <2>2, <2>3, <2>4, <3>3, <3>4 DEF TypeOK, userVars
  <2>8. CASE NoAnswer(u, new)
    <3> DEFINE ask == [fd |-> u, call |-> new]
    <3>1. ask \in [fd : Users, call : Call]
      BY <2>1
    <3>2. sActiveRequestMap' = [id \in DOMAIN sActiveRequestMap \cup {sMessageId} |->
                                   IF id = sMessageId THEN ask ELSE sActiveRequestMap[id]]
      BY <2>8 DEF NoAnswer
    <3> HIDE DEF ask
    <3>3. /\ sActiveRequestMap' = [id \in DOMAIN sActiveRequestMap' |-> sActiveRequestMap'[id]]
          /\ \A id \in DOMAIN sActiveRequestMap' :
                /\ id \in Nat /\ id < sMessageId + 1
                /\ sActiveRequestMap'[id] \in [fd : Users, call : Call]
      BY SMTT(20), <3>1, <3>2 DEF TypeOK
    <3>4. UNCHANGED <<toUser, answered>>
      BY <2>8 DEF NoAnswer
    <3>5. QED BY <2>2, <2>3, <2>4, <3>3, <3>4 DEF TypeOK, userVars
  <2>9. QED BY <2>6, <2>7, <2>8
<1>12. CASE SendEvent
  <2>1. [type |-> "event"] \in Message
    BY DEF Message
  <2>2. toUser' \in [Users -> Seq(Message)]
    BY <1>12, <2>1, SendToTypes DEF SendEvent, TypeOK
  <2>3. events' \in 0..MaxEvents
    BY <1>12 DEF SendEvent, TypeOK
  <2>4. UNCHANGED <<userVars, toServer, partial, backlog, serverVars, answered>>
    BY <1>12 DEF SendEvent
  <2>5. QED BY <2>2, <2>3, <2>4 DEF TypeOK, userVars, serverVars
<1>13. CASE Stop
  <2>1. <<>> \in Seq(Call)
    BY EmptySeq
  <2>2. QED BY <1>13, <2>1 DEF Stop, TypeOK, userVars
<1>14. CASE UNCHANGED vars
  BY <1>14 DEF vars, TypeOK, userVars, serverVars
<1>15. QED
  BY <1>1, <1>2, <1>3, <1>4, <1>5, <1>6, <1>7, <1>8, <1>9, <1>10, <1>11, <1>12, <1>13, <1>14
     DEF Next, Process, User

-----------------------------------------------------------------------------
(* Answers come in the order of the questions.                             *)

\* Every step keeps the order: a new call is queued behind the others, and the
\* one that is read is the first of them.
LEMMA OrderKept == ASSUME IInv, [Next]_vars PROVE OrderInv'
<1>1. ASSUME UNCHANGED <<toServer, answered, call>>, user' = user \/
             (\E u \in Users : user[u] # "gone" /\ \E to : user' = [user EXCEPT ![u] = to])
      PROVE  OrderInv'
  <2>1. \A u \in Users : Number(u)' = Number(u) /\ (user'[u] # "gone" => user[u] # "gone")
    BY <1>1 DEF Number, IInv, TypeOK
  <2>2. QED BY <1>1, <2>1 DEF OrderInv, IInv
<1>2. ASSUME NEW u \in Users,
             Connect(u) \/ SendPayload(u) \/ TakeMessage(u) \/ GiveUp(u) \/ ProcessMessages(u)
      PROVE  OrderInv'
  <2>1. UNCHANGED <<toServer, answered, call>>
    BY <1>2 DEF Connect, SendPayload, TakeMessage, GiveUp, ProcessMessages, userVars
  <2>2. \/ user' = user
        \/ user[u] # "gone" /\ \E to : user' = [user EXCEPT ![u] = to]
    BY <1>2 DEF Connect, SendPayload, TakeMessage, GiveUp, ProcessMessages, userVars
  <2>3. QED BY <1>1, <2>1, <2>2
<1>3. ASSUME Select \/ RemoveInactiveClients \/ SendEvent \/ UNCHANGED vars
                \/ (\E u \in Users : AcceptClient(u) \/ ReadEnd(u))
      PROVE  OrderInv'
  <2>1. UNCHANGED <<toServer, answered, call, user>>
    BY <1>3 DEF Select, RemoveInactiveClients, SendEvent, AcceptClient, ReadEnd, vars, userVars
  <2>2. QED BY <1>1, <2>1
<1>4. ASSUME NEW u \in Users, NEW query \in BOOLEAN, NEW withResult \in BOOLEAN,
             Begin(u, query, withResult)
      PROVE  OrderInv'
  <2> DEFINE new == [user |-> u, number |-> Number(u), query |-> query]
  <2>1. /\ user[u] = "idle" /\ answered' = answered
        /\ toServer' = [toServer EXCEPT ![u] = Append(@, new)]
        /\ call' = [call EXCEPT ![u] = new]
        /\ \A x \in Users \ {u} : user'[x] = user[x]
    BY <1>4 DEF Begin, IInv, TypeOK
  <2>2. new \in Call /\ new.user = u /\ new.number = Number(u) /\ Number(u) \in Nat
    BY NumberType DEF Call, IInv
  <2>3. toServer[u] \in Seq(Call) /\ answered[u] \in Seq(Call)
    BY DEF IInv, TypeOK
  <2>4. Ordered(u, toServer[u], answered[u]) /\ Earlier(toServer[u], answered[u], Number(u))
    BY <2>1 DEF IInv, OrderInv
  <2>5. Ordered(u, Append(toServer[u], new), answered[u])
        /\ Earlier(Append(toServer[u], new), answered[u], Number(u) + 1)
    BY <2>2, <2>3, <2>4, CallingKeepsOrder
  <2>6. Number(u)' = Number(u) + 1
    <3>1. call'[u] = new /\ new # None
      BY <2>1, <2>2, IpcAssumption DEF IInv, TypeOK
    <3>2. QED BY <2>2, <3>1 DEF Number
  <2>7. toServer'[u] = Append(toServer[u], new)
    BY <2>1 DEF IInv, TypeOK
  <2>8. \A x \in Users \ {u} : toServer'[x] = toServer[x] /\ Number(x)' = Number(x)
    BY <2>1 DEF IInv, TypeOK, Number
  <2> HIDE DEF new
  <2>9. QED BY <2>1, <2>5, <2>6, <2>7, <2>8 DEF IInv, OrderInv
<1>5. ASSUME NEW u \in Users, Exit(u) PROVE OrderInv'
  <2>1. UNCHANGED <<toServer, answered>> /\ user'[u] = "gone"
        /\ \A x \in Users \ {u} : user'[x] = user[x] /\ call'[x] = call[x]
    BY <1>5 DEF Exit, IInv, TypeOK
  <2>2. \A x \in Users \ {u} : Number(x)' = Number(x)
    BY <2>1 DEF Number
  <2>3. QED BY <2>1, <2>2 DEF OrderInv, IInv
<1>6. ASSUME NEW u \in Users, NEW success \in BOOLEAN, ReadRequest(u, success) PROVE OrderInv'
  <2> DEFINE new == Head(toServer[u])
  <2>1. /\ toServer[u] # <<>> /\ UNCHANGED <<user, call>>
        /\ toServer' = [toServer EXCEPT ![u] = Tail(@)]
    BY <1>6 DEF ReadRequest, userVars
  <2>2. answered' = answered \/ answered' = [answered EXCEPT ![u] = Append(@, new)]
    BY <1>6, ReadRequestEffect DEF AnswerAtOnce, NoAnswer, IInv
  <2>3. toServer[u] \in Seq(Call) /\ answered[u] \in Seq(Call)
    BY DEF IInv, TypeOK
  <2>4. Ordered(u, toServer[u], answered[u])
    BY DEF IInv, OrderInv
  <2>5. /\ Ordered(u, Tail(toServer[u]), answered[u])
        /\ Ordered(u, Tail(toServer[u]), Append(answered[u], new))
        /\ Earlier(toServer[u], answered[u], Number(u)) =>
              /\ Earlier(Tail(toServer[u]), answered[u], Number(u))
              /\ Earlier(Tail(toServer[u]), Append(answered[u], new), Number(u))
    BY <2>1, <2>3, <2>4, ReadingKeepsOrder, NumberType DEF IInv
  <2>6. /\ toServer'[u] = Tail(toServer[u])
        /\ answered'[u] = answered[u] \/ answered'[u] = Append(answered[u], new)
        /\ \A x \in Users \ {u} : toServer'[x] = toServer[x] /\ answered'[x] = answered[x]
        /\ \A x \in Users : Number(x)' = Number(x)
    BY <2>1, <2>2 DEF IInv, TypeOK, Number
  <2> HIDE DEF new
  <2>7. QED BY <2>1, <2>5, <2>6 DEF IInv, OrderInv
<1>7. CASE Stop
  <2>1. /\ UNCHANGED <<answered, call, user>>
        /\ \A u \in Users : toServer'[u] = <<>>
    BY <1>7 DEF Stop, userVars
  <2>2. \A u \in Users : Number(u)' = Number(u)
    BY <2>1 DEF Number
  <2>3. \A u \in Users :
           /\ Ordered(u, <<>>, answered[u])
           /\ Earlier(toServer[u], answered[u], Number(u)) => Earlier(<<>>, answered[u], Number(u))
    BY StoppingKeepsOrder DEF IInv, OrderInv
  <2>4. QED BY <2>1, <2>2, <2>3 DEF IInv, OrderInv
<1>8. QED
  BY <1>2, <1>3, <1>4, <1>5, <1>6, <1>7 DEF Next, Process, User

-----------------------------------------------------------------------------
(* Every request is accounted for.                                         *)

\* One answer more.
LEMMA AnswerIsGiven ==
    ASSUME TypeOK, NEW u \in Users, NEW c \in Call, IsFiniteSet(Given(answered)),
           answered' = [answered EXCEPT ![u] = Append(@, c)]
    PROVE  /\ IsFiniteSet(Given(answered'))
           /\ Cardinality(Given(answered')) = Cardinality(Given(answered)) + 1
<1> DEFINE n == Len(answered[u]) + 1
<1>1. /\ DOMAIN answered[u] = 1..Len(answered[u]) /\ Len(answered[u]) \in Nat
      /\ DOMAIN Append(answered[u], c) = 1..n
  BY AppendAt DEF TypeOK
<1>2. /\ answered'[u] = Append(answered[u], c)
      /\ \A x \in Users \ {u} : answered'[x] = answered[x]
  BY DEF TypeOK
<1>3. DOMAIN answered'[u] = DOMAIN answered[u] \cup {n}
  BY <1>1, <1>2
<1>4. n \notin DOMAIN answered[u]
  BY <1>1
<1> HIDE DEF n
<1>5. Given(answered') = Given(answered) \cup {<<u, n>>}
  <2>1. ASSUME NEW x \in Users, NEW i \in DOMAIN answered'[x]
        PROVE  <<x, i>> \in Given(answered) \cup {<<u, n>>}
    BY <1>2, <1>3 DEF Given
  <2>2. ASSUME NEW x \in Users, NEW i \in DOMAIN answered[x]
        PROVE  <<x, i>> \in Given(answered')
    BY <1>2, <1>3 DEF Given
  <2>3. <<u, n>> \in Given(answered')
    BY <1>3 DEF Given
  <2>4. QED BY <2>1, <2>2, <2>3 DEF Given
<1>6. <<u, n>> \notin Given(answered)
  BY <1>4 DEF Given
<1>7. QED BY <1>5, <1>6, FS_AddElement

\* Every step keeps the count: a request that is read is one more answer or
\* one more entry of the map.
LEMMA CountKept == ASSUME IInv, [Next]_vars PROVE CountInv'
<1>1. ASSUME UNCHANGED <<sMessageId, sActiveRequestMap, answered>> PROVE CountInv'
  BY <1>1 DEF IInv, CountInv, RequestsAccounted, Given
<1>2. ASSUME NEW u \in Users, NEW success \in BOOLEAN, ReadRequest(u, success) PROVE CountInv'
  <2> DEFINE new == Head(toServer[u])
  <2>1. /\ new \in Call /\ sMessageId' = sMessageId + 1
        /\ AnswerAtOnce(u, new) \/ NoAnswer(u, new)
    BY <1>2, ReadRequestEffect DEF IInv
  <2> HIDE DEF new
  <2>2. /\ IsFiniteSet(DOMAIN sActiveRequestMap) /\ IsFiniteSet(Given(answered))
        /\ sMessageId = Cardinality(DOMAIN sActiveRequestMap) + Cardinality(Given(answered))
        /\ \A id \in DOMAIN sActiveRequestMap : ~sActiveRequestMap[id].call.query
    BY DEF IInv, CountInv, RequestsAccounted, Given
  <2>3. /\ Cardinality(DOMAIN sActiveRequestMap) \in Nat
        /\ Cardinality(Given(answered)) \in Nat
    BY <2>2, FS_CardinalityType
  <2>4. CASE AnswerAtOnce(u, new)
    <3>1. /\ IsFiniteSet(Given(answered'))
          /\ Cardinality(Given(answered')) = Cardinality(Given(answered)) + 1
      BY <2>1, <2>2, <2>4, AnswerIsGiven DEF AnswerAtOnce, IInv
    <3>2. sActiveRequestMap' = sActiveRequestMap
      BY <2>4 DEF AnswerAtOnce
    <3>3. sMessageId' = Cardinality(DOMAIN sActiveRequestMap') + Cardinality(Given(answered'))
      BY <2>1, <2>2, <2>3, <3>1, <3>2
    <3>4. QED BY <2>2, <3>1, <3>2, <3>3 DEF CountInv, RequestsAccounted, Given
  <2>5. CASE NoAnswer(u, new)
    <3>1. sMessageId \notin DOMAIN sActiveRequestMap
      BY DEF IInv, TypeOK
    <3>2. DOMAIN sActiveRequestMap' = DOMAIN sActiveRequestMap \cup {sMessageId}
      BY <2>5 DEF NoAnswer
    <3>3. /\ IsFiniteSet(DOMAIN sActiveRequestMap')
          /\ Cardinality(DOMAIN sActiveRequestMap') = Cardinality(DOMAIN sActiveRequestMap) + 1
      <4> DEFINE D == DOMAIN sActiveRequestMap
      <4> HIDE DEF D
      <4>1. /\ IsFiniteSet(D \cup {sMessageId})
            /\ Cardinality(D \cup {sMessageId}) = IF sMessageId \in D THEN Cardinality(D)
                                                                     ELSE Cardinality(D) + 1
        BY <2>2, FS_AddElement DEF D
      <4>2. QED BY <3>1, <3>2, <4>1 DEF D
    <3>4. answered' = answered
      BY <2>5 DEF NoAnswer
    <3>5. \A id \in DOMAIN sActiveRequestMap' : ~sActiveRequestMap'[id].call.query
      BY <2>2, <2>5, <3>1 DEF NoAnswer
    <3>6. sMessageId' = Cardinality(DOMAIN sActiveRequestMap') + Cardinality(Given(answered'))
      BY <2>1, <2>2, <2>3, <3>3, <3>4
    <3>7. QED BY <2>2, <3>3, <3>4, <3>5, <3>6 DEF CountInv, RequestsAccounted, Given
  <2>6. QED BY <2>1, <2>4, <2>5
<1>3. ASSUME NEW u \in Users, User(u) PROVE UNCHANGED <<sMessageId, sActiveRequestMap, answered>>
  BY <1>3 DEF User, Connect, Begin, SendPayload, TakeMessage, GiveUp, ProcessMessages, Exit,
              serverVars
<1>4. ASSUME Select \/ RemoveInactiveClients \/ SendEvent \/ Stop \/ UNCHANGED vars
                \/ (\E u \in Users : AcceptClient(u) \/ ReadEnd(u))
      PROVE  UNCHANGED <<sMessageId, sActiveRequestMap, answered>>
  BY <1>4 DEF Select, RemoveInactiveClients, SendEvent, Stop, AcceptClient, ReadEnd, vars, serverVars
<1>5. QED BY <1>1, <1>2, <1>3, <1>4 DEF Next, Process

-----------------------------------------------------------------------------
(* A call returns its own answer.                                          *)

\* Every step keeps what is on its way to a process that called alone: the
\* answer to the one request there is, and events.
LEMMA OwnKept == ASSUME IInv, [Next]_vars PROVE OwnInv'
<1>0. \A u \in Users : /\ toServer[u] \in Seq(Call) /\ toUser[u] \in Seq(Message)
                       /\ alone[u] => /\ OnTheWay(toServer[u], toUser[u], call[u])
                                      /\ result[u] \in {None, call[u]}
  BY DEF IInv, OwnInv, TypeOK
<1>1. ASSUME UNCHANGED <<toServer, toUser, alone, call, result>> PROVE OwnInv'
  BY <1>1 DEF IInv, OwnInv
\* Messages that are no answers to another call may come at any time.
<1>2. ASSUME NEW us, NEW m \in Message, SendTo(us, m), UNCHANGED <<alone, call, result>>,
             \A u \in us \cap Users : alone[u] => ResultOf(m) \in {None, call[u]},
             \A u \in Users : alone[u] => \A i \in DOMAIN toServer'[u] : toServer'[u][i] = call[u]
      PROVE  OwnInv'
  <2>1. SUFFICES ASSUME NEW u \in Users, alone[u]
                 PROVE  \A i \in DOMAIN toUser'[u] : ResultOf(toUser'[u][i]) \in {None, call[u]}
    BY <1>0, <1>2 DEF OwnInv, OnTheWay
  <2>2. CASE toUser'[u] = toUser[u]
    BY <1>0, <2>1, <2>2 DEF OnTheWay
  <2>3. CASE u \in us /\ toUser'[u] = Append(toUser[u], m)
    <3>1. \A i \in DOMAIN toUser[u] : ResultOf(toUser[u][i]) \in {None, call[u]}
      BY <1>0, <2>1 DEF OnTheWay
    <3>2. /\ DOMAIN toUser[u] = 1..Len(toUser[u]) /\ Len(toUser[u]) \in Nat
          /\ DOMAIN Append(toUser[u], m) = 1..(Len(toUser[u]) + 1)
          /\ \A i \in DOMAIN Append(toUser[u], m) :
                Append(toUser[u], m)[i] = IF i = Len(toUser[u]) + 1 THEN m ELSE toUser[u][i]
      BY <1>0, AppendAt
    <3>3. ResultOf(m) \in {None, call[u]}
      BY <1>2, <2>1, <2>3
    <3>4. QED BY <2>3, <3>1, <3>2, <3>3
  <2>4. QED BY <1>2, <2>2, <2>3 DEF SendTo
<1>3. ASSUME NEW u \in Users,
             Connect(u) \/ SendPayload(u) \/ GiveUp(u)
      PROVE  OwnInv'
  BY <1>1, <1>3 DEF Connect, SendPayload, GiveUp
<1>4. ASSUME Select \/ RemoveInactiveClients \/ UNCHANGED vars
                \/ (\E u \in Users : AcceptClient(u) \/ ReadEnd(u))
      PROVE  OwnInv'
  BY <1>1, <1>4 DEF Select, RemoveInactiveClients, AcceptClient, ReadEnd, vars, userVars
<1>5. ASSUME NEW u \in Users, NEW query \in BOOLEAN, NEW withResult \in BOOLEAN,
             Begin(u, query, withResult)
      PROVE  OwnInv'
  <2> DEFINE new == [user |-> u, number |-> Number(u), query |-> query]
  <2>1. /\ call'[u] = new /\ result'[u] = None
        /\ toServer'[u] = Append(toServer[u], new) /\ toUser' = toUser
        /\ alone'[u] => toServer[u] = <<>> /\ toUser[u] = <<>>
    BY <1>5 DEF Begin, IInv, TypeOK
  <2>2. \A x \in Users \ {u} :
           /\ call'[x] = call[x] /\ result'[x] = result[x]
           /\ toServer'[x] = toServer[x] /\ alone'[x] = alone[x]
    BY <1>5 DEF Begin, IInv, TypeOK
  <2> HIDE DEF new
  <2>3. ASSUME alone'[u] PROVE OnTheWay(toServer'[u], toUser'[u], call'[u])
    <3>1. toServer'[u] = Append(<<>>, new) /\ toUser'[u] = <<>>
      BY <2>1, <2>3
    <3>2. new \in Call
      BY NumberType DEF new, Call, IInv
    <3>3. \A i \in DOMAIN Append(<<>>, new) : Append(<<>>, new)[i] = new
      BY <3>2, AppendAt, EmptySeq
    <3>4. DOMAIN <<>> = {}
      OBVIOUS
    <3>5. QED BY <2>1, <3>1, <3>3, <3>4 DEF OnTheWay
  <2>4. QED BY <1>0, <2>1, <2>2, <2>3 DEF OwnInv
<1>6. ASSUME NEW u \in Users, TakeMessage(u) \/ ProcessMessages(u) PROVE OwnInv'
  <2>1. /\ toUser[u] # <<>> /\ toUser' = [toUser EXCEPT ![u] = Tail(@)]
        /\ UNCHANGED <<toServer, alone, call>>
        /\ result' = result \/ result' = [result EXCEPT ![u] = ResultOf(Head(toUser[u]))]
    BY <1>6 DEF TakeMessage, ProcessMessages, userVars
  <2>2. /\ DOMAIN Tail(toUser[u]) = 1..(Len(toUser[u]) - 1)
        /\ \A i \in DOMAIN Tail(toUser[u]) :
              i + 1 \in DOMAIN toUser[u] /\ Tail(toUser[u])[i] = toUser[u][i + 1]
        /\ Head(toUser[u]) = toUser[u][1] /\ 1 \in DOMAIN toUser[u]
    BY <1>0, <2>1, TailAt
  <2>3. /\ toUser'[u] = Tail(toUser[u])
        /\ result'[u] = result[u] \/ result'[u] = ResultOf(Head(toUser[u]))
        /\ \A x \in Users \ {u} : toUser'[x] = toUser[x] /\ result'[x] = result[x]
    BY <2>1 DEF IInv, TypeOK
  <2>4. ASSUME alone[u]
        PROVE  OnTheWay(toServer[u], Tail(toUser[u]), call[u]) /\ result'[u] \in {None, call[u]}
    BY SMTT(20), <1>0, <2>2, <2>3, <2>4 DEF OnTheWay
  <2>5. QED BY <1>0, <2>1, <2>3, <2>4 DEF OwnInv
<1>7. ASSUME NEW u \in Users, Exit(u) PROVE OwnInv'
  <2>1. /\ alone'[u] = FALSE /\ toServer' = toServer
        /\ \A x \in Users \ {u} : /\ call'[x] = call[x] /\ result'[x] = result[x]
                                 /\ toUser'[x] = toUser[x] /\ alone'[x] = alone[x]
    BY <1>7 DEF Exit, IInv, TypeOK
  <2>2. QED BY <1>0, <2>1 DEF OwnInv
<1>8. ASSUME NEW u \in Users, NEW success \in BOOLEAN, ReadRequest(u, success) PROVE OwnInv'
  <2> DEFINE new == Head(toServer[u])
  <2>1. /\ toServer[u] # <<>> /\ UNCHANGED <<call, result, alone>>
        /\ toServer' = [toServer EXCEPT ![u] = Tail(@)]
    BY <1>8 DEF ReadRequest, userVars
  <2>2. /\ \A i \in DOMAIN Tail(toServer[u]) :
              i + 1 \in DOMAIN toServer[u] /\ Tail(toServer[u])[i] = toServer[u][i + 1]
        /\ new = toServer[u][1] /\ 1 \in DOMAIN toServer[u] /\ new \in Call
    BY <1>0, <2>1, TailAt
  <2>3. \A x \in Users : alone[x] => \A i \in DOMAIN toServer'[x] : toServer'[x][i] = call[x]
    <3>1. /\ toServer'[u] = Tail(toServer[u])
          /\ \A x \in Users \ {u} : toServer'[x] = toServer[x]
      BY <2>1 DEF IInv, TypeOK
    <3>2. ASSUME alone[u], NEW i \in DOMAIN toServer'[u] PROVE toServer'[u][i] = call[u]
      <4>1. \A k \in DOMAIN toServer[u] : toServer[u][k] = call[u]
        BY <1>0, <3>2 DEF OnTheWay
      <4>2. QED BY <2>2, <3>1, <3>2, <4>1
    <3>3. ASSUME NEW x \in Users \ {u}, alone[x]
          PROVE  \A i \in DOMAIN toServer'[x] : toServer'[x][i] = call[x]
      BY <1>0, <3>1, <3>3 DEF OnTheWay
    <3>4. QED BY <3>2, <3>3
  <2>4. alone[u] => new = call[u]
    BY <1>0, <2>2 DEF OnTheWay
  <2>5. AnswerAtOnce(u, new) \/ NoAnswer(u, new)
    BY <1>8, ReadRequestEffect DEF IInv
  <2> HIDE DEF new
  <2>6. CASE AnswerAtOnce(u, new)
    <3>1. PICK type \in {"response", "error"} : SendTo({u}, [type |-> type, call |-> new])
      BY <2>6 DEF AnswerAtOnce
    <3>2. [type |-> type, call |-> new] \in Message
      BY <2>2 DEF Message
    <3>3. alone[u] => ResultOf([type |-> type, call |-> new]) \in {None, call[u]}
      BY <2>4 DEF ResultOf
    <3>4. QED BY <1>2, <2>1, <2>3, <3>1, <3>2, <3>3
  <2>7. CASE NoAnswer(u, new)
    BY <1>0, <2>1, <2>3, <2>7 DEF NoAnswer, OwnInv, OnTheWay
  <2>8. QED BY <2>5, <2>6, <2>7
<1>9. CASE SendEvent
  <2>1. [type |-> "event"] \in Message /\ ResultOf([type |-> "event"]) = None
    BY DEF Message, ResultOf
  <2>2. SendTo(mClients, [type |-> "event"]) /\ UNCHANGED <<alone, call, result, toServer>>
    BY <1>9 DEF SendEvent, userVars
  <2>3. \A u \in Users : alone[u] => \A i \in DOMAIN toServer'[u] : toServer'[u][i] = call[u]
    BY <1>0, <2>2 DEF OnTheWay
  <2>4. QED BY <1>2, <2>1, <2>2, <2>3
<1>10. CASE Stop
  <2>1. /\ UNCHANGED <<toUser, alone, call, result>>
        /\ \A u \in Users : toServer'[u] = <<>>
    BY <1>10 DEF Stop, userVars
  <2>2. DOMAIN <<>> = {}
    OBVIOUS
  <2>3. QED BY <1>0, <2>1, <2>2 DEF OwnInv, OnTheWay
<1>11. QED
  BY <1>3, <1>4, <1>5, <1>6, <1>7, <1>8, <1>9, <1>10 DEF Next, Process, User

-----------------------------------------------------------------------------
(* The theorems.                                                           *)

\* At the start nothing has been asked.
LEMMA InitInv == Init => IInv
<1> SUFFICES ASSUME Init PROVE IInv
  OBVIOUS
<1> USE IpcAssumption
<1>1. \A S : <<>> \in Seq(S)
  BY EmptySeq
<1>2. DOMAIN <<>> = {} /\ DOMAIN NoRequests = {}
  BY DEF NoRequests
<1>3. TypeOK
  <2>1. sActiveRequestMap = [id \in DOMAIN sActiveRequestMap |-> sActiveRequestMap[id]]
    BY DEF Init, NoRequests
  <2>2. DOMAIN sActiveRequestMap = {}
    BY <1>2 DEF Init
  <2>3. toServer \in [Users -> Seq(Call)] /\ toUser \in [Users -> Seq(Message)]
        /\ answered \in [Users -> Seq(Call)]
    BY <1>1 DEF Init
  <2>4. /\ partial \in [Users -> BOOLEAN] /\ alone \in [Users -> BOOLEAN]
        /\ active \in BOOLEAN /\ polling \in BOOLEAN
    BY Zenon DEF Init
  <2>5. /\ user \in [Users -> {"started", "idle", "sending", "calling", "waiting", "gone"}]
        /\ call \in [Users -> Call \cup {None}]
        /\ result \in [Users -> Call \cup {None}]
    BY DEF Init
  <2>6. /\ backlog \subseteq Users /\ mClients \subseteq Users /\ ready \subseteq Users
        /\ sClientsToRemove \subseteq Users
        /\ sMessageId \in Nat /\ events \in 0..MaxEvents
    BY DEF Init
  <2>7. \A id \in DOMAIN sActiveRequestMap :
           id \in Nat /\ id < sMessageId /\ sActiveRequestMap[id] \in [fd : Users, call : Call]
    BY <2>2
  <2>8. QED BY <2>1, <2>3, <2>4, <2>5, <2>6, <2>7 DEF TypeOK
<1>4. OrderInv
  <2>1. \A u \in Users : toServer[u] = <<>> /\ answered[u] = <<>>
    BY DEF Init
  <2>2. QED BY <1>2, <2>1 DEF OrderInv, Ordered, Earlier
<1>5. CountInv
  <2>1. Given(answered) = {}
    BY <1>2 DEF Init, Given
  <2>2. DOMAIN sActiveRequestMap = {} /\ sMessageId = 0
    BY <1>2 DEF Init
  <2>3. IsFiniteSet({}) /\ Cardinality({}) = 0
    BY FS_EmptySet
  <2>4. sMessageId = Cardinality(DOMAIN sActiveRequestMap) + Cardinality(Given(answered))
    BY <2>1, <2>2, <2>3
  <2>5. \A id \in DOMAIN sActiveRequestMap : ~sActiveRequestMap[id].call.query
    BY <2>2
  <2>6. RequestsAccounted
    BY <2>4, <2>5 DEF RequestsAccounted, Given
  <2>7. QED BY <2>1, <2>2, <2>3, <2>6 DEF CountInv
<1>6. OwnInv
  BY DEF Init, OwnInv
<1>7. QED BY <1>3, <1>4, <1>5, <1>6 DEF IInv

\* The inductive invariant.
THEOREM IpcInvariance == Spec => []IInv
<1>1. ASSUME IInv, [Next]_vars PROVE IInv'
  BY <1>1, TypesKept, OrderKept, CountKept, OwnKept DEF IInv
<1>2. QED BY <1>1, InitInv, PTL DEF Spec

\* Every answer goes to the process that asked, in the order of its calls and
\* once (sendMessage() and sActiveRequestMap).
THEOREM AnswersStayInOrder == Spec => []AnswersInOrder
<1>1. IInv => AnswersInOrder
  BY DEF IInv, OrderInv, Ordered, AnswersInOrder
<1>2. QED BY <1>1, IpcInvariance, PTL

\* Every request is answered or in sActiveRequestMap, and no query stays there.
THEOREM RequestsStayAccounted == Spec => []RequestsAccounted
<1>1. IInv => RequestsAccounted
  BY DEF IInv, CountInv
<1>2. QED BY <1>1, IpcInvariance, PTL

\* A result is the call's own when nothing was on its way before
\* (callMethodWithResult(), which matches no ids).
THEOREM ResultStaysOwn == Spec => []OwnResult
<1>1. IInv => OwnResult
  BY DEF IInv, OwnInv, OwnResult
<1>2. QED BY <1>1, IpcInvariance, PTL

-----------------------------------------------------------------------------
(* The values of a call.                                                   *)

Names == {"x", "y", "w", "h", "sx", "sy"}

\* The doubles there are.
Doubled == DOMAIN sixDigits

Placement == [x : Int, y : Int, w : Nat, h : Nat, sx : Doubled, sy : Doubled]

\* Numbers that an integer of so many bits can be.
InRange(b) == /\ Values!Signed(b.x) = b.x /\ Values!Signed(b.y) = b.y
              /\ Values!Wrapped(b.w) = b.w /\ Values!Wrapped(b.h) = b.h

Int32(d) == \E n \in Int : d = Values!Data("int32", n) /\ Values!Signed(n) = n

Double(d) == \E n \in Doubled : d = Values!Data("double", n)

\* What a process passes, and where the display was.
GivenInv ==
    /\ method \in {"setBounds", "setScale", "addAnimation"}
    /\ before \in Placement /\ InRange(before)
    /\ \A p \in {"x", "y", "w", "h"} : p \in DOMAIN given => Int32(given[p])
    /\ \A p \in {"sx", "sy"} : p \in DOMAIN given => Double(given[p])
    /\ method = "setBounds" => DOMAIN given \cap {"sx", "sy"} = {}
    /\ method = "setScale" => DOMAIN given \cap {"x", "y", "w", "h"} = {}

\* What a property of the display is to be, but that a text has only so many digits.
Target(p) == IF Values!Passed(p) THEN Values!Meaning(p, given[p]) ELSE before[p]

OnTarget ==
    \A p \in Names : \/ Values!Legible(p, display[p]) = Values!Legible(p, Target(p))
                     \/ Values!Resized /\ p \in {"w", "h"}

StepInv ==
    /\ step \in {"calling", "called", "animated", "set", "answered",
                 "server aborted", "client aborted"}
    /\ display \in Placement /\ InRange(display)
    /\ step \in {"calling", "called", "server aborted"} => display = before
    /\ step = "called" => /\ Values!Mandatory(method) \subseteq DOMAIN given
                          /\ request = Values!prepareRequestParameters(method, given)
    /\ step \in {"animated", "set", "answered", "client aborted"} => OnTarget
    /\ step = "answered" =>
          \A p \in Names : Values!Meaning(p, data[p]) = Values!Legible(p, display[p])
    /\ step = "server aborted" => /\ method = "addAnimation" /\ Values!Passed("sx")
                                  /\ ~Values!Whole(sixDigits[given["sx"].n])
    /\ step = "client aborted" => display.x < 0 \/ display.y < 0

ValuesInv == GivenInv /\ StepInv

\* A number read signed after it was written unsigned is the same.
LEMMA SignedSurvives ==
    ASSUME Values!ParametersAssumption, NEW n \in Int, Values!Signed(n) = n
    PROVE  /\ Values!Wrapped(n) \in Nat
           /\ Values!Signed(Values!Wrapped(n)) = n
           /\ Values!Wrapped(Values!Wrapped(n)) = Values!Wrapped(n)
<1>1. Word \in Nat /\ Word > 0
  BY DEF Values!ParametersAssumption
<1>2. n % Word \in 0..(Word - 1)
  BY <1>1
<1>3. \A m \in 0..(Word - 1) : m % Word = m
  BY <1>1
<1>4. (n % Word) % Word = n % Word
  BY <1>2, <1>3
<1>5. QED BY <1>2, <1>4 DEF Values!Signed, Values!Wrapped

\* Six digits of a double are those of a double there is, and their own six digits.
LEMMA SixDigitsStay ==
    ASSUME Values!ParametersAssumption, NEW d \in Doubled
    PROVE  d \in Nat /\ sixDigits[d] \in Doubled /\ sixDigits[sixDigits[d]] = sixDigits[d]
BY DEF Values!ParametersAssumption, Doubled

LEMMA WholeIsUnits ==
    ASSUME NEW unit \in Nat \ {0}, NEW d \in Nat, d % unit = 0
    PROVE  d \div unit \in Nat /\ unit * (d \div unit) = d
OBVIOUS

\* A double written in decimal, with a fraction or without, is read as its six digits.
LEMMA DecimalSurvives ==
    ASSUME Values!ParametersAssumption, NEW d \in Doubled
    PROVE  LET text == Values!DoubleText(d)
           IN  /\ Values!toDouble(text) = sixDigits[d]
               /\ Values!IsUint(text) => Unit * text.n = sixDigits[d]
               /\ ~Values!IsUint(text) => ~Values!Whole(sixDigits[d])
<1> DEFINE r == sixDigits[d]
<1>1. r \in Nat /\ Unit \in Nat \ {0}
  BY SixDigitsStay DEF Values!ParametersAssumption
<1>2. Values!DoubleText(d)
        = IF Values!Whole(r) THEN Values!IntegerText(r \div Unit) ELSE Values!Data("double", r)
  BY DEF Values!DoubleText
<1> HIDE DEF r
<1>3. CASE Values!Whole(r)
  <2>1. r \div Unit \in Nat /\ Unit * (r \div Unit) = r
    BY <1>1, <1>3, WholeIsUnits DEF Values!Whole
  <2>2. Values!DoubleText(d) = Values!Data("uint", r \div Unit)
    BY <1>2, <1>3, <2>1 DEF Values!IntegerText
  <2>3. /\ Values!Data("uint", r \div Unit).type = "uint"
        /\ Values!Data("uint", r \div Unit).n = r \div Unit
    BY DEF Values!Data
  <2>4. QED BY <2>1, <2>2, <2>3 DEF Values!toDouble, Values!IsUint, r
<1>4. CASE ~Values!Whole(r)
  <2>1. Values!DoubleText(d) = Values!Data("double", r)
    BY <1>2, <1>4
  <2>2. /\ Values!Data("double", r).type = "double"
        /\ Values!Data("double", r).n = r
    BY DEF Values!Data
  <2>3. QED BY <1>4, <2>1, <2>2 DEF Values!toDouble, Values!IsUint, r
<1>5. QED BY <1>3, <1>4

\* What a parameter means and what becomes of it in a request.
LEMMA MeaningOfInt32 ==
    ASSUME Values!ParametersAssumption, NEW d, Int32(d)
    PROVE  LET json == Values!populateParameterValue("u", d)
           IN  /\ Values!IsUint(json) /\ json.n \in Nat
               /\ \A p \in {"x", "y"} : /\ Values!Meaning(p, d) \in Int
                                        /\ Values!Signed(Values!Meaning(p, d)) = Values!Meaning(p, d)
                                        /\ Values!Signed(json.n) = Values!Meaning(p, d)
               /\ \A p \in {"w", "h"} : /\ Values!Meaning(p, d) = json.n
                                        /\ Values!Wrapped(json.n) = json.n
<1>1. PICK n \in Int : d = Values!Data("int32", n) /\ Values!Signed(n) = n
  BY DEF Int32
<1>2. d.type = "int32" /\ d.n = n
  BY <1>1 DEF Values!Data
<1>3. /\ Values!Wrapped(n) \in Nat /\ Values!Signed(Values!Wrapped(n)) = n
      /\ Values!Wrapped(Values!Wrapped(n)) = Values!Wrapped(n)
  BY <1>1, SignedSurvives
<1>4. Values!toInteger32(d) = n /\ Values!toUnsignedInteger32(d) = Values!Wrapped(n)
  BY <1>1, <1>2 DEF Values!toInteger32, Values!toUnsignedInteger32
<1>5. Values!populateParameterValue("u", d) = Values!Data("uint", Values!Wrapped(n))
  BY <1>3, <1>4 DEF Values!populateParameterValue, Values!IntegerText
<1>6. /\ Values!Data("uint", Values!Wrapped(n)).type = "uint"
      /\ Values!Data("uint", Values!Wrapped(n)).n = Values!Wrapped(n)
  BY DEF Values!Data
<1>7. /\ \A p \in {"x", "y"} : Values!Meaning(p, d) = n
      /\ \A p \in {"w", "h"} : Values!Meaning(p, d) = Values!Wrapped(n)
  BY <1>4 DEF Values!Meaning
<1>8. QED BY <1>1, <1>3, <1>5, <1>6, <1>7 DEF Values!IsUint

LEMMA MeaningOfDouble ==
    ASSUME Values!ParametersAssumption, NEW d, Double(d)
    PROVE  LET json == Values!populateParameterValue("f", d)
           IN  \A p \in {"sx", "sy"} :
                  /\ Values!Meaning(p, d) \in Doubled
                  /\ Values!GetDouble(json) = sixDigits[Values!Meaning(p, d)]
                  /\ Values!IsUint(json) => Unit * json.n = sixDigits[Values!Meaning(p, d)]
                  /\ ~Values!IsUint(json) => ~Values!Whole(sixDigits[d.n])
<1>1. PICK n \in Doubled : d = Values!Data("double", n)
  BY DEF Double
<1>2. d.type = "double" /\ d.n = n
  BY <1>1 DEF Values!Data
<1>3. Values!toDouble(d) = n
  BY <1>2 DEF Values!toDouble
<1>4. Values!populateParameterValue("f", d) = Values!DoubleText(n)
  BY <1>3 DEF Values!populateParameterValue
<1>5. \A p \in {"sx", "sy"} : Values!Meaning(p, d) = n
  BY <1>3 DEF Values!Meaning
<1>6. QED BY <1>2, <1>4, <1>5, DecimalSurvives DEF Values!GetDouble

\* What is in a request, by the table of a method's parameters.
LEMMA RequestOf ==
    ASSUME NEW m, NEW params, NEW info, info = Values!sParameterInfo[m],
           \A p, q \in DOMAIN info : info[p].index = info[q].index => p = q
    PROVE  LET r == Values!prepareRequestParameters(m, params)
           IN  /\ \A p \in DOMAIN info : info[p].index \in DOMAIN r <=> p \in DOMAIN params
               /\ \A p \in DOMAIN info \cap DOMAIN params :
                     r[info[p].index] = Values!populateParameterValue(info[p].type, params[p])
               /\ \A i \in DOMAIN r : \E p \in DOMAIN info \cap DOMAIN params : info[p].index = i
<1> DEFINE used == DOMAIN params \cap DOMAIN info
           At(i) == CHOOSE q \in used : info[q].index = i
           indices == {info[p].index : p \in used}
           r == [i \in indices |-> Values!populateParameterValue(info[At(i)].type, params[At(i)])]
<1>1. Values!prepareRequestParameters(m, params) = r
  BY DEF Values!prepareRequestParameters
<1>2. \A p \in used : At(info[p].index) = p
  OBVIOUS
<1>3. DOMAIN r = indices
  OBVIOUS
<1>4. \A p \in used : r[info[p].index] = Values!populateParameterValue(info[p].type, params[p])
  BY <1>2
<1> HIDE DEF r, At
<1>5. QED BY <1>1, <1>3, <1>4

\* The table of setBounds(), that of setScale() and that of addAnimation(), where
\* the height is missing.
LEMMA Tables ==
    LET bounds    == Values!sParameterInfo["setBounds"]
        scale     == Values!sParameterInfo["setScale"]
        animation == Values!sParameterInfo["addAnimation"]
    IN  /\ DOMAIN bounds = {"client", "x", "y", "w", "h"}
        /\ bounds["client"] = Values!Parameter(0, TRUE, "s")
        /\ bounds["x"] = Values!Parameter(1, FALSE, "u")
        /\ bounds["y"] = Values!Parameter(2, FALSE, "u")
        /\ bounds["w"] = Values!Parameter(3, FALSE, "u")
        /\ bounds["h"] = Values!Parameter(4, FALSE, "u")
        /\ DOMAIN scale = {"client", "sx", "sy"}
        /\ scale["client"] = Values!Parameter(0, TRUE, "s")
        /\ scale["sx"] = Values!Parameter(1, FALSE, "f")
        /\ scale["sy"] = Values!Parameter(2, FALSE, "f")
        /\ DOMAIN animation = {"client", "duration", "x", "y", "w", "sx", "sy"}
        /\ animation["client"] = Values!Parameter(0, TRUE, "s")
        /\ animation["duration"] = Values!Parameter(1, TRUE, "u")
        /\ animation["x"] = Values!Parameter(2, FALSE, "u")
        /\ animation["y"] = Values!Parameter(3, FALSE, "u")
        /\ animation["w"] = Values!Parameter(5, FALSE, "u")
        /\ animation["sx"] = Values!Parameter(6, FALSE, "f")
        /\ animation["sy"] = Values!Parameter(7, FALSE, "f")
BY DEF Values!sParameterInfo

LEMMA ParameterFields ==
    \A i, mandatory, type : /\ Values!Parameter(i, mandatory, type).index = i
                            /\ Values!Parameter(i, mandatory, type).type = type
BY DEF Values!Parameter

\* What a request of setBounds() carries, and where.
LEMMA BoundsRequest ==
    LET r == Values!prepareRequestParameters("setBounds", given)
    IN  /\ DOMAIN r \subseteq 0..4
        /\ 1 \in DOMAIN r <=> "x" \in DOMAIN given
        /\ 2 \in DOMAIN r <=> "y" \in DOMAIN given
        /\ 3 \in DOMAIN r <=> "w" \in DOMAIN given
        /\ 4 \in DOMAIN r <=> "h" \in DOMAIN given
        /\ "x" \in DOMAIN given => r[1] = Values!populateParameterValue("u", given["x"])
        /\ "y" \in DOMAIN given => r[2] = Values!populateParameterValue("u", given["y"])
        /\ "w" \in DOMAIN given => r[3] = Values!populateParameterValue("u", given["w"])
        /\ "h" \in DOMAIN given => r[4] = Values!populateParameterValue("u", given["h"])
<1> DEFINE info == Values!sParameterInfo["setBounds"]
           r == Values!prepareRequestParameters("setBounds", given)
<1>1. /\ DOMAIN info = {"client", "x", "y", "w", "h"}
      /\ info["client"].index = 0
      /\ info["x"].index = 1 /\ info["x"].type = "u"
      /\ info["y"].index = 2 /\ info["y"].type = "u"
      /\ info["w"].index = 3 /\ info["w"].type = "u"
      /\ info["h"].index = 4 /\ info["h"].type = "u"
  BY DEF Values!sParameterInfo, Values!Parameter
<1> HIDE DEF info
<1>2. \A p, q \in DOMAIN info : info[p].index = info[q].index => p = q
  BY <1>1
<1>3. /\ \A p \in DOMAIN info : info[p].index \in DOMAIN r <=> p \in DOMAIN given
      /\ \A p \in DOMAIN info \cap DOMAIN given :
            r[info[p].index] = Values!populateParameterValue(info[p].type, given[p])
      /\ \A i \in DOMAIN r : \E p \in DOMAIN info \cap DOMAIN given : info[p].index = i
  BY <1>2, RequestOf DEF info
<1> HIDE DEF r
<1>4. DOMAIN r \subseteq 0..4
  BY <1>1, <1>3
<1>5. QED BY <1>1, <1>3, <1>4 DEF r

LEMMA ScaleRequest ==
    LET r == Values!prepareRequestParameters("setScale", given)
    IN  /\ 1 \in DOMAIN r <=> "sx" \in DOMAIN given
        /\ 2 \in DOMAIN r <=> "sy" \in DOMAIN given
        /\ "sx" \in DOMAIN given => r[1] = Values!populateParameterValue("f", given["sx"])
        /\ "sy" \in DOMAIN given => r[2] = Values!populateParameterValue("f", given["sy"])
<1> DEFINE info == Values!sParameterInfo["setScale"]
           r == Values!prepareRequestParameters("setScale", given)
<1>1. /\ DOMAIN info = {"client", "sx", "sy"}
      /\ info["client"].index = 0
      /\ info["sx"].index = 1 /\ info["sx"].type = "f"
      /\ info["sy"].index = 2 /\ info["sy"].type = "f"
  BY DEF Values!sParameterInfo, Values!Parameter
<1> HIDE DEF info
<1>2. \A p, q \in DOMAIN info : info[p].index = info[q].index => p = q
  BY <1>1
<1>3. /\ \A p \in DOMAIN info : info[p].index \in DOMAIN r <=> p \in DOMAIN given
      /\ \A p \in DOMAIN info \cap DOMAIN given :
            r[info[p].index] = Values!populateParameterValue(info[p].type, given[p])
  BY <1>2, RequestOf DEF info
<1> HIDE DEF r
<1>4. QED BY <1>1, <1>3 DEF r

\* Nothing has the index of the height.
LEMMA AnimationRequest ==
    LET r == Values!prepareRequestParameters("addAnimation", given)
    IN  /\ 4 \notin DOMAIN r
        /\ 2 \in DOMAIN r <=> "x" \in DOMAIN given
        /\ 3 \in DOMAIN r <=> "y" \in DOMAIN given
        /\ 5 \in DOMAIN r <=> "w" \in DOMAIN given
        /\ 6 \in DOMAIN r <=> "sx" \in DOMAIN given
        /\ 7 \in DOMAIN r <=> "sy" \in DOMAIN given
        /\ "x" \in DOMAIN given => r[2] = Values!populateParameterValue("u", given["x"])
        /\ "y" \in DOMAIN given => r[3] = Values!populateParameterValue("u", given["y"])
        /\ "w" \in DOMAIN given => r[5] = Values!populateParameterValue("u", given["w"])
        /\ "sx" \in DOMAIN given => r[6] = Values!populateParameterValue("f", given["sx"])
        /\ "sy" \in DOMAIN given => r[7] = Values!populateParameterValue("f", given["sy"])
<1> DEFINE info == Values!sParameterInfo["addAnimation"]
           r == Values!prepareRequestParameters("addAnimation", given)
<1>1. /\ DOMAIN info = {"client", "duration", "x", "y", "w", "sx", "sy"}
      /\ info["client"].index = 0 /\ info["duration"].index = 1
      /\ info["x"].index = 2 /\ info["x"].type = "u"
      /\ info["y"].index = 3 /\ info["y"].type = "u"
      /\ info["w"].index = 5 /\ info["w"].type = "u"
      /\ info["sx"].index = 6 /\ info["sx"].type = "f"
      /\ info["sy"].index = 7 /\ info["sy"].type = "f"
  BY DEF Values!sParameterInfo, Values!Parameter
<1> HIDE DEF info
<1>2. \A p, q \in DOMAIN info : info[p].index = info[q].index => p = q
  BY <1>1
<1>3. /\ \A p \in DOMAIN info : info[p].index \in DOMAIN r <=> p \in DOMAIN given
      /\ \A p \in DOMAIN info \cap DOMAIN given :
            r[info[p].index] = Values!populateParameterValue(info[p].type, given[p])
      /\ \A i \in DOMAIN r : \E p \in DOMAIN info \cap DOMAIN given : info[p].index = i
  BY <1>2, RequestOf DEF info
<1> HIDE DEF r
<1>4. 4 \notin DOMAIN r
  BY <1>1, <1>3
<1>5. QED BY <1>1, <1>3, <1>4 DEF r

-----------------------------------------------------------------------------
(* The steps of a call.                                                    *)

\* What is passed, what it is for and where the display was are for good.
LEMMA GivenForGood ==
    ASSUME UNCHANGED <<method, given, before>>
    PROVE  /\ GivenInv' = GivenInv
           /\ \A p \in Names : Target(p)' = Target(p)
           /\ \A p : Values!Passed(p)' = Values!Passed(p)
           /\ Values!Resized' = Values!Resized
BY DEF GivenInv, Int32, Double, Doubled, InRange, Target, Values!Passed, Values!Mandatory, Values!Resized,
       Values!Meaning, Values!Data, Values!Signed, Values!Wrapped, Values!toInteger32,
       Values!toUnsignedInteger32, Values!toDouble, Values!sParameterInfo, Values!Parameter

LEMMA InitIsGiven ==
    ASSUME Values!ParametersAssumption, Values!Init
    PROVE  ValuesInv
<1>1. PICK bounds \in Values!Given({"x", "y", "w", "h"}), scales \in Values!GivenScales,
           others \in SUBSET {"client", "duration"} :
          /\ method = "setBounds" => scales = Values!NoData
          /\ method = "setScale" => bounds = Values!NoData
          /\ given = Values!Merged(Values!Merged(bounds, scales),
                        [p \in others |-> IF p = "client" THEN Values!Client
                                                          ELSE Values!Data("int32", 1)])
  BY DEF Values!Init
<1>2. /\ DOMAIN bounds \subseteq {"x", "y", "w", "h"}
      /\ \A p \in DOMAIN bounds : Int32(bounds[p])
  <2>1. PICK passed \in SUBSET {"x", "y", "w", "h"} :
            bounds \in [passed -> {Values!Data("int32", n) : n \in Numbers}]
    BY <1>1 DEF Values!Given
  <2>2. \A n \in Numbers : n \in Int /\ Values!Signed(n) = n
    BY DEF Values!ParametersAssumption
  <2>3. QED BY <2>1, <2>2 DEF Int32
<1>3. /\ DOMAIN scales \subseteq {"sx", "sy"}
      /\ \A p \in DOMAIN scales : Double(scales[p])
  <2>1. PICK passed \in SUBSET {"sx", "sy"} :
            scales \in [passed -> {Values!Data("double", d) : d \in Doubles}]
    BY <1>1 DEF Values!GivenScales
  <2>2. Doubles \subseteq Doubled
    BY DEF Values!ParametersAssumption, Doubled
  <2>3. QED BY <2>1, <2>2 DEF Double
<1>4. DOMAIN Values!NoData = {}
  BY DEF Values!NoData
<1>5. DOMAIN given = DOMAIN bounds \cup DOMAIN scales \cup others
  BY <1>1 DEF Values!Merged
<1>6. /\ \A p \in DOMAIN bounds : given[p] = bounds[p]
      /\ \A p \in DOMAIN scales : given[p] = scales[p]
  <2> DEFINE first == Values!Merged(bounds, scales)
  <2>1. /\ DOMAIN first = DOMAIN bounds \cup DOMAIN scales
        /\ \A p \in DOMAIN bounds : first[p] = bounds[p]
        /\ \A p \in DOMAIN scales : first[p] = scales[p]
    BY <1>2, <1>3 DEF Values!Merged
  <2>2. \A p \in DOMAIN first : given[p] = first[p]
    BY <1>1, <2>1 DEF Values!Merged
  <2>3. QED BY <2>1, <2>2
<1>7. method \in {"setBounds", "setScale", "addAnimation"}
  BY DEF Values!Init, Values!sParameterInfo
<1>8. before \in Placement /\ InRange(before)
  BY DEF Values!Init, Values!ParametersAssumption, Placement, Doubled, InRange
<1>9. \A p \in {"x", "y", "w", "h"} : p \in DOMAIN given => Int32(given[p])
  BY <1>2, <1>3, <1>5, <1>6
<1>10. \A p \in {"sx", "sy"} : p \in DOMAIN given => Double(given[p])
  BY <1>2, <1>3, <1>5, <1>6
<1>11. /\ method = "setBounds" => DOMAIN given \cap {"sx", "sy"} = {}
       /\ method = "setScale" => DOMAIN given \cap {"x", "y", "w", "h"} = {}
  BY <1>1, <1>2, <1>3, <1>4, <1>5
<1>12. GivenInv
  BY <1>7, <1>8, <1>9, <1>10, <1>11 DEF GivenInv
<1>13. StepInv
  BY <1>8 DEF StepInv, Values!Init
<1>14. QED BY <1>12, <1>13 DEF ValuesInv

LEMMA CallKeepsValues ==
    ASSUME ValuesInv, Values!Call
    PROVE  ValuesInv'
<1>1. GivenInv'
  BY GivenForGood DEF Values!Call, ValuesInv
<1>2. display \in Placement /\ InRange(display) /\ display = before
  BY DEF Values!Call, ValuesInv, StepInv
<1>3. (display \in Placement /\ InRange(display) /\ display = before)'
  BY <1>2 DEF Values!Call, InRange, Values!Signed, Values!Wrapped
<1>4. (Values!Mandatory(method) \subseteq DOMAIN given)' /\ step' = "called"
  <2>1. Values!Mandatory(method)' = Values!Mandatory(method)
    BY DEF Values!Call, Values!Mandatory, Values!sParameterInfo, Values!Parameter
  <2>2. QED BY <2>1 DEF Values!Call
<1>5. (request = Values!prepareRequestParameters(method, given))'
  <2>1. Values!prepareRequestParameters(method, given)'
            = Values!prepareRequestParameters(method, given)
    <3>1. method' = method /\ given' = given
      BY DEF Values!Call
    <3>2. QED BY <3>1 DEF Values!prepareRequestParameters, Values!sParameterInfo, Values!Parameter,
           Values!populateParameterValue, Values!IntegerText, Values!DoubleText, Values!Whole,
           Values!toUnsignedInteger32, Values!toDouble, Values!Data, Values!Wrapped
  <2>2. QED BY <2>1 DEF Values!Call
<1>6. StepInv'
  BY <1>3, <1>4, <1>5 DEF StepInv
<1>7. QED BY <1>1, <1>6 DEF ValuesInv

\* Nothing counts as passed in a call that is refused.
LEMMA RefuseKeepsValues ==
    ASSUME ValuesInv, Values!Refuse
    PROVE  ValuesInv'
<1>1. GivenInv'
  BY GivenForGood DEF Values!Refuse, ValuesInv
<1>2. display \in Placement /\ InRange(display) /\ display = before
  BY DEF Values!Refuse, ValuesInv, StepInv
<1>3. (display \in Placement /\ InRange(display))'
  BY <1>2 DEF Values!Refuse, InRange, Values!Signed, Values!Wrapped
<1>4. \A p \in Names : Target(p) = before[p]
  BY DEF Values!Refuse, Values!Passed, Target
<1>5. \A p \in Names : Target(p)' = Target(p)
  BY GivenForGood DEF Values!Refuse
<1>6. OnTarget'
  BY <1>2, <1>4, <1>5 DEF Values!Refuse, OnTarget, Values!Legible
<1>7. step' = "set"
  BY DEF Values!Refuse
<1>8. StepInv'
  BY <1>3, <1>6, <1>7 DEF StepInv
<1>9. QED BY <1>1, <1>8 DEF ValuesInv

\* A place that was signed is so again after it was written unsigned; what the
\* screen bounds is not too large for its bits.
LEMMA KeptForms ==
    ASSUME Values!ParametersAssumption
    PROVE  /\ \A n \in Int : Values!Signed(n) = n => Values!Signed(Values!Wrapped(n)) = n
           /\ \A n \in Nat : Values!Wrapped(n) = n =>
                 /\ Values!OnScreen(n) \in Nat
                 /\ Values!Wrapped(Values!OnScreen(n)) = Values!OnScreen(n)
                 /\ n <= Screen => Values!OnScreen(n) = n
<1>1. Word \in Nat \ {0} /\ Screen \in Nat
  BY DEF Values!ParametersAssumption
<1>2. ASSUME NEW n \in Nat, n % Word = n, n > Screen
      PROVE  Screen % Word = Screen
  <2>1. n < Word
    BY <1>1, <1>2
  <2>2. Screen \in 0..(Word - 1)
    BY <1>1, <1>2, <2>1
  <2>3. QED BY <1>1, <2>2
<1>3. QED BY <1>1, <1>2, SignedSurvives DEF Values!OnScreen, Values!Wrapped

\* A place, as a function.
LEMMA PlaceIsFunction ==
    \A b \in Placement : b = [p \in Names |-> b[p]] /\ DOMAIN b = Names
BY DEF Placement, Names

\* What a handler has to make of the display.
IsSet(d) ==
    \A p \in Names : \/ Values!Legible(p, d[p]) = Values!Legible(p, Target(p))
                     \/ Values!Resized /\ p \in {"w", "h"}

\* What is needed of a display to be right after a handler.
LEMMA DisplayIsSet ==
    ASSUME NEW d, GivenInv, step = "called", StepInv,
           d = [p \in Names |-> d[p]],
           \A p \in {"x", "y"} : d[p] = Target(p),
           \A p \in {"w", "h"} :
              /\ d[p] \in Nat /\ Values!Wrapped(d[p]) = d[p]
              /\ d[p] = Target(p) \/ Values!Resized,
           \A p \in {"sx", "sy"} : d[p] \in Doubled /\ sixDigits[d[p]] = sixDigits[Target(p)],
           Values!ParametersAssumption
    PROVE  d \in Placement /\ InRange(d) /\ IsSet(d)
<1>1. \A p \in {"x", "y"} : Target(p) \in Int /\ Values!Signed(Target(p)) = Target(p)
  <2>1. ASSUME NEW p \in {"x", "y"}
        PROVE  Target(p) \in Int /\ Values!Signed(Target(p)) = Target(p)
    <3>1. CASE Values!Passed(p)
      <4>1. Int32(given[p])
        BY <3>1 DEF GivenInv, Values!Passed
      <4>2. Values!Meaning(p, given[p]) \in Int
            /\ Values!Signed(Values!Meaning(p, given[p])) = Values!Meaning(p, given[p])
        BY <4>1, MeaningOfInt32
      <4>3. QED BY <3>1, <4>2 DEF Target
    <3>2. CASE ~Values!Passed(p)
      BY <3>2 DEF Target, GivenInv, InRange, Placement
    <3>3. QED BY <3>1, <3>2
  <2>2. QED BY <2>1
<1>3. /\ d.x \in Int /\ d.y \in Int /\ d.w \in Nat /\ d.h \in Nat /\ d.sx \in Doubled /\ d.sy \in Doubled
      /\ Values!Signed(d.x) = d.x /\ Values!Signed(d.y) = d.y
      /\ Values!Wrapped(d.w) = d.w /\ Values!Wrapped(d.h) = d.h
  BY <1>1
<1>4. d \in Placement
  <2>1. d = [x |-> d.x, y |-> d.y, w |-> d.w, h |-> d.h, sx |-> d.sx, sy |-> d.sy]
    BY DEF Names
  <2>2. QED BY <1>3, <2>1 DEF Placement
<1>5. InRange(d)
  BY <1>3 DEF InRange
<1>6. IsSet(d)
  BY DEF IsSet, Names, Values!Legible
<1>7. QED BY <1>4, <1>5, <1>6

\* What is in hand while a request is handled.
LEMMA Handled ==
    ASSUME ValuesInv, Values!ParametersAssumption, step = "called"
    PROVE  /\ display = before /\ before \in Placement /\ InRange(before)
           /\ request = Values!prepareRequestParameters(method, given)
           /\ \A p : Values!Passed(p) <=> p \in DOMAIN given
           /\ \A p \in {"x", "y", "w", "h"} :
                 /\ p \in DOMAIN given => Int32(given[p]) /\ Target(p) = Values!Meaning(p, given[p])
                 /\ p \notin DOMAIN given => Target(p) = before[p]
           /\ \A p \in {"sx", "sy"} :
                 /\ p \in DOMAIN given => Double(given[p]) /\ Target(p) = Values!Meaning(p, given[p])
                 /\ p \notin DOMAIN given => Target(p) = before[p]
BY DEF ValuesInv, GivenInv, StepInv, Values!Passed, Target

LEMMA setBoundsIsRight ==
    ASSUME ValuesInv, Values!ParametersAssumption, step = "called", method = "setBounds"
    PROVE  LET d == Values!setBoundsHandler(request)
           IN  /\ d \in Placement /\ InRange(d) /\ IsSet(d)
               /\ Values!Understood(method, request)
<1> DEFINE r == request
           d == Values!setBoundsHandler(r)
           Json(p) == Values!populateParameterValue("u", given[p])
<1>1. /\ DOMAIN r \subseteq 0..4
      /\ 1 \in DOMAIN r <=> "x" \in DOMAIN given
      /\ 2 \in DOMAIN r <=> "y" \in DOMAIN given
      /\ 3 \in DOMAIN r <=> "w" \in DOMAIN given
      /\ 4 \in DOMAIN r <=> "h" \in DOMAIN given
      /\ "x" \in DOMAIN given => r[1] = Json("x")
      /\ "y" \in DOMAIN given => r[2] = Json("y")
      /\ "w" \in DOMAIN given => r[3] = Json("w")
      /\ "h" \in DOMAIN given => r[4] = Json("h")
  BY Handled, BoundsRequest
<1>2. /\ \A p \in {"x", "y"} \cap DOMAIN given :
            Values!IsUint(Json(p)) /\ Values!Signed(Json(p).n) = Target(p)
      /\ \A p \in {"w", "h"} \cap DOMAIN given :
            /\ Values!IsUint(Json(p)) /\ Json(p).n = Target(p) /\ Json(p).n \in Nat
            /\ Values!Wrapped(Json(p).n) = Json(p).n
  BY Handled, MeaningOfInt32
<1> HIDE DEF Json
<1>3. \A i \in 1..4 \cap DOMAIN r : Values!IsUint(r[i])
  BY <1>1, <1>2
<1>4. Values!Understood(method, request)
  BY <1>3 DEF Values!Understood, Values!ReadAsUint
<1>5. before \in Placement /\ InRange(before) /\ display = before
  BY Handled
<1>6. /\ d.x = Values!Signed(Values!Uint(r, 1, Values!Wrapped(before.x)))
      /\ d.y = Values!Signed(Values!Uint(r, 2, Values!Wrapped(before.y)))
      /\ d.w = Values!Uint(r, 3, before.w) /\ d.h = Values!Uint(r, 4, before.h)
      /\ d.sx = before.sx /\ d.sy = before.sy
      /\ d = [p \in Names |-> d[p]]
  <2>1. d = [before EXCEPT !.x = Values!Signed(Values!Uint(r, 1, Values!Wrapped(before.x))),
                           !.y = Values!Signed(Values!Uint(r, 2, Values!Wrapped(before.y))),
                           !.w = Values!Uint(r, 3, before.w), !.h = Values!Uint(r, 4, before.h)]
    BY <1>5 DEF Values!setBoundsHandler, Placement
  <2>2. before = [p \in Names |-> before[p]] /\ DOMAIN before = Names
    BY <1>5, PlaceIsFunction
  <2>3. {"x", "y", "w", "h", "sx", "sy"} = Names
    BY DEF Names
  <2> HIDE DEF d
  <2>4. QED BY <2>1, <2>2, <2>3
<1>7. /\ Values!Signed(Values!Wrapped(before.x)) = before.x
      /\ Values!Signed(Values!Wrapped(before.y)) = before.y
  BY <1>5, KeptForms DEF Placement, InRange
<1> HIDE DEF d
<1>8. d.x = Target("x") /\ d.y = Target("y")
  BY <1>1, <1>2, <1>6, <1>7, Handled DEF Values!Uint
<1>9. /\ d.w = Target("w") /\ d.w \in Nat /\ Values!Wrapped(d.w) = d.w
      /\ d.h = Target("h") /\ d.h \in Nat /\ Values!Wrapped(d.h) = d.h
  BY <1>1, <1>2, <1>5, <1>6, Handled DEF Values!Uint, Placement, InRange
<1>10. \A p \in {"sx", "sy"} : d[p] \in Doubled /\ d[p] = Target(p)
  <2>1. "sx" \notin DOMAIN given /\ "sy" \notin DOMAIN given
    BY DEF ValuesInv, GivenInv
  <2>2. QED BY <1>5, <1>6, <2>1, Handled DEF Placement
<1>11. QED BY <1>4, <1>6, <1>8, <1>9, <1>10, DisplayIsSet DEF d, ValuesInv

LEMMA setScaleIsRight ==
    ASSUME ValuesInv, Values!ParametersAssumption, step = "called", method = "setScale"
    PROVE  LET d == Values!setScaleHandler(request)
           IN  /\ d \in Placement /\ InRange(d) /\ IsSet(d)
               /\ Values!Understood(method, request)
<1> DEFINE r == request
           d == Values!setScaleHandler(r)
           Json(p) == Values!populateParameterValue("f", given[p])
<1>1. /\ 1 \in DOMAIN r <=> "sx" \in DOMAIN given
      /\ 2 \in DOMAIN r <=> "sy" \in DOMAIN given
      /\ "sx" \in DOMAIN given => r[1] = Json("sx")
      /\ "sy" \in DOMAIN given => r[2] = Json("sy")
  BY Handled, ScaleRequest
<1>2. \A p \in {"sx", "sy"} \cap DOMAIN given :
         Target(p) \in Doubled /\ Values!GetDouble(Json(p)) = sixDigits[Target(p)]
  BY Handled, MeaningOfDouble
<1> HIDE DEF Json
<1>3. Values!Understood(method, request)
  BY DEF Values!Understood, Values!ReadAsUint
<1>4. before \in Placement /\ InRange(before) /\ display = before
  BY Handled
<1>5. /\ d.sx = Values!Double(r, 1, before.sx) /\ d.sy = Values!Double(r, 2, before.sy)
      /\ d.x = before.x /\ d.y = before.y /\ d.w = before.w /\ d.h = before.h
      /\ d = [p \in Names |-> d[p]]
  <2>1. d = [before EXCEPT !.sx = Values!Double(r, 1, before.sx),
                           !.sy = Values!Double(r, 2, before.sy)]
    BY <1>4 DEF Values!setScaleHandler, Placement
  <2>2. before = [p \in Names |-> before[p]] /\ DOMAIN before = Names
    BY <1>4, PlaceIsFunction
  <2>3. {"x", "y", "w", "h", "sx", "sy"} = Names
    BY DEF Names
  <2> HIDE DEF d
  <2>4. QED BY <2>1, <2>2, <2>3
<1> HIDE DEF d
<1>6. \A p \in {"sx", "sy"} : d[p] \in Doubled /\ sixDigits[d[p]] = sixDigits[Target(p)]
  <2>1. d.sx = IF "sx" \in DOMAIN given THEN sixDigits[Target("sx")] ELSE Target("sx")
    BY <1>1, <1>2, <1>5, Handled DEF Values!Double
  <2>2. d.sy = IF "sy" \in DOMAIN given THEN sixDigits[Target("sy")] ELSE Target("sy")
    BY <1>1, <1>2, <1>5, Handled DEF Values!Double
  <2>3. \A p \in {"sx", "sy"} : Target(p) \in Doubled
    BY <1>2, <1>4, Handled DEF Placement
  <2>4. QED BY <2>1, <2>2, <2>3, SixDigitsStay
<1>7. \A p \in {"x", "y", "w", "h"} : p \notin DOMAIN given
  BY DEF ValuesInv, GivenInv
<1>8. d.x = Target("x") /\ d.y = Target("y")
  BY <1>5, <1>7, Handled
<1>9. /\ d.w = Target("w") /\ d.w \in Nat /\ Values!Wrapped(d.w) = d.w
      /\ d.h = Target("h") /\ d.h \in Nat /\ Values!Wrapped(d.h) = d.h
  BY <1>4, <1>5, <1>7, Handled DEF Placement, InRange
<1>10. QED BY <1>3, <1>5, <1>6, <1>8, <1>9, DisplayIsSet DEF d, ValuesInv

\* The last frame of an animation, if the handler understands its request.
LEMMA addAnimationIsRight ==
    ASSUME ValuesInv, Values!ParametersAssumption, step = "called", method = "addAnimation"
    PROVE  /\ ~Values!Understood(method, request) =>
                 Values!Passed("sx") /\ ~Values!Whole(sixDigits[given["sx"].n])
           /\ LET d == Values!addAnimationHandler(request)
              IN  Values!Understood(method, request) =>
                     d \in Placement /\ InRange(d) /\ IsSet(d)
<1> DEFINE r == request
           d == Values!addAnimationHandler(r)
           Json(p) == Values!populateParameterValue("u", given[p])
           JsonScale(p) == Values!populateParameterValue("f", given[p])
<1>1. /\ 4 \notin DOMAIN r
      /\ 2 \in DOMAIN r <=> "x" \in DOMAIN given
      /\ 3 \in DOMAIN r <=> "y" \in DOMAIN given
      /\ 5 \in DOMAIN r <=> "w" \in DOMAIN given
      /\ 6 \in DOMAIN r <=> "sx" \in DOMAIN given
      /\ 7 \in DOMAIN r <=> "sy" \in DOMAIN given
      /\ "x" \in DOMAIN given => r[2] = Json("x")
      /\ "y" \in DOMAIN given => r[3] = Json("y")
      /\ "w" \in DOMAIN given => r[5] = Json("w")
      /\ "sx" \in DOMAIN given => r[6] = JsonScale("sx")
      /\ "sy" \in DOMAIN given => r[7] = JsonScale("sy")
  BY Handled, AnimationRequest
<1>2. /\ \A p \in {"x", "y"} \cap DOMAIN given :
            Values!IsUint(Json(p)) /\ Values!Signed(Json(p).n) = Target(p)
      /\ \A p \in {"w", "h"} \cap DOMAIN given :
            /\ Values!IsUint(Json(p)) /\ Json(p).n \in Nat
            /\ Values!Wrapped(Json(p).n) = Json(p).n
  BY Handled, MeaningOfInt32
<1>3. \A p \in {"sx", "sy"} \cap DOMAIN given :
         /\ Target(p) \in Doubled
         /\ Values!GetDouble(JsonScale(p)) = sixDigits[Target(p)]
         /\ Values!IsUint(JsonScale(p)) => Unit * JsonScale(p).n = sixDigits[Target(p)]
         /\ ~Values!IsUint(JsonScale(p)) => ~Values!Whole(sixDigits[given[p].n])
  BY Handled, MeaningOfDouble
<1> HIDE DEF Json, JsonScale
<1>4. ~Values!Understood(method, request) =>
         Values!Passed("sx") /\ ~Values!Whole(sixDigits[given["sx"].n])
  <2>1. \A i \in (2..6 \cap DOMAIN r) \ {6} : Values!IsUint(r[i])
    BY <1>1, <1>2
  <2>2. ~Values!Understood(method, request) => 6 \in DOMAIN r /\ ~Values!IsUint(r[6])
    BY <2>1 DEF Values!Understood, Values!ReadAsUint
  <2>3. QED BY <1>1, <1>3, <2>2, Handled
<1>5. before \in Placement /\ InRange(before) /\ display = before
  BY Handled
<1>6. ASSUME Values!Understood(method, request)
      PROVE  d \in Placement /\ InRange(d) /\ IsSet(d)
  <2> DEFINE sx == IF 6 \in DOMAIN r THEN Unit * r[6].n ELSE before.sx
  <2>1. /\ d.x = Values!Signed(Values!Uint(r, 2, before.x))
        /\ d.y = Values!Signed(Values!Uint(r, 3, before.y))
        /\ d.w = Values!OnScreen(Values!Uint(r, 4, before.w))
        /\ d.h = Values!OnScreen(Values!Uint(r, 5, before.h))
        /\ d.sx = sx /\ d.sy = Values!Double(r, 7, before.sy)
        /\ d = [p \in Names |-> d[p]]
    <3>1. d = [before EXCEPT !.x = Values!Signed(Values!Uint(r, 2, before.x)),
                             !.y = Values!Signed(Values!Uint(r, 3, before.y)),
                             !.w = Values!OnScreen(Values!Uint(r, 4, before.w)),
                             !.h = Values!OnScreen(Values!Uint(r, 5, before.h)),
                             !.sx = sx, !.sy = Values!Double(r, 7, before.sy)]
      BY <1>5 DEF Values!addAnimationHandler, Placement
    <3>2. before = [p \in Names |-> before[p]] /\ DOMAIN before = Names
      BY <1>5, PlaceIsFunction
    <3>3. {"x", "y", "w", "h", "sx", "sy"} = Names
      BY DEF Names
    <3> HIDE DEF d, sx
    <3>4. QED BY <3>1, <3>2, <3>3
  <2> HIDE DEF d
  <2>2. d.x = Target("x") /\ d.y = Target("y")
    BY <1>1, <1>2, <1>5, <2>1, Handled DEF Values!Uint, InRange
  <2>3. "sx" \in DOMAIN given => Values!IsUint(r[6])
    BY <1>1, <1>6 DEF Values!Understood, Values!ReadAsUint
  <2>4. \A p \in {"sx", "sy"} : d[p] \in Doubled /\ sixDigits[d[p]] = sixDigits[Target(p)]
    <3>1. d.sx = IF "sx" \in DOMAIN given THEN sixDigits[Target("sx")] ELSE Target("sx")
      BY <1>1, <1>3, <2>1, <2>3, Handled
    <3>2. d.sy = IF "sy" \in DOMAIN given THEN sixDigits[Target("sy")] ELSE Target("sy")
      BY <1>1, <1>3, <2>1, Handled DEF Values!Double
    <3>3. \A p \in {"sx", "sy"} : Target(p) \in Doubled
      BY <1>3, <1>5, Handled DEF Placement
    <3>4. QED BY <3>1, <3>2, <3>3, SixDigitsStay
  <2>5. before.w \in Nat /\ before.h \in Nat
    BY <1>5 DEF Placement
  <2>6. /\ d.w = Values!OnScreen(before.w) /\ d.w \in Nat /\ Values!Wrapped(d.w) = d.w
        /\ before.w <= Screen => d.w = before.w
    BY <1>1, <1>5, <2>1, <2>5, KeptForms DEF Values!Uint, InRange
  <2>7. /\ d.h \in Nat /\ Values!Wrapped(d.h) = d.h
        /\ before.h <= Screen /\ "w" \notin DOMAIN given => d.h = before.h
    BY <1>1, <1>2, <1>5, <2>1, <2>5, KeptForms DEF Values!Uint, InRange
  <2>8. ~Values!Resized => /\ "w" \notin DOMAIN given /\ "h" \notin DOMAIN given
                           /\ before.w <= Screen /\ before.h <= Screen
    <3>1. Screen \in Nat
      BY DEF Values!ParametersAssumption
    <3>2. QED BY <2>5, <3>1, Handled DEF Values!Resized
  <2>9. \A p \in {"w", "h"} : /\ d[p] \in Nat /\ Values!Wrapped(d[p]) = d[p]
                              /\ d[p] = Target(p) \/ Values!Resized
    BY <2>6, <2>7, <2>8, Handled
  <2>10. QED BY <2>1, <2>2, <2>4, <2>9, DisplayIsSet DEF ValuesInv
<1>7. QED BY <1>4, <1>6

LEMMA HandleKeepsValues ==
    ASSUME ValuesInv, Values!ParametersAssumption, Values!Handle
    PROVE  ValuesInv'
<1>1. GivenInv' /\ (\A p \in Names : Target(p)' = Target(p)) /\ Values!Resized' = Values!Resized
      /\ (\A p : Values!Passed(p)' = Values!Passed(p))
  BY GivenForGood DEF Values!Handle, ValuesInv
<1>2. step = "called" /\ method \in {"setBounds", "setScale", "addAnimation"}
  BY DEF Values!Handle, ValuesInv, GivenInv
<1>3. CASE /\ Values!Understood(method, request)
           /\ display' = Values!Handler(method, request)
           /\ step' = IF method = "addAnimation" THEN "animated" ELSE "set"
  <2>1. display' \in Placement /\ InRange(display') /\ IsSet(display')
    <3>1. CASE method = "setBounds"
      BY <1>2, <1>3, <3>1, setBoundsIsRight DEF Values!Handler
    <3>2. CASE method = "setScale"
      BY <1>2, <1>3, <3>2, setScaleIsRight DEF Values!Handler
    <3>3. CASE method = "addAnimation"
      BY <1>2, <1>3, <3>3, addAnimationIsRight DEF Values!Handler
    <3>4. QED BY <1>2, <3>1, <3>2, <3>3
  <2>2. (display \in Placement /\ InRange(display))'
    BY <2>1 DEF InRange, Values!Signed, Values!Wrapped
  <2>3. OnTarget'
    BY <1>1, <2>1 DEF OnTarget, IsSet, Values!Legible
  <2>4. step' \in {"animated", "set"}
    BY <1>3
  <2>5. StepInv'
    BY <2>2, <2>3, <2>4 DEF StepInv
  <2>6. QED BY <1>1, <2>5 DEF ValuesInv
<1>4. CASE ~Values!Understood(method, request) /\ step' = "server aborted" /\ UNCHANGED display
  <2>1. display \in Placement /\ InRange(display) /\ display = before
    BY <1>2 DEF ValuesInv, StepInv
  <2>2. (display \in Placement /\ InRange(display) /\ display = before)'
    BY <1>4, <2>1 DEF Values!Handle, InRange, Values!Signed, Values!Wrapped
  <2>3. /\ method = "addAnimation" /\ Values!Passed("sx")
        /\ ~Values!Whole(sixDigits[given["sx"].n])
    BY <1>2, <1>4, setBoundsIsRight, setScaleIsRight, addAnimationIsRight
  <2>4. (/\ method = "addAnimation" /\ Values!Passed("sx")
         /\ ~Values!Whole(sixDigits[given["sx"].n]))'
    <3>1. UNCHANGED <<given, method>>
      BY DEF Values!Handle
    <3>2. QED BY SMT, <1>1, <2>3, <3>1 DEF Values!Whole
  <2>5. StepInv'
    BY <1>4, <2>2, <2>4 DEF StepInv
  <2>6. QED BY <1>1, <2>5 DEF ValuesInv
<1>5. QED BY <1>3, <1>4 DEF Values!Handle

\* An event changes nothing, and only a negative place stops its reader.
LEMMA EventKeepsValues ==
    ASSUME ValuesInv, Values!Event
    PROVE  ValuesInv'
<1>1. GivenInv' /\ (\A p \in Names : Target(p)' = Target(p)) /\ Values!Resized' = Values!Resized
  BY GivenForGood DEF Values!Event, ValuesInv
<1>2. display' = display /\ step' \in {"set", "client aborted"}
  BY DEF Values!Event
<1>3. display \in Placement /\ InRange(display) /\ OnTarget
  BY DEF Values!Event, ValuesInv, StepInv
<1>4. (display \in Placement /\ InRange(display))'
  BY <1>2, <1>3 DEF InRange, Values!Signed, Values!Wrapped
<1>5. OnTarget'
  BY <1>1, <1>2, <1>3 DEF OnTarget, Values!Legible
<1>6. step' = "client aborted" => display'.x < 0 \/ display'.y < 0
  <2> DEFINE texts == Values!Texts([n \in Values!Places |-> n])
  <2>1. /\ DOMAIN display = Names
        /\ display.x \in Int /\ display.y \in Int /\ display.w \in Nat /\ display.h \in Nat
    BY <1>3 DEF Placement, Names
  <2>2. /\ texts.x = Values!IntegerText(display.x) /\ texts.y = Values!IntegerText(display.y)
        /\ texts.w = Values!IntegerText(display.w) /\ texts.h = Values!IntegerText(display.h)
    BY DEF Values!Texts, Values!Places
  <2>3. \A n \in Int : Values!IsUint(Values!IntegerText(n)) <=> n >= 0
    BY DEF Values!IsUint, Values!IntegerText, Values!Data
  <2> HIDE DEF texts
  <2>4. step' = "client aborted" => \E p \in Names \ {"sx", "sy"} : ~Values!IsUint(texts[p])
    BY <2>1 DEF Values!Event, texts
  <2>5. Values!IsUint(texts.w) /\ Values!IsUint(texts.h)
    BY <2>1, <2>2, <2>3
  <2>6. step' = "client aborted" => ~Values!IsUint(texts.x) \/ ~Values!IsUint(texts.y)
    BY <2>4, <2>5 DEF Names
  <2>7. /\ Values!IsUint(texts.x) <=> display.x >= 0
        /\ Values!IsUint(texts.y) <=> display.y >= 0
    BY <2>1, <2>2, <2>3
  <2>8. step' = "client aborted" => ~(display.x >= 0) \/ ~(display.y >= 0)
    BY <2>6, <2>7, Zenon
  <2>9. \A n \in Int : ~(n >= 0) => n < 0
    OBVIOUS
  <2>10. step' = "client aborted" => display.x < 0 \/ display.y < 0
    BY <2>1, <2>8, <2>9, Zenon
  <2>11. QED BY <1>2, <2>10, Zenon
<1>7. StepInv'
  BY <1>2, <1>4, <1>5, <1>6 DEF StepInv
<1>8. QED BY <1>1, <1>7 DEF ValuesInv

\* What is answered means what it says.
LEMMA QueryKeepsValues ==
    ASSUME ValuesInv, Values!ParametersAssumption, Values!Query
    PROVE  ValuesInv'
<1>1. GivenInv' /\ (\A p \in Names : Target(p)' = Target(p)) /\ Values!Resized' = Values!Resized
  BY GivenForGood DEF Values!Query, ValuesInv
<1>2. display' = display /\ step' = "answered"
  BY DEF Values!Query
<1>3. display \in Placement /\ InRange(display) /\ OnTarget
  BY DEF Values!Query, ValuesInv, StepInv
<1>4. (display \in Placement /\ InRange(display))'
  BY <1>2, <1>3 DEF InRange, Values!Signed, Values!Wrapped
<1>5. OnTarget'
  BY <1>1, <1>2, <1>3 DEF OnTarget, Values!Legible
<1> DEFINE texts == Values!Texts([n \in Values!Places |-> Values!Wrapped(n)])
<1>6. /\ DOMAIN display = Names
      /\ display.x \in Int /\ display.y \in Int /\ display.w \in Nat /\ display.h \in Nat
      /\ display.sx \in Doubled /\ display.sy \in Doubled
      /\ Values!Signed(display.x) = display.x /\ Values!Signed(display.y) = display.y
      /\ Values!Wrapped(display.w) = display.w /\ Values!Wrapped(display.h) = display.h
  BY <1>3 DEF Placement, Names, InRange
<1>7. \A n : Values!IntegerText(n).n = n
  BY DEF Values!IntegerText, Values!Data
<1>8. /\ texts.x.n = Values!Wrapped(display.x) /\ texts.y.n = Values!Wrapped(display.y)
      /\ texts.w.n = display.w /\ texts.h.n = display.h
      /\ texts.sx = Values!DoubleText(display.sx) /\ texts.sy = Values!DoubleText(display.sy)
  BY <1>7 DEF Values!Texts, Values!Places
<1>9. /\ Values!GetDouble(texts.sx) = sixDigits[display.sx]
      /\ Values!GetDouble(texts.sy) = sixDigits[display.sy]
  BY <1>6, <1>8, DecimalSurvives DEF Values!GetDouble
<1>10. data' = Values!Received(texts, Names)
  BY <1>6 DEF Values!Query
<1> HIDE DEF texts
<1>11. /\ \A p \in {"x", "y", "w", "h"} : data'[p] = Values!Data("uint32", texts[p].n)
       /\ \A p \in {"sx", "sy"} : data'[p] = Values!Data("double", Values!GetDouble(texts[p]))
  BY <1>10 DEF Values!Received, Names
<1>12. /\ Values!Signed(Values!Wrapped(display.x)) = display.x
       /\ Values!Signed(Values!Wrapped(display.y)) = display.y
  BY <1>6, KeptForms
<1>13. \A n : /\ Values!Data("uint32", n).type = "uint32" /\ Values!Data("uint32", n).n = n
              /\ Values!Data("double", n).type = "double" /\ Values!Data("double", n).n = n
  BY DEF Values!Data
<1>14. \A p \in {"x", "y"} : Values!Meaning(p, data'[p]) = display'[p]
  BY <1>2, <1>8, <1>11, <1>12, <1>13 DEF Values!Meaning, Values!toInteger32
<1>15. \A p \in {"w", "h"} : Values!Meaning(p, data'[p]) = display'[p]
  BY <1>2, <1>6, <1>8, <1>11, <1>13 DEF Values!Meaning, Values!toUnsignedInteger32
<1>16. \A p \in {"sx", "sy"} : Values!Meaning(p, data'[p]) = sixDigits[display'[p]]
  BY <1>2, <1>9, <1>11, <1>13 DEF Values!Meaning, Values!toDouble
<1>17. (\A p \in Names : Values!Meaning(p, data[p]) = Values!Legible(p, display[p]))'
  BY <1>14, <1>15, <1>16 DEF Names, Values!Legible, Values!Meaning, Values!toInteger32,
     Values!toUnsignedInteger32, Values!toDouble, Values!Signed, Values!Wrapped
<1>18. StepInv'
  BY <1>2, <1>4, <1>5, <1>17 DEF StepInv
<1>19. QED BY <1>1, <1>18 DEF ValuesInv

LEMMA ValuesStuttering ==
    ASSUME ValuesInv, UNCHANGED Values!vars
    PROVE  ValuesInv'
<1>1. UNCHANGED <<step, method, given, before, display, request, data>>
  BY DEF Values!vars
<1>2. GivenInv' = GivenInv /\ (\A p \in Names : Target(p)' = Target(p))
      /\ Values!Resized' = Values!Resized /\ (\A p : Values!Passed(p)' = Values!Passed(p))
  BY <1>1, GivenForGood
<1>3. (display \in Placement /\ InRange(display))' = (display \in Placement /\ InRange(display))
  BY <1>1 DEF InRange, Values!Signed, Values!Wrapped
<1>4. OnTarget' = OnTarget
  BY <1>1, <1>2 DEF OnTarget, Values!Legible
<1>5. Values!Mandatory(method)' = Values!Mandatory(method)
  BY <1>1 DEF Values!Mandatory, Values!sParameterInfo, Values!Parameter
<1>6. Values!prepareRequestParameters(method, given)'
          = Values!prepareRequestParameters(method, given)
  BY <1>1 DEF Values!prepareRequestParameters, Values!sParameterInfo, Values!Parameter,
         Values!populateParameterValue, Values!IntegerText, Values!DoubleText, Values!Whole,
         Values!toUnsignedInteger32, Values!toDouble, Values!Data, Values!Wrapped
<1>7. (\A p \in Names : Values!Meaning(p, data[p]) = Values!Legible(p, display[p]))'
          = (\A p \in Names : Values!Meaning(p, data[p]) = Values!Legible(p, display[p]))
  BY <1>1 DEF Values!Legible, Values!Meaning, Values!toInteger32, Values!toUnsignedInteger32, Values!toDouble,
     Values!Signed, Values!Wrapped
<1>8. StepInv'
  BY <1>1, <1>2, <1>3, <1>4, <1>5, <1>6, <1>7
     DEF ValuesInv, StepInv, Values!Whole
<1>9. QED BY <1>2, <1>8 DEF ValuesInv

\* Whatever a process sets with setBounds(), setScale() or an animation, of whatever
\* values, it reads with getBounds() and getScale() afterwards, scales to the six digits
\* of their text (clientmessagehandler.cpp 80, servermessagehandler.cpp 219), however
\* doubles are rounded to those, and what it leaves out is as before; the exceptions
\* are those SetIsRead names.
THEOREM WhatIsPassedIsRead ==
    Values!ParametersAssumption => (Values!Spec => []SetIsRead)
<1> SUFFICES ASSUME Values!ParametersAssumption
             PROVE  Values!Spec => []SetIsRead
  OBVIOUS
<1>1. Values!Init => ValuesInv
  BY InitIsGiven
<1>2. ValuesInv /\ [Values!Next]_(Values!vars) => ValuesInv'
  <2> SUFFICES ASSUME ValuesInv, [Values!Next]_(Values!vars)
               PROVE  ValuesInv'
    OBVIOUS
  <2>1. CASE Values!Call
    BY <2>1, CallKeepsValues
  <2>2. CASE Values!Refuse
    BY <2>2, RefuseKeepsValues
  <2>3. CASE Values!Handle
    BY <2>3, HandleKeepsValues
  <2>4. CASE Values!Event
    BY <2>4, EventKeepsValues
  <2>5. CASE Values!Query
    BY <2>5, QueryKeepsValues
  <2>6. CASE UNCHANGED Values!vars
    BY <2>6, ValuesStuttering
  <2>7. QED BY <2>1, <2>2, <2>3, <2>4, <2>5, <2>6 DEF Values!Next
<1>3. ValuesInv => SetIsRead
  <2> SUFFICES ASSUME ValuesInv
               PROVE  SetIsRead
    OBVIOUS
  <2>1. DOMAIN before = Names
    BY PlaceIsFunction DEF ValuesInv, GivenInv
  <2>2. ASSUME step = "answered", NEW p \in Names
        PROVE  \/ Values!Resized /\ p \in {"w", "h"}
               \/ Values!Meaning(p, data[p]) = Values!Legible(p,
                      IF Values!Passed(p) THEN Values!Meaning(p, given[p]) ELSE before[p])
    <3>1. Values!Meaning(p, data[p]) = Values!Legible(p, display[p])
      BY <2>2 DEF ValuesInv, StepInv
    <3>2. \/ Values!Legible(p, display[p]) = Values!Legible(p, Target(p))
          \/ Values!Resized /\ p \in {"w", "h"}
      BY <2>2 DEF ValuesInv, StepInv, OnTarget
    <3>3. QED BY <3>1, <3>2 DEF Target
  <2>3. /\ step = "server aborted" =>
              /\ method = "addAnimation" /\ Values!Passed("sx")
              /\ ~Values!Whole(sixDigits[given["sx"].n])
        /\ step = "client aborted" => display.x < 0 \/ display.y < 0
    BY DEF ValuesInv, StepInv
  <2>4. QED BY <2>1, <2>2, <2>3 DEF SetIsRead, Values!SetIsRead
<1>4. QED BY <1>1, <1>2, <1>3, PTL DEF Values!Spec

-----------------------------------------------------------------------------
(* The unions the values are kept in.                                      *)

Types == Data!Numeric \cup {"bool", "void*", "string"}

\* What a value reads as in its own type is what it was assigned.
Kept(type, word, n) ==
    type \in Data!Numeric \cup {"bool"} => n \in Data!RangeOf(type) /\ Data!Cast(type, word) = n

TextOf(v) == mDataTypeIndex[v] = "string"

CellsInv ==
    /\ mDataTypeIndex \in [Cells -> Types]
    /\ mData \in [Cells -> Int]
    /\ assigned = [v \in Cells |-> assigned[v]]
    /\ \A v \in Cells : Kept(mDataTypeIndex[v], mData[v], assigned[v])

\* Strings are in blocks of their own, at places that are not 0.
HeapInv ==
    /\ DOMAIN heap \subseteq Addresses
    /\ \A v \in Cells : TextOf(v) => /\ v \in alive /\ mData[v] \in DOMAIN heap
                                     /\ heap[mData[v]] = assigned[v]
    /\ \A address \in DOMAIN heap : \E v \in Cells : TextOf(v) /\ mData[v] = address
    /\ \A v, w \in Cells : TextOf(v) /\ TextOf(w) /\ mData[v] = mData[w] => v = w

DataInv == alive \subseteq Cells /\ CellsInv /\ HeapInv

\* The numbers a part of the union is as large as.
LEMMA SizeIsEven ==
    ASSUME Data!RdkShellDataAssumption, NEW type \in Types \ {"string"}
    PROVE  Data!Size(type) \in Nat \ {0} /\ Data!Size(type) % 2 = 0
<1>1. Data!Size(type) \in {Narrow, Middle, Wide}
  BY DEF Types, Data!Numeric, Data!Signed, Data!Unsigned, Data!Size
<1>2. QED BY <1>1 DEF Data!RdkShellDataAssumption

\* A number that a type has room for is kept by a conversion to it.
LEMMA CastKeeps ==
    ASSUME Data!RdkShellDataAssumption, NEW type \in Data!Numeric \cup {"bool"},
           NEW n \in Data!RangeOf(type)
    PROVE  n \in Int /\ Data!Cast(type, n) = n
<1> DEFINE size == Data!Size(type)
           half == size \div 2
<1>1. size \in Nat \ {0} /\ size % 2 = 0
  BY SizeIsEven DEF Types, Data!Numeric, Data!Signed, Data!Unsigned
<1>2. "bool" \notin Data!Signed
  BY DEF Data!Signed
<1>3. n \in (IF type \in Data!Signed THEN (-half)..(half - 1) ELSE 0..(size - 1))
  BY <1>1, <1>2 DEF Data!RangeOf
<1>4. Data!Cast(type, n) = IF type \in Data!Signed /\ n % size >= half THEN (n % size) - size
                           ELSE n % size
  BY DEF Data!Cast
<1> HIDE DEF size
<1>5. half \in Nat /\ half + half = size
  BY <1>1
<1> HIDE DEF half
<1>6. CASE n >= 0
  <2>1. n \in 0..(size - 1) /\ n \in Int
    BY <1>1, <1>3, <1>5, <1>6
  <2>2. n % size = n
    BY <1>1, <2>1
  <2>3. QED BY <1>3, <1>4, <1>5, <2>1, <2>2
<1>7. CASE ~(n >= 0)
  <2>1. n \in (-half)..(-1) /\ type \in Data!Signed /\ n \in Int
    BY <1>1, <1>3, <1>5, <1>7
  <2>2. n \in (-size)..(-1)
    BY <1>1, <1>5, <2>1
  <2>3. n % size = n + size
    BY <1>1, <2>2
  <2>4. QED BY <1>1, <1>4, <1>5, <2>1, <2>3
<1>8. QED BY <1>6, <1>7

LEMMA LowPart ==
    ASSUME NEW size \in Nat \ {0}, NEW word \in Int, NEW n \in Int
    PROVE  ((word - (word % size)) + (n % size)) % size = n % size
  OBVIOUS

\* What a type stores in a word, whatever the word was, it reads again.
LEMMA StoredIsRead ==
    ASSUME Data!RdkShellDataAssumption, NEW type \in Types \ {"string"},
           NEW word \in Int, NEW n \in Int
    PROVE  /\ Data!Stored(word, type, n) \in Int
           /\ Data!Cast(type, Data!Stored(word, type, n)) = Data!Cast(type, n)
<1> DEFINE size == Data!Size(type)
<1>1. size \in Nat \ {0}
  BY SizeIsEven
<1>2. Data!Stored(word, type, n) = (word - (word % size)) + (n % size)
  BY DEF Data!Stored
<1> HIDE DEF size
<1>3. ((word - (word % size)) + (n % size)) % size = n % size
  BY <1>1, LowPart
<1>4. (word - (word % size)) + (n % size) \in Int
  BY <1>1
<1>5. QED BY <1>2, <1>3, <1>4 DEF Data!Cast, size

LEMMA ZeroIsKept ==
    Kept("void*", 0, 0) /\ "void*" \in Types \ {"string"}
  BY DEF Kept, Types, Data!Numeric, Data!Signed, Data!Unsigned

\* A cell that was no string and is none leaves the heap as it is.
LEMMA NumberKeepsHeap ==
    ASSUME DataInv, NEW v \in Cells, NEW type \in Types \ {"string"}, NEW word \in Int, NEW n,
           ~TextOf(v), Data!Is(v, type, word, n), Kept(type, word, n),
           UNCHANGED heap, alive' \subseteq Cells, alive \subseteq alive'
    PROVE  DataInv'
<1>1. CellsInv'
  <2>1. mDataTypeIndex' \in [Cells -> Types] /\ mData' \in [Cells -> Int]
    BY DEF DataInv, CellsInv, Data!Is
  <2>2. assigned' = [w \in Cells |-> assigned'[w]]
    BY DEF DataInv, CellsInv, Data!Is
  <2>3. \A w \in Cells : Kept(mDataTypeIndex'[w], mData'[w], assigned'[w])
    <3> SUFFICES ASSUME NEW w \in Cells PROVE Kept(mDataTypeIndex'[w], mData'[w], assigned'[w])
      OBVIOUS
    <3>1. CASE w = v
      BY <3>1 DEF DataInv, CellsInv, Data!Is
    <3>2. CASE w # v
      BY <3>2 DEF DataInv, CellsInv, Data!Is
    <3>3. QED BY <3>1, <3>2
  <2>4. QED BY <2>1, <2>2, <2>3 DEF CellsInv, Kept
<1>2. \A w \in Cells : /\ TextOf(w)' <=> TextOf(w)
                       /\ w # v => mData'[w] = mData[w] /\ assigned'[w] = assigned[w]
  BY DEF DataInv, CellsInv, Data!Is, TextOf
<1>3. HeapInv'
  BY <1>2 DEF DataInv, HeapInv
<1>4. QED BY <1>1, <1>3 DEF DataInv

\* A text goes into a block of its own, or into the one that it had.
LEMMA StringKeeps ==
    ASSUME Data!RdkShellDataAssumption, DataInv, NEW v \in alive, NEW text,
           Data!TakesString(v), Data!SetString(v, text), UNCHANGED alive
    PROVE  DataInv'
<1>1. PICK address \in IF mData[v] = 0 THEN Addresses \ DOMAIN heap ELSE {mData[v]} :
         Data!Is(v, "string", address, text) /\ heap' = Data!Written(address, text)
  BY DEF Data!SetString
<1>2. v \in Cells
  BY DEF DataInv
<1>3. address \in Addresses /\ address \in Int /\ Addresses \subseteq Int /\ 0 \notin Addresses
  <2>1. Addresses \subseteq Int /\ 0 \notin Addresses
    BY DEF Data!RdkShellDataAssumption
  <2>2. TextOf(v) => mData[v] \in Addresses
    BY <1>2 DEF DataInv, HeapInv
  <2>3. QED BY <1>1, <2>1, <2>2 DEF Data!TakesString, TextOf
<1>4. /\ mDataTypeIndex' = [mDataTypeIndex EXCEPT ![v] = "string"]
      /\ mData' = [mData EXCEPT ![v] = address]
      /\ assigned' = [assigned EXCEPT ![v] = text]
  BY <1>1 DEF Data!Is
<1>5. CellsInv'
  <2>1. "string" \in Types
    BY DEF Types
  <2>2. mDataTypeIndex' \in [Cells -> Types] /\ mData' \in [Cells -> Int]
    BY <1>3, <1>4, <2>1 DEF DataInv, CellsInv
  <2>3. assigned' = [w \in Cells |-> assigned'[w]]
    BY <1>4 DEF DataInv, CellsInv
  <2>4. Kept("string", address, text)
    BY DEF Kept, Data!Numeric, Data!Signed, Data!Unsigned
  <2>5. \A w \in Cells : Kept(mDataTypeIndex'[w], mData'[w], assigned'[w])
    <3> SUFFICES ASSUME NEW w \in Cells PROVE Kept(mDataTypeIndex'[w], mData'[w], assigned'[w])
      OBVIOUS
    <3>1. CASE w = v
      BY <1>4, <2>4, <3>1 DEF DataInv, CellsInv
    <3>2. CASE w # v
      BY <1>4, <3>2 DEF DataInv, CellsInv
    <3>3. QED BY <3>1, <3>2
  <2>6. QED BY <2>2, <2>3, <2>5 DEF CellsInv, Kept
<1>6. /\ TextOf(v)' /\ mData'[v] = address /\ assigned'[v] = text
      /\ \A w \in Cells \ {v} : /\ TextOf(w)' <=> TextOf(w)
                                /\ mData'[w] = mData[w] /\ assigned'[w] = assigned[w]
  BY <1>2, <1>4 DEF DataInv, CellsInv, TextOf
<1>7. /\ DOMAIN heap' = DOMAIN heap \cup {address}
      /\ heap'[address] = text
      /\ \A a \in DOMAIN heap \ {address} : heap'[a] = heap[a]
  BY <1>1 DEF Data!Written
\* No other value has the block.
<1>8. \A w \in Cells \ {v} : TextOf(w) => mData[w] # address
  <2>1. CASE TextOf(v)
    <3>1. address = mData[v]
      BY <1>1, <1>2, <1>3, <2>1 DEF DataInv, HeapInv
    <3>2. QED BY <1>2, <2>1, <3>1 DEF DataInv, HeapInv
  <2>2. CASE ~TextOf(v)
    <3>1. address \notin DOMAIN heap
      BY <1>1, <2>2 DEF Data!TakesString, TextOf
    <3>2. QED BY <3>1 DEF DataInv, HeapInv
  <2>3. QED BY <2>1, <2>2
<1>9. TextOf(v) => mData[v] = address
  BY <1>1, <1>2, <1>3 DEF DataInv, HeapInv
<1>10. HeapInv'
  <2>1. DOMAIN heap' \subseteq Addresses
    BY <1>3, <1>7 DEF DataInv, HeapInv
  <2>2. \A w \in Cells : TextOf(w)' => /\ w \in alive' /\ mData'[w] \in DOMAIN heap'
                                       /\ heap'[mData'[w]] = assigned'[w]
    BY <1>6, <1>7, <1>8 DEF DataInv, HeapInv
  <2>3. \A a \in DOMAIN heap' : \E w \in Cells : TextOf(w)' /\ mData'[w] = a
    BY <1>2, <1>6, <1>7, <1>9 DEF DataInv, HeapInv
  <2>4. \A w, x \in Cells : TextOf(w)' /\ TextOf(x)' /\ mData'[w] = mData'[x] => w = x
    BY <1>6, <1>8 DEF DataInv, HeapInv
  <2>5. QED BY <2>1, <2>2, <2>3, <2>4 DEF HeapInv
<1>11. QED BY <1>5, <1>10 DEF DataInv

\* A value that is destroyed takes its string along and no other's.
LEMMA DestroyKeeps ==
    ASSUME DataInv, NEW v \in Cells, Data!Destroy(v)
    PROVE  DataInv'
<1>1. /\ alive' = alive \ {v}
      /\ mDataTypeIndex' = [mDataTypeIndex EXCEPT ![v] = "void*"]
      /\ mData' = [mData EXCEPT ![v] = 0]
      /\ assigned' = [assigned EXCEPT ![v] = 0]
      /\ heap' = IF TextOf(v) THEN [address \in DOMAIN heap \ {mData[v]} |-> heap[address]]
                 ELSE heap
  BY DEF Data!Destroy, Data!Is, TextOf
<1>2. CellsInv'
  <2>1. mDataTypeIndex' \in [Cells -> Types] /\ mData' \in [Cells -> Int]
    BY <1>1, ZeroIsKept DEF DataInv, CellsInv
  <2>2. assigned' = [w \in Cells |-> assigned'[w]]
    BY <1>1 DEF DataInv, CellsInv
  <2>3. \A w \in Cells : Kept(mDataTypeIndex'[w], mData'[w], assigned'[w])
    <3> SUFFICES ASSUME NEW w \in Cells PROVE Kept(mDataTypeIndex'[w], mData'[w], assigned'[w])
      OBVIOUS
    <3>1. CASE w = v
      BY <1>1, <3>1, ZeroIsKept DEF DataInv, CellsInv
    <3>2. CASE w # v
      BY <1>1, <3>2 DEF DataInv, CellsInv
    <3>3. QED BY <3>1, <3>2
  <2>4. QED BY <2>1, <2>2, <2>3 DEF CellsInv, Kept
<1>3. /\ ~TextOf(v)'
      /\ \A w \in Cells \ {v} : /\ TextOf(w)' <=> TextOf(w)
                                /\ mData'[w] = mData[w] /\ assigned'[w] = assigned[w]
  BY <1>1 DEF DataInv, CellsInv, TextOf
<1>4. /\ DOMAIN heap' = IF TextOf(v) THEN DOMAIN heap \ {mData[v]} ELSE DOMAIN heap
      /\ \A a \in DOMAIN heap' : heap'[a] = heap[a]
  BY <1>1
<1>5. HeapInv'
  <2>1. DOMAIN heap' \subseteq Addresses
    BY <1>4 DEF DataInv, HeapInv
  <2>2. \A w \in Cells : TextOf(w)' => /\ w \in alive' /\ mData'[w] \in DOMAIN heap'
                                       /\ heap'[mData'[w]] = assigned'[w]
    BY <1>1, <1>3, <1>4 DEF DataInv, HeapInv
  <2>3. \A a \in DOMAIN heap' : \E w \in Cells : TextOf(w)' /\ mData'[w] = a
    BY <1>3, <1>4 DEF DataInv, HeapInv
  <2>4. \A w, x \in Cells : TextOf(w)' /\ TextOf(x)' /\ mData'[w] = mData'[x] => w = x
    BY <1>3 DEF DataInv, HeapInv
  <2>5. QED BY <2>1, <2>2, <2>3, <2>4 DEF HeapInv
<1>6. QED BY <1>1, <1>2, <1>5 DEF DataInv

LEMMA DataInvInitially == Data!RdkShellDataAssumption /\ Data!Init => DataInv
<1> SUFFICES ASSUME Data!RdkShellDataAssumption, Data!Init PROVE DataInv
  OBVIOUS
<1>1. CellsInv
  BY ZeroIsKept DEF Data!Init, CellsInv
<1>2. DOMAIN heap = {}
  BY DEF Data!Init
<1>3. \A v \in Cells : ~TextOf(v)
  BY DEF Data!Init, TextOf
<1>4. QED BY <1>1, <1>2, <1>3 DEF DataInv, HeapInv, Data!Init

\* A number of a type that is stored in any word is kept.
LEMMA StoredIsKept ==
    ASSUME Data!RdkShellDataAssumption, NEW type \in Data!Numeric \cup {"bool"},
           NEW n \in Data!RangeOf(type), NEW word \in Int
    PROVE  /\ Data!Stored(word, type, n) \in Int /\ Kept(type, Data!Stored(word, type, n), n)
           /\ type \in Types \ {"string"}
<1>1. type \in Types \ {"string"}
  BY DEF Types, Data!Numeric, Data!Signed, Data!Unsigned
<1>2. n \in Int /\ Data!Cast(type, n) = n
  BY CastKeeps
<1>3. QED BY <1>1, <1>2, StoredIsRead DEF Kept

LEMMA CopyKeeps ==
    ASSUME Data!RdkShellDataAssumption, DataInv, NEW v, NEW from, Data!Copy(v, from)
    PROVE  DataInv'
<1>1. v \in alive /\ from \in alive /\ v \in Cells /\ from \in Cells /\ UNCHANGED alive
  BY DEF Data!Copy, DataInv
<1>2. CASE TextOf(from)
  BY <1>1, <1>2, StringKeeps DEF Data!Copy, TextOf
<1>3. CASE ~TextOf(from)
  <2> DEFINE type == mDataTypeIndex[from]
             word == Data!Stored(mData[v], type, mData[from])
  <2>1. /\ type \in Types \ {"string"} /\ mData[v] \in Int /\ mData[from] \in Int
        /\ Kept(type, mData[from], assigned[from])
    BY <1>1, <1>3 DEF DataInv, CellsInv, TextOf
  <2>2. word \in Int /\ Data!Cast(type, word) = Data!Cast(type, mData[from])
    BY <2>1, StoredIsRead
  <2>3. Kept(type, word, assigned[from])
    BY <2>1, <2>2 DEF Kept
  <2>4. ~TextOf(v) /\ Data!Is(v, type, word, assigned[from]) /\ UNCHANGED heap
    BY <1>3 DEF Data!Copy, TextOf
  <2> HIDE DEF type, word
  <2>5. QED BY <1>1, <2>1, <2>2, <2>3, <2>4, NumberKeepsHeap DEF DataInv
<1>4. QED BY <1>2, <1>3

LEMMA DataInvKept ==
    Data!RdkShellDataAssumption /\ DataInv /\ [Data!Next]_Data!vars => DataInv'
<1> SUFFICES ASSUME Data!RdkShellDataAssumption, DataInv, [Data!Next]_Data!vars PROVE DataInv'
  OBVIOUS
<1>1. ASSUME NEW v \in Cells, Data!Default(v) PROVE DataInv'
  <2>1. ~TextOf(v)
    BY <1>1 DEF DataInv, HeapInv, Data!Default
  <2>2. 0 \in Int /\ alive' \subseteq Cells /\ alive \subseteq alive'
    BY <1>1 DEF DataInv, Data!Default
  <2>3. QED BY <1>1, <2>1, <2>2, ZeroIsKept, NumberKeepsHeap DEF Data!Default
<1>2. ASSUME NEW v \in Cells, NEW type \in Data!Numeric \cup {"bool"},
             NEW n \in Data!RangeOf(type), Data!Construct(v, type, n)
      PROVE  DataInv'
  <2>1. ~TextOf(v)
    BY <1>2 DEF DataInv, HeapInv, Data!Construct
  <2>2. PICK garbage \in Data!Words : Data!Is(v, type, Data!Stored(garbage, type, n), n)
    BY <1>2 DEF Data!Construct
  <2>3. garbage \in Int
    BY <2>2 DEF Data!Words
  <2>4. alive' \subseteq Cells /\ alive \subseteq alive' /\ UNCHANGED heap
    BY <1>2 DEF DataInv, Data!Construct
  <2>5. QED BY <2>1, <2>2, <2>3, <2>4, StoredIsKept, NumberKeepsHeap
<1>3. ASSUME NEW v \in Cells, NEW type \in Data!Numeric \cup {"bool"},
             NEW n \in Data!RangeOf(type), Data!Assign(v, type, n)
      PROVE  DataInv'
  <2>1. ~TextOf(v) /\ Data!Is(v, type, Data!Stored(mData[v], type, n), n)
        /\ UNCHANGED <<alive, heap>>
    BY <1>3 DEF Data!Assign, TextOf
  <2>2. mData[v] \in Int /\ alive' \subseteq Cells
    BY <2>1 DEF DataInv, CellsInv
  <2>3. QED BY <2>1, <2>2, StoredIsKept, NumberKeepsHeap
<1>4. ASSUME NEW v \in Cells, Data!AssignPointer(v) PROVE DataInv'
  <2>1. ~TextOf(v) /\ UNCHANGED <<alive, heap>>
    BY <1>4 DEF Data!AssignPointer, TextOf
  <2>2. PICK place \in Data!Words : Data!Is(v, "void*", place, place)
    BY <1>4 DEF Data!AssignPointer
  <2>3. place \in Int /\ alive' \subseteq Cells
    BY <2>1, <2>2 DEF Data!Words, DataInv
  <2>4. Kept("void*", place, place) /\ "void*" \in Types \ {"string"}
    BY DEF Kept, Types, Data!Numeric, Data!Signed, Data!Unsigned
  <2>5. QED BY <2>1, <2>2, <2>3, <2>4, NumberKeepsHeap
<1>5. ASSUME NEW v \in Cells, NEW text \in Strings, Data!AssignString(v, text) PROVE DataInv'
  BY <1>5, StringKeeps DEF Data!AssignString
<1>6. ASSUME NEW v \in Cells, NEW from \in Cells, Data!Copy(v, from) PROVE DataInv'
  BY <1>6, CopyKeeps
<1>7. ASSUME NEW v \in Cells, Data!Destroy(v) PROVE DataInv'
  BY <1>7, DestroyKeeps
<1>8. CASE UNCHANGED Data!vars
  <2>1. UNCHANGED <<alive, mDataTypeIndex, mData, heap, assigned>>
    BY <1>8 DEF Data!vars
  <2>2. QED BY <2>1 DEF DataInv, CellsInv, HeapInv, TextOf, Kept, Data!Cast
<1>9. QED BY <1>1, <1>2, <1>3, <1>4, <1>5, <1>6, <1>7, <1>8 DEF Data!Next

\* A kept value reads as it was assigned in every type with room for it.
LEMMA KeptReads ==
    ASSUME Data!RdkShellDataAssumption, DataInv
    PROVE  ValuesAreKept
<1>1. ASSUME NEW v \in alive, mDataTypeIndex[v] \in Data!Numeric, NEW type \in Data!Numeric,
             assigned[v] \in Data!RangeOf(type)
      PROVE  Data!Converted(type, v) = assigned[v]
  <2>1. Data!Cast(mDataTypeIndex[v], mData[v]) = assigned[v]
    BY <1>1 DEF DataInv, CellsInv, Kept
  <2>2. Data!Cast(type, assigned[v]) = assigned[v]
    BY <1>1, CastKeeps
  <2>3. QED BY <1>1, <2>1, <2>2 DEF Data!Converted
<1>2. ASSUME NEW v \in alive, mDataTypeIndex[v] = "bool"
      PROVE  Data!toBoolean(v) = (assigned[v] = 1)
  <2>1. Data!Cast("bool", mData[v]) = assigned[v]
    BY <1>2 DEF DataInv, CellsInv, Kept
  <2>2. QED BY <1>2, <2>1 DEF Data!toBoolean
<1>3. ASSUME NEW v \in alive, mDataTypeIndex[v] = "string"
      PROVE  Data!toString(v) = assigned[v]
  BY <1>3 DEF DataInv, HeapInv, TextOf, Data!toString
<1>4. Data!ReadsAsAssigned
  BY <1>1, <1>2, <1>3 DEF Data!ReadsAsAssigned
<1>5. Data!StringsAreOwned
  <2>1. DOMAIN heap = {mData[v] : v \in {w \in alive : mDataTypeIndex[w] = "string"}}
    BY DEF DataInv, HeapInv, TextOf
  <2>2. \A v, w \in alive : /\ mDataTypeIndex[v] = "string" /\ mDataTypeIndex[w] = "string"
                            /\ mData[v] = mData[w]
                            => v = w
    BY DEF DataInv, HeapInv, TextOf
  <2>3. QED BY <2>1, <2>2 DEF Data!StringsAreOwned
<1>6. QED BY <1>4, <1>5 DEF ValuesAreKept, Data!ValuesAreKept

\* For any values, texts, blocks and widths of the union's parts, and every order
\* of assignments, copies and destructions: a value reads as it was assigned, and
\* a string has one owner while it lives (setData, operator=, ~RdkShellData).
THEOREM ValuesStayKept == Data!RdkShellDataAssumption => (Data!Spec => []ValuesAreKept)
<1> SUFFICES ASSUME Data!RdkShellDataAssumption
             PROVE  Data!Spec => []ValuesAreKept
  OBVIOUS
<1>1. Data!Init => DataInv
  BY DataInvInitially
<1>2. DataInv /\ [Data!Next]_Data!vars => DataInv'
  BY DataInvKept
<1>3. DataInv => ValuesAreKept
  BY KeptReads
<1>4. QED BY <1>1, <1>2, <1>3, PTL DEF Data!Spec

-----------------------------------------------------------------------------
(* The calls of a display (Calls): what is set of it is what is read of it.    *)
(* The invariant relates what a display is to the history of what callers      *)
(* asked for; it says in addition that a suspended display is hidden and that  *)
(* a place is one that survives the way through an unsigned word.              *)

Ratio == [n : Int, d : Int]

DisplayState ==
    [x : Int, y : Int, w : Nat, h : Nat, opacity : Nat, sx : Ratio, sy : Ratio,
     visible : BOOLEAN, suspended : BOOLEAN, holePunch : BOOLEAN, mimeType : MimeTypes \cup {""}]

Size == [width : Int, height : Int]

\* A display is what was asked of it.
IsAsked(d, asked, fit) ==
    /\ d \in DisplayState /\ asked \in DisplayState /\ fit \in Size
    /\ d.x = asked.x /\ d.y = asked.y /\ Signed(d.x) = d.x /\ Signed(d.y) = d.y
    /\ d.w = asked.w /\ d.h = asked.h
    /\ d.opacity = asked.opacity
    /\ d.sx = asked.sx /\ d.sy = asked.sy
    /\ IF d.suspended THEN ~d.visible ELSE d.visible = asked.visible
    /\ d.holePunch = asked.holePunch /\ d.mimeType = asked.mimeType
    /\ Fits(d.w, d.sx, fit.width) /\ Fits(d.h, d.sy, fit.height)

DisplaysInv ==
    /\ shown \in [Clients -> DisplayState]
    /\ wanted \in [Clients -> [asked : DisplayState, fit : Size]]
    /\ \A c \in Clients : IsAsked(shown[c], wanted[c].asked, wanted[c].fit)

ScreenInv ==
    /\ wantedScreen = [width |-> wantedScreen.width, height |-> wantedScreen.height]
    /\ ~Forced1080 => screen = wantedScreen
    /\ gAppsAVBlacklistStatus \in [DOMAIN gAppsAVBlacklistStatus -> BOOLEAN]
    /\ getBlockedAVApplications = blocked

CallsInv == listed \subseteq Clients /\ DisplaysInv /\ ScreenInv

-----------------------------------------------------------------------------
(* Numbers.                                                                *)

\* A place read as an unsigned number is the one that was set.
LEMMA PlaceSurvives ==
    ASSUME CallsAssumption, NEW n \in Int, Signed(n) = n
    PROVE  Signed(n % Word) = n
<1>1. Word \in Nat /\ Word > 1
  BY DEF CallsAssumption
<1>2. n % Word \in 0..(Word - 1)
  BY <1>1
<1>3. \A m \in 0..(Word - 1) : m % Word = m
  BY <1>1
<1>4. (n % Word) % Word = n % Word
  BY <1>2, <1>3
<1>5. QED BY <1>4 DEF Signed, Wrapped

LEMMA ZeroSurvives ==
    ASSUME CallsAssumption
    PROVE  Signed(0) = 0
<1>1. Word \in Nat /\ Word > 1
  BY DEF CallsAssumption
<1>2. 0 % Word = 0
  BY <1>1
<1>3. Word \div 2 \in Int /\ Word \div 2 > 0
  BY <1>1
<1>4. ~(0 >= Word \div 2)
  BY <1>3
<1>5. QED BY <1>2, <1>4 DEF Signed, Wrapped

-----------------------------------------------------------------------------
(* What the calls ask for, and what RdkCompositor makes of it.             *)

\* A display whose properties are changed to others of their kind is a display.
LEMMA FieldsOfDisplay ==
    ASSUME NEW d \in DisplayState
    PROVE  /\ \A x, y \in Int : [d EXCEPT !.x = x, !.y = y] \in DisplayState
           /\ \A w, h \in Nat : [d EXCEPT !.w = w, !.h = h] \in DisplayState
           /\ \A n \in Nat : [d EXCEPT !.opacity = n] \in DisplayState
           /\ \A sx, sy \in Ratio : [d EXCEPT !.sx = sx, !.sy = sy] \in DisplayState
           /\ \A v \in BOOLEAN : [d EXCEPT !.visible = v] \in DisplayState
           /\ \A s, v \in BOOLEAN : [d EXCEPT !.suspended = s, !.visible = v] \in DisplayState
           /\ \A v \in BOOLEAN : [d EXCEPT !.holePunch = v] \in DisplayState
           /\ \A m \in MimeTypes \cup {""} : [d EXCEPT !.mimeType = m] \in DisplayState
<1>1. \A x, y \in Int : [d EXCEPT !.x = x, !.y = y] \in DisplayState
  BY DEF DisplayState
<1>2. \A w, h \in Nat : [d EXCEPT !.w = w, !.h = h] \in DisplayState
  BY DEF DisplayState
<1>3. \A n \in Nat : [d EXCEPT !.opacity = n] \in DisplayState
  BY DEF DisplayState
<1>4. \A sx, sy \in Ratio : [d EXCEPT !.sx = sx, !.sy = sy] \in DisplayState
  BY DEF DisplayState
<1>5. \A v \in BOOLEAN : [d EXCEPT !.visible = v] \in DisplayState
  BY DEF DisplayState
<1>6. \A s, v \in BOOLEAN : [d EXCEPT !.suspended = s, !.visible = v] \in DisplayState
  BY DEF DisplayState
<1>7. \A v \in BOOLEAN : [d EXCEPT !.holePunch = v] \in DisplayState
  BY DEF DisplayState
<1>8. \A m \in MimeTypes \cup {""} : [d EXCEPT !.mimeType = m] \in DisplayState
  BY DEF DisplayState
<1>9. QED BY <1>1, <1>2, <1>3, <1>4, <1>5, <1>6, <1>7, <1>8

LEMMA NoFitIsSize == NoFit \in Size
BY DEF NoFit, Size

\* A display that is new is as nobody asked for.
LEMMA DefaultIsAsked ==
    ASSUME CallsAssumption
    PROVE  /\ IsAsked(Default, Default, NoFit) /\ NothingAsked = [asked |-> Default, fit |-> NoFit]
           /\ Default \in DisplayState /\ NothingAsked \in [asked : DisplayState, fit : Size]
<1>1. Fraction(1, 1) \in Ratio
  BY DEF Fraction, Ratio
<1>2. Default \in DisplayState
  BY <1>1 DEF Default, DisplayState
<1>3. NoFit \in Size
  BY NoFitIsSize
<1>4. /\ Default.x = 0 /\ Default.y = 0 /\ ~Default.suspended
  BY DEF Default
<1>5. Signed(0) = 0
  BY ZeroSurvives
<1>6. NoFit.width < 0 /\ NoFit.height < 0
  BY DEF NoFit
<1>7. IsAsked(Default, Default, NoFit)
  BY <1>2, <1>3, <1>4, <1>5, <1>6 DEF IsAsked, Fits
<1>8. NothingAsked = [asked |-> Default, fit |-> NoFit]
  BY DEF NothingAsked
<1>9. QED BY <1>2, <1>3, <1>7, <1>8

\* A display that has to fit nothing is still what was asked.
LEMMA AskedWithoutFit ==
    ASSUME NEW d, NEW a, NEW fit, IsAsked(d, a, fit)
    PROVE  IsAsked(d, a, NoFit)
<1>1. NoFit.width < 0 /\ NoFit.height < 0
  BY DEF NoFit
<1>2. QED BY <1>1, NoFitIsSize DEF IsAsked, Fits

LEMMA PositionAsked ==
    ASSUME NEW d, NEW a, NEW fit, IsAsked(d, a, fit),
           NEW x \in Int, NEW y \in Int, Signed(x) = x, Signed(y) = y
    PROVE  IsAsked(setPosition(d, x, y), [a EXCEPT !.x = x, !.y = y], fit)
<1> DEFINE e == [d EXCEPT !.x = x, !.y = y]
           q == [a EXCEPT !.x = x, !.y = y]
<1>1. d \in DisplayState /\ a \in DisplayState
  BY DEF IsAsked
<1>2. e \in DisplayState /\ q \in DisplayState
  BY <1>1, FieldsOfDisplay
<1>3. /\ e.x = x /\ e.y = y /\ e.w = d.w /\ e.h = d.h /\ e.opacity = d.opacity
      /\ e.sx = d.sx /\ e.sy = d.sy /\ e.visible = d.visible /\ e.suspended = d.suspended
      /\ e.holePunch = d.holePunch /\ e.mimeType = d.mimeType
  BY <1>1 DEF DisplayState
<1>4. /\ q.x = x /\ q.y = y /\ q.w = a.w /\ q.h = a.h /\ q.opacity = a.opacity
      /\ q.sx = a.sx /\ q.sy = a.sy /\ q.visible = a.visible
      /\ q.holePunch = a.holePunch /\ q.mimeType = a.mimeType
  BY <1>1 DEF DisplayState
<1> HIDE DEF e, q
<1>5. IsAsked(e, q, fit)
  BY <1>2, <1>3, <1>4 DEF IsAsked
<1>6. QED BY <1>5 DEF e, q, setPosition

LEMMA SizeAsked ==
    ASSUME NEW d, NEW a, NEW fit, IsAsked(d, a, fit), NEW w \in Nat, NEW h \in Nat
    PROVE  IsAsked(setSize(d, w, h), [a EXCEPT !.w = w, !.h = h], NoFit)
<1> DEFINE e == [d EXCEPT !.w = w, !.h = h]
           q == [a EXCEPT !.w = w, !.h = h]
<1>1. d \in DisplayState /\ a \in DisplayState
  BY DEF IsAsked
<1>2. e \in DisplayState /\ q \in DisplayState
  BY <1>1, FieldsOfDisplay
<1>3. /\ e.x = d.x /\ e.y = d.y /\ e.w = w /\ e.h = h /\ e.opacity = d.opacity
      /\ e.sx = d.sx /\ e.sy = d.sy /\ e.visible = d.visible /\ e.suspended = d.suspended
      /\ e.holePunch = d.holePunch /\ e.mimeType = d.mimeType
  BY <1>1 DEF DisplayState
<1>4. /\ q.x = a.x /\ q.y = a.y /\ q.w = w /\ q.h = h /\ q.opacity = a.opacity
      /\ q.sx = a.sx /\ q.sy = a.sy /\ q.visible = a.visible
      /\ q.holePunch = a.holePunch /\ q.mimeType = a.mimeType
  BY <1>1 DEF DisplayState
<1>5. NoFit.width < 0 /\ NoFit.height < 0
  BY DEF NoFit
<1> HIDE DEF e, q
<1>6. IsAsked(e, q, NoFit)
  BY <1>2, <1>3, <1>4, <1>5, NoFitIsSize DEF IsAsked, Fits
<1>7. QED BY <1>6 DEF e, q, setSize

\* A scale that makes a display fit is one of the size it has.
LEMMA ScaleAsked ==
    ASSUME NEW d, NEW a, NEW fit, IsAsked(d, a, fit), NEW sx \in Ratio, NEW sy \in Ratio,
           NEW on \in Size, Fits(d.w, AskedScale(d.sx, sx), on.width),
           Fits(d.h, AskedScale(d.sy, sy), on.height)
    PROVE  IsAsked(setScale(d, sx, sy),
                   [a EXCEPT !.sx = AskedScale(@, sx), !.sy = AskedScale(@, sy)], on)
<1> DEFINE x == AskedScale(d.sx, sx)
           y == AskedScale(d.sy, sy)
           e == [d EXCEPT !.sx = x, !.sy = y]
           q == [a EXCEPT !.sx = x, !.sy = y]
<1>1. d \in DisplayState /\ a \in DisplayState /\ d.sx = a.sx /\ d.sy = a.sy
  BY DEF IsAsked
<1>2. d.sx \in Ratio /\ d.sy \in Ratio
  BY <1>1 DEF DisplayState
<1>3. x \in Ratio /\ y \in Ratio
  BY <1>2 DEF AskedScale
<1>4. setScale(d, sx, sy) = e
  BY DEF setScale, AskedScale
<1>5. q = [a EXCEPT !.sx = AskedScale(@, sx), !.sy = AskedScale(@, sy)]
  BY <1>1
<1>6. Fits(d.w, x, on.width) /\ Fits(d.h, y, on.height)
  OBVIOUS
<1> HIDE DEF x, y
<1>7. e \in DisplayState /\ q \in DisplayState
  BY <1>1, <1>3, FieldsOfDisplay
<1>8. /\ e.x = d.x /\ e.y = d.y /\ e.w = d.w /\ e.h = d.h /\ e.opacity = d.opacity
      /\ e.sx = x /\ e.sy = y /\ e.visible = d.visible /\ e.suspended = d.suspended
      /\ e.holePunch = d.holePunch /\ e.mimeType = d.mimeType
  BY <1>1 DEF DisplayState
<1>9. /\ q.x = a.x /\ q.y = a.y /\ q.w = a.w /\ q.h = a.h /\ q.opacity = a.opacity
      /\ q.sx = x /\ q.sy = y /\ q.visible = a.visible
      /\ q.holePunch = a.holePunch /\ q.mimeType = a.mimeType
  BY <1>1 DEF DisplayState
<1> HIDE DEF e, q
<1>10. IsAsked(e, q, on)
  BY <1>6, <1>7, <1>8, <1>9 DEF IsAsked
<1>11. QED BY <1>4, <1>5, <1>10 DEF e, q

LEMMA OpacityAsked ==
    ASSUME NEW d, NEW a, NEW fit, IsAsked(d, a, fit), NEW n \in Nat
    PROVE  IsAsked(setOpacity(d, n), [a EXCEPT !.opacity = n], fit)
<1> DEFINE e == [d EXCEPT !.opacity = n]
           q == [a EXCEPT !.opacity = n]
<1>1. d \in DisplayState /\ a \in DisplayState
  BY DEF IsAsked
<1>2. e \in DisplayState /\ q \in DisplayState
  BY <1>1, FieldsOfDisplay
<1>3. /\ e.x = d.x /\ e.y = d.y /\ e.w = d.w /\ e.h = d.h /\ e.opacity = n
      /\ e.sx = d.sx /\ e.sy = d.sy /\ e.visible = d.visible /\ e.suspended = d.suspended
      /\ e.holePunch = d.holePunch /\ e.mimeType = d.mimeType
  BY <1>1 DEF DisplayState
<1>4. /\ q.x = a.x /\ q.y = a.y /\ q.w = a.w /\ q.h = a.h /\ q.opacity = n
      /\ q.sx = a.sx /\ q.sy = a.sy /\ q.visible = a.visible
      /\ q.holePunch = a.holePunch /\ q.mimeType = a.mimeType
  BY <1>1 DEF DisplayState
<1> HIDE DEF e, q
<1>5. IsAsked(e, q, fit)
  BY <1>2, <1>3, <1>4 DEF IsAsked
<1>6. QED BY <1>5 DEF e, q, setOpacity

\* A display that is suspended, resumed, shown or hidden; it is hidden while it is
\* suspended, whatever was asked.
LEMMA VisibleAsked ==
    ASSUME NEW d, NEW a, NEW fit, IsAsked(d, a, fit),
           NEW s \in BOOLEAN, NEW v \in BOOLEAN, NEW u \in BOOLEAN,
           IF s THEN ~v ELSE v = u
    PROVE  IsAsked([d EXCEPT !.suspended = s, !.visible = v], [a EXCEPT !.visible = u], fit)
<1> DEFINE e == [d EXCEPT !.suspended = s, !.visible = v]
           q == [a EXCEPT !.visible = u]
<1>1. d \in DisplayState /\ a \in DisplayState
  BY DEF IsAsked
<1>2. e \in DisplayState /\ q \in DisplayState
  BY <1>1, FieldsOfDisplay
<1>3. /\ e.x = d.x /\ e.y = d.y /\ e.w = d.w /\ e.h = d.h /\ e.opacity = d.opacity
      /\ e.sx = d.sx /\ e.sy = d.sy /\ e.visible = v /\ e.suspended = s
      /\ e.holePunch = d.holePunch /\ e.mimeType = d.mimeType
  BY <1>1 DEF DisplayState
<1>4. /\ q.x = a.x /\ q.y = a.y /\ q.w = a.w /\ q.h = a.h /\ q.opacity = a.opacity
      /\ q.sx = a.sx /\ q.sy = a.sy /\ q.visible = u
      /\ q.holePunch = a.holePunch /\ q.mimeType = a.mimeType
  BY <1>1 DEF DisplayState
<1> HIDE DEF e, q
<1>5. IsAsked(e, q, fit)
  BY <1>2, <1>3, <1>4 DEF IsAsked
<1>6. QED BY <1>5 DEF e, q

\* setVisible(): of a suspended display it does nothing but hide it.
LEMMA SetVisibleAsked ==
    ASSUME NEW d, NEW a, NEW fit, IsAsked(d, a, fit), NEW u \in BOOLEAN
    PROVE  IsAsked(setVisible(d, u), [a EXCEPT !.visible = u], fit)
<1> DEFINE v == setVisible(d, u).visible
<1>1. d \in DisplayState /\ (d.suspended => ~d.visible)
  BY DEF IsAsked
<1>2. d.suspended \in BOOLEAN /\ d.visible \in BOOLEAN
  BY <1>1 DEF DisplayState
<1>3. /\ v \in BOOLEAN /\ (IF d.suspended THEN ~v ELSE v = u)
      /\ setVisible(d, u) = [d EXCEPT !.suspended = d.suspended, !.visible = v]
  <2>1. CASE u /\ d.suspended
    <3>1. setVisible(d, u) = d
      BY <2>1 DEF setVisible
    <3>2. d = [d EXCEPT !.suspended = d.suspended, !.visible = d.visible]
      BY <1>1 DEF DisplayState
    <3>3. QED BY <1>1, <1>2, <2>1, <3>1, <3>2
  <2>2. CASE ~(u /\ d.suspended)
    <3>1. setVisible(d, u) = [d EXCEPT !.visible = u]
      BY <2>2 DEF setVisible
    <3>2. [d EXCEPT !.visible = u] = [d EXCEPT !.suspended = d.suspended, !.visible = u]
      BY <1>1 DEF DisplayState
    <3>3. [d EXCEPT !.visible = u].visible = u
      BY <1>1 DEF DisplayState
    <3>4. QED BY <1>2, <2>2, <3>1, <3>2, <3>3
  <2>3. QED BY <2>1, <2>2
<1> DEFINE s == d.suspended
<1>4. /\ s \in BOOLEAN /\ v \in BOOLEAN /\ (IF s THEN ~v ELSE v = u)
      /\ setVisible(d, u) = [d EXCEPT !.suspended = s, !.visible = v]
  BY <1>2, <1>3
<1> HIDE DEF v, s
<1>5. IsAsked([d EXCEPT !.suspended = s, !.visible = v], [a EXCEPT !.visible = u], fit)
  BY <1>4, VisibleAsked
<1>6. QED BY <1>4, <1>5

\* The hole punch and the type of what an application shows.
LEMMA OthersAsked ==
    ASSUME NEW d, NEW a, NEW fit, IsAsked(d, a, fit),
           NEW v \in BOOLEAN, NEW m \in MimeTypes \cup {""}
    PROVE  /\ IsAsked([d EXCEPT !.holePunch = v], [a EXCEPT !.holePunch = v], fit)
           /\ IsAsked([d EXCEPT !.mimeType = m], [a EXCEPT !.mimeType = m], fit)
<1>1. d \in DisplayState /\ a \in DisplayState
  BY DEF IsAsked
<1>2. IsAsked([d EXCEPT !.holePunch = v], [a EXCEPT !.holePunch = v], fit)
  <2> DEFINE e == [d EXCEPT !.holePunch = v]
             q == [a EXCEPT !.holePunch = v]
  <2>1. e \in DisplayState /\ q \in DisplayState
    BY <1>1, FieldsOfDisplay
  <2>2. /\ e.x = d.x /\ e.y = d.y /\ e.w = d.w /\ e.h = d.h /\ e.opacity = d.opacity
        /\ e.sx = d.sx /\ e.sy = d.sy /\ e.visible = d.visible /\ e.suspended = d.suspended
        /\ e.holePunch = v /\ e.mimeType = d.mimeType
    BY <1>1 DEF DisplayState
  <2>3. /\ q.x = a.x /\ q.y = a.y /\ q.w = a.w /\ q.h = a.h /\ q.opacity = a.opacity
        /\ q.sx = a.sx /\ q.sy = a.sy /\ q.visible = a.visible
        /\ q.holePunch = v /\ q.mimeType = a.mimeType
    BY <1>1 DEF DisplayState
  <2> HIDE DEF e, q
  <2>4. IsAsked(e, q, fit)
    BY <2>1, <2>2, <2>3 DEF IsAsked
  <2>5. QED BY <2>4 DEF e, q
<1>3. IsAsked([d EXCEPT !.mimeType = m], [a EXCEPT !.mimeType = m], fit)
  <2> DEFINE e == [d EXCEPT !.mimeType = m]
             q == [a EXCEPT !.mimeType = m]
  <2>1. e \in DisplayState /\ q \in DisplayState
    BY <1>1, FieldsOfDisplay
  <2>2. /\ e.x = d.x /\ e.y = d.y /\ e.w = d.w /\ e.h = d.h /\ e.opacity = d.opacity
        /\ e.sx = d.sx /\ e.sy = d.sy /\ e.visible = d.visible /\ e.suspended = d.suspended
        /\ e.holePunch = d.holePunch /\ e.mimeType = m
    BY <1>1 DEF DisplayState
  <2>3. /\ q.x = a.x /\ q.y = a.y /\ q.w = a.w /\ q.h = a.h /\ q.opacity = a.opacity
        /\ q.sx = a.sx /\ q.sy = a.sy /\ q.visible = a.visible
        /\ q.holePunch = a.holePunch /\ q.mimeType = m
    BY <1>1 DEF DisplayState
  <2> HIDE DEF e, q
  <2>4. IsAsked(e, q, fit)
    BY <2>1, <2>2, <2>3 DEF IsAsked
  <2>5. QED BY <2>4 DEF e, q
<1>4. QED BY <1>2, <1>3

-----------------------------------------------------------------------------
(* The calls.                                                              *)

\* A call that sets of a display what it asks for.
LEMMA SetKeeps ==
    ASSUME CallsInv, NEW c \in Clients, NEW d, NEW a, NEW fit, IsAsked(d, a, fit),
           Set(c, d, a, fit)
    PROVE  CallsInv'
<1>1. d \in DisplayState /\ a \in DisplayState /\ fit \in Size
  BY DEF IsAsked
<1>2. /\ shown \in [Clients -> DisplayState] /\ shown' = [shown EXCEPT ![c] = d]
      /\ wanted \in [Clients -> [asked : DisplayState, fit : Size]]
      /\ wanted' = [wanted EXCEPT ![c] = [asked |-> a, fit |-> fit]]
  BY DEF CallsInv, DisplaysInv, Set
<1>3. [asked |-> a, fit |-> fit] \in [asked : DisplayState, fit : Size]
  BY <1>1
<1>4. shown' \in [Clients -> DisplayState]
  BY <1>1, <1>2
<1>5. wanted' \in [Clients -> [asked : DisplayState, fit : Size]]
  BY <1>2, <1>3
<1>6. ASSUME NEW o \in Clients
      PROVE  IsAsked(shown'[o], wanted'[o].asked, wanted'[o].fit)
  <2>1. CASE o = c
    <3>1. shown'[o] = d /\ wanted'[o] = [asked |-> a, fit |-> fit]
      BY <1>2, <2>1
    <3>2. QED BY <3>1
  <2>2. CASE o # c
    <3>1. shown'[o] = shown[o] /\ wanted'[o] = wanted[o]
      BY <1>2, <2>2
    <3>2. IsAsked(shown[o], wanted[o].asked, wanted[o].fit)
      BY DEF CallsInv, DisplaysInv
    <3>3. QED BY <3>1, <3>2
  <2>3. QED BY <2>1, <2>2
<1>7. DisplaysInv'
  BY <1>4, <1>5, <1>6 DEF DisplaysInv, IsAsked, Fits, Signed, Wrapped
<1>8. ScreenInv'
  BY DEF CallsInv, ScreenInv, Set, globals, getBlockedAVApplications
<1>9. listed' \subseteq Clients
  BY DEF CallsInv, Set
<1>10. QED BY <1>7, <1>8, <1>9 DEF CallsInv

\* What the invariant says of one display.
LEMMA OfDisplay ==
    ASSUME CallsInv, NEW c \in Clients
    PROVE  /\ IsAsked(shown[c], Asked(c), wanted[c].fit)
           /\ shown[c] \in DisplayState /\ Asked(c) \in DisplayState
BY DEF CallsInv, DisplaysInv, IsAsked, Asked

\* Bounds a call may pass.
Place(b) == /\ b.x \in Int /\ b.y \in Int /\ b.w \in Nat /\ b.h \in Nat
            /\ Signed(b.x) = b.x /\ Signed(b.y) = b.y

LEMMA SetBoundsKeeps ==
    ASSUME CallsInv, NEW c \in Clients, NEW b, Place(b), SetBounds(c, b)
    PROVE  CallsInv'
<1> DEFINE d == shown[c]
           a == Asked(c)
           moved == [a EXCEPT !.x = b.x, !.y = b.y]
           e == setSize(setPosition(d, b.x, b.y), b.w, b.h)
           q == [a EXCEPT !.x = b.x, !.y = b.y, !.w = b.w, !.h = b.h]
<1>1. IsAsked(d, a, wanted[c].fit) /\ a \in DisplayState
  BY OfDisplay
<1>2. IsAsked(setPosition(d, b.x, b.y), moved, wanted[c].fit)
  BY <1>1, PositionAsked DEF Place
<1>3. IsAsked(e, [moved EXCEPT !.w = b.w, !.h = b.h], NoFit)
  <2> HIDE DEF moved
  <2>1. QED BY <1>2, SizeAsked DEF Place
<1>4. [moved EXCEPT !.w = b.w, !.h = b.h] = q
  BY <1>1 DEF DisplayState
<1>5. Set(c, e, q, NoFit)
  BY DEF SetBounds, Place
<1> HIDE DEF d, a, e, q, moved
<1>6. QED BY <1>3, <1>4, <1>5, SetKeeps

LEMMA ScaleToFitKeeps ==
    ASSUME CallsInv, NEW c \in Clients, NEW b, Place(b), ScaleToFit(c, b)
    PROVE  CallsInv'
<1> DEFINE d == shown[c]
           a == Asked(c)
           moved == [a EXCEPT !.x = b.x, !.y = b.y]
           put == setPosition(d, b.x, b.y)
           sx == Fraction(b.w, d.w)
           sy == Fraction(b.h, d.h)
           on == [width |-> b.w, height |-> b.h]
           e == setScale(put, sx, sy)
           q == [a EXCEPT !.x = b.x, !.y = b.y, !.sx = AskedScale(@, sx),
                          !.sy = AskedScale(@, sy)]
<1>1. IsAsked(d, a, wanted[c].fit) /\ a \in DisplayState /\ d \in DisplayState
  BY OfDisplay
<1>2. IsAsked(put, moved, wanted[c].fit)
  BY <1>1, PositionAsked DEF Place
<1>3. d.w \in Nat /\ d.h \in Nat /\ put.w = d.w /\ put.h = d.h
  BY <1>1 DEF DisplayState, setPosition
<1>4. sx \in Ratio /\ sy \in Ratio /\ on \in Size
  BY <1>3 DEF Ratio, Size, Fraction, Place
<1>5. /\ sx.n = b.w /\ sx.d = d.w /\ sy.n = b.h /\ sy.d = d.h
      /\ on.width = b.w /\ on.height = b.h
  BY DEF Fraction
<1>6. Fits(d.w, AskedScale(put.sx, sx), b.w)
  <2>1. CASE d.w = 0
    BY <2>1 DEF Fits
  <2>2. CASE d.w # 0
    <3>1. AskedScale(put.sx, sx) = sx
      BY <1>3, <1>5, <2>2 DEF AskedScale, Counts, Place
    <3>2. d.w * b.w = b.w * d.w
      BY <1>3 DEF Place
    <3>3. QED BY <1>5, <3>1, <3>2 DEF Fits
  <2>3. QED BY <2>1, <2>2
<1>7. Fits(d.h, AskedScale(put.sy, sy), b.h)
  <2>1. CASE d.h = 0
    BY <2>1 DEF Fits
  <2>2. CASE d.h # 0
    <3>1. AskedScale(put.sy, sy) = sy
      BY <1>3, <1>5, <2>2 DEF AskedScale, Counts, Place
    <3>2. d.h * b.h = b.h * d.h
      BY <1>3 DEF Place
    <3>3. QED BY <1>5, <3>1, <3>2 DEF Fits
  <2>3. QED BY <2>1, <2>2
<1>8. moved.sx = a.sx /\ moved.sy = a.sy
  BY <1>1 DEF DisplayState
<1>9. IsAsked(e, [moved EXCEPT !.sx = AskedScale(@, sx), !.sy = AskedScale(@, sy)], on)
  <2>1. /\ Fits(put.w, AskedScale(put.sx, sx), on.width)
        /\ Fits(put.h, AskedScale(put.sy, sy), on.height)
    BY <1>3, <1>5, <1>6, <1>7
  <2> HIDE DEF moved, put, sx, sy, on
  <2>2. QED BY <1>2, <1>4, <2>1, ScaleAsked
<1>10. [moved EXCEPT !.sx = AskedScale(@, sx), !.sy = AskedScale(@, sy)] = q
  <2> DEFINE x == AskedScale(a.sx, sx)
             y == AskedScale(a.sy, sy)
  <2>1. /\ [moved EXCEPT !.sx = AskedScale(@, sx), !.sy = AskedScale(@, sy)]
             = [moved EXCEPT !.sx = x, !.sy = y]
        /\ q = [a EXCEPT !.x = b.x, !.y = b.y, !.sx = x, !.sy = y]
    BY <1>8
  <2> HIDE DEF x, y
  <2>2. [moved EXCEPT !.sx = x, !.sy = y] = [a EXCEPT !.x = b.x, !.y = b.y, !.sx = x, !.sy = y]
    BY <1>1 DEF DisplayState
  <2>3. QED BY <2>1, <2>2
<1>11. Set(c, e, q, on)
  BY DEF ScaleToFit
<1> HIDE DEF e, q, moved, on
<1>12. QED BY <1>9, <1>10, <1>11, SetKeeps

LEMMA SetScaleKeeps ==
    ASSUME CallsInv, NEW c \in Clients, NEW sx \in Ratio, NEW sy \in Ratio, SetScale(c, sx, sy)
    PROVE  CallsInv'
<1>1. IsAsked(shown[c], Asked(c), wanted[c].fit)
  BY OfDisplay
<1>2. NoFit.width < 0 /\ NoFit.height < 0 /\ NoFit \in Size
  BY NoFitIsSize DEF NoFit
<1>3. \A size, scale : Fits(size, scale, NoFit.width) /\ Fits(size, scale, NoFit.height)
  BY <1>2 DEF Fits
<1>4. IsAsked(setScale(shown[c], sx, sy),
              [Asked(c) EXCEPT !.sx = AskedScale(@, sx), !.sy = AskedScale(@, sy)], NoFit)
  BY <1>1, <1>2, <1>3, ScaleAsked
<1>5. QED BY <1>4, SetKeeps DEF SetScale

LEMMA SetClientInfoKeeps ==
    ASSUME CallsInv, NEW c \in Clients, NEW v \in BOOLEAN, NEW n \in Nat,
           NEW sx \in Ratio, NEW sy \in Ratio, NEW b, Place(b),
           SetClientInfo(c, v, n, sx, sy, b)
    PROVE  CallsInv'
<1> DEFINE d == shown[c]
           a == Asked(c)
           fit == wanted[c].fit
           d1 == setVisible(d, v)
           a1 == [a EXCEPT !.visible = v]
           d2 == setOpacity(d1, n)
           a2 == [a1 EXCEPT !.opacity = n]
           d3 == setScale(d2, sx, sy)
           a3 == [a2 EXCEPT !.sx = AskedScale(@, sx), !.sy = AskedScale(@, sy)]
           d4 == setPosition(d3, b.x, b.y)
           a4 == [a3 EXCEPT !.x = b.x, !.y = b.y]
           d5 == setSize(d4, b.w, b.h)
           a5 == [a4 EXCEPT !.w = b.w, !.h = b.h]
           x == AskedScale(a.sx, sx)
           y == AskedScale(a.sy, sy)
           q == [a EXCEPT !.visible = v, !.opacity = n, !.sx = AskedScale(@, sx),
                          !.sy = AskedScale(@, sy), !.x = b.x, !.y = b.y, !.w = b.w, !.h = b.h]
<1>1. IsAsked(d, a, fit) /\ a \in DisplayState
  BY OfDisplay
<1>2. IsAsked(d1, a1, fit)
  BY <1>1, SetVisibleAsked
<1>3. IsAsked(d2, a2, fit)
  <2> HIDE DEF d1, a1
  <2>1. QED BY <1>2, OpacityAsked
<1>4. NoFit.width < 0 /\ NoFit.height < 0 /\ NoFit \in Size
  BY NoFitIsSize DEF NoFit
<1>5. \A size, scale : Fits(size, scale, NoFit.width) /\ Fits(size, scale, NoFit.height)
  BY <1>4 DEF Fits
<1>6. IsAsked(d3, a3, NoFit)
  <2> HIDE DEF d2, a2
  <2>1. QED BY <1>3, <1>4, <1>5, ScaleAsked
<1>7. IsAsked(d4, a4, NoFit)
  <2> HIDE DEF d3, a3
  <2>1. QED BY <1>6, PositionAsked DEF Place
<1>8. IsAsked(d5, a5, NoFit)
  <2> HIDE DEF d4, a4
  <2>1. QED BY <1>7, SizeAsked DEF Place
<1>9. a5 = q
  <2>1. a2.sx = a.sx /\ a2.sy = a.sy
    BY <1>1 DEF DisplayState
  <2>2. a3 = [a2 EXCEPT !.sx = x, !.sy = y]
    BY <2>1
  <2>3. q = [a EXCEPT !.visible = v, !.opacity = n, !.sx = x, !.sy = y,
                      !.x = b.x, !.y = b.y, !.w = b.w, !.h = b.h]
    OBVIOUS
  <2> HIDE DEF x, y, a3, q
  <2>4. QED BY <1>1, <2>2, <2>3 DEF DisplayState
<1>10. Set(c, d5, q, NoFit)
  BY DEF SetClientInfo
<1> HIDE DEF d5, a5, q
<1>11. QED BY <1>8, <1>9, <1>10, SetKeeps

LEMMA SuspensionKeeps ==
    ASSUME CallsInv, NEW c \in Clients, Suspend(c) \/ Resume(c)
    PROVE  CallsInv'
<1>1. IsAsked(shown[c], Asked(c), wanted[c].fit)
  BY OfDisplay
<1>2. CASE Suspend(c)
  <2>1. IsAsked([shown[c] EXCEPT !.suspended = TRUE, !.visible = FALSE],
                [Asked(c) EXCEPT !.visible = FALSE], wanted[c].fit)
    BY <1>1, VisibleAsked
  <2>2. QED BY <1>2, <2>1, SetKeeps DEF Suspend
<1>3. CASE Resume(c)
  <2>1. IsAsked([shown[c] EXCEPT !.suspended = FALSE, !.visible = TRUE],
                [Asked(c) EXCEPT !.visible = TRUE], wanted[c].fit)
    BY <1>1, VisibleAsked
  <2>2. QED BY <1>3, <2>1, SetKeeps DEF Resume
<1>4. QED BY <1>2, <1>3

LEMMA OneFieldKeeps ==
    ASSUME CallsInv, NEW c \in Clients,
           \/ \E v \in BOOLEAN : SetVisibility(c, v) \/ SetHolePunch(c, v)
           \/ \E n \in Nat : SetOpacity(c, n)
           \/ \E m \in MimeTypes : SetMimeType(c, m)
    PROVE  CallsInv'
<1>1. IsAsked(shown[c], Asked(c), wanted[c].fit)
  BY OfDisplay
<1>2. ASSUME NEW v \in BOOLEAN, SetVisibility(c, v) PROVE CallsInv'
  <2>1. IsAsked(setVisible(shown[c], v), [Asked(c) EXCEPT !.visible = v], wanted[c].fit)
    BY <1>1, SetVisibleAsked
  <2>2. QED BY <1>2, <2>1, SetKeeps DEF SetVisibility
<1>3. ASSUME NEW n \in Nat, SetOpacity(c, n) PROVE CallsInv'
  <2>1. IsAsked(setOpacity(shown[c], n), [Asked(c) EXCEPT !.opacity = n], wanted[c].fit)
    BY <1>1, OpacityAsked
  <2>2. QED BY <1>3, <2>1, SetKeeps DEF SetOpacity
<1>4. ASSUME NEW v \in BOOLEAN, SetHolePunch(c, v) PROVE CallsInv'
  <2>1. "" \in MimeTypes \cup {""}
    OBVIOUS
  <2>2. IsAsked([shown[c] EXCEPT !.holePunch = v], [Asked(c) EXCEPT !.holePunch = v],
                wanted[c].fit)
    BY <1>1, <2>1, OthersAsked
  <2>3. QED BY <1>4, <2>2, SetKeeps DEF SetHolePunch
<1>5. ASSUME NEW m \in MimeTypes, SetMimeType(c, m) PROVE CallsInv'
  <2>1. IsAsked([shown[c] EXCEPT !.mimeType = m], [Asked(c) EXCEPT !.mimeType = m],
                wanted[c].fit)
    BY <1>1, OthersAsked
  <2>2. QED BY <1>5, <2>1, SetKeeps DEF SetMimeType
<1>6. QED BY <1>2, <1>3, <1>4, <1>5

\* Displays come and go.
LEMMA DisplaysComeAndGo ==
    ASSUME CallsAssumption, CallsInv, NEW c \in Clients, CreateDisplay(c) \/ Kill(c)
    PROVE  CallsInv'
<1>1. CASE CreateDisplay(c)
  <2>1. /\ IsAsked(Default, Default, NoFit) /\ NothingAsked = [asked |-> Default, fit |-> NoFit]
        /\ Default \in DisplayState /\ NothingAsked \in [asked : DisplayState, fit : Size]
    BY DefaultIsAsked
  <2>2. /\ shown \in [Clients -> DisplayState]
        /\ wanted \in [Clients -> [asked : DisplayState, fit : Size]]
    BY DEF CallsInv, DisplaysInv
  <2>3. /\ shown' = [shown EXCEPT ![c] = Default] /\ wanted' = [wanted EXCEPT ![c] = NothingAsked]
        /\ listed' = listed \cup {c}
    BY <1>1 DEF CreateDisplay
  <2>4. /\ shown' \in [Clients -> DisplayState]
        /\ wanted' \in [Clients -> [asked : DisplayState, fit : Size]]
    BY <2>1, <2>2, <2>3
  <2>5. ASSUME NEW o \in Clients
        PROVE  IsAsked(shown'[o], wanted'[o].asked, wanted'[o].fit)
    <3>1. CASE o = c
      <4>1. shown'[o] = Default /\ wanted'[o] = [asked |-> Default, fit |-> NoFit]
        BY <2>1, <2>2, <2>3, <3>1
      <4>2. QED BY <2>1, <4>1
    <3>2. CASE o # c
      <4>1. shown'[o] = shown[o] /\ wanted'[o] = wanted[o]
        BY <2>2, <2>3, <3>2
      <4>2. IsAsked(shown[o], wanted[o].asked, wanted[o].fit)
        BY DEF CallsInv, DisplaysInv
      <4>3. QED BY <4>1, <4>2
    <3>3. QED BY <3>1, <3>2
  <2>6. DisplaysInv'
    BY <2>4, <2>5 DEF DisplaysInv, IsAsked, Fits, Signed, Wrapped
  <2>7. ScreenInv'
    BY <1>1 DEF CallsInv, ScreenInv, CreateDisplay, globals, getBlockedAVApplications
  <2>8. QED BY <2>3, <2>6, <2>7 DEF CallsInv
<1>2. CASE Kill(c)
  BY <1>2 DEF Kill, CallsInv, DisplaysInv, ScreenInv, globals, getBlockedAVApplications,
              IsAsked, Fits, Signed, Wrapped
<1>3. QED BY <1>1, <1>2

\* A call that is about no display.
LEMMA ScreenKeeps ==
    ASSUME CallsInv,
           \/ \E width, height \in Nat : SetScreenResolution(width, height)
           \/ \E app \in Applications, block \in BOOLEAN : SetAVBlocked(app, block)
    PROVE  CallsInv'
<1>1. ASSUME NEW width \in Nat, NEW height \in Nat, SetScreenResolution(width, height)
      PROVE  CallsInv'
  <2>1. ScreenInv'
    BY <1>1 DEF CallsInv, ScreenInv, SetScreenResolution, getBlockedAVApplications
  <2>2. DisplaysInv' /\ listed' \subseteq Clients
    BY <1>1 DEF CallsInv, DisplaysInv, SetScreenResolution, IsAsked, Fits, Signed, Wrapped
  <2>3. QED BY <2>1, <2>2 DEF CallsInv
<1>2. ASSUME NEW app \in Applications, NEW block \in BOOLEAN, SetAVBlocked(app, block)
      PROVE  CallsInv'
  <2> DEFINE S == gAppsAVBlacklistStatus
  <2>1. S \in [DOMAIN S -> BOOLEAN] /\ blocked = {x \in DOMAIN S : S[x]}
    BY DEF CallsInv, ScreenInv, getBlockedAVApplications
  <2>2. screen' = screen /\ wantedScreen' = wantedScreen
    BY <1>2 DEF SetAVBlocked
  <2>3. /\ S' \in [DOMAIN S' -> BOOLEAN] /\ {x \in DOMAIN S' : S'[x]} = blocked'
    <3>1. CASE UNCHANGED <<gAppsAVBlacklistStatus, blocked>>
      BY <2>1, <3>1
    <3>2. CASE /\ gAppsAVBlacklistStatus' = Status(app, block)
               /\ blocked' = IF block THEN blocked \cup {app} ELSE blocked \ {app}
      <4> DEFINE D == DOMAIN S \cup {app}
      <4>1. S' = [x \in D |-> IF x = app THEN block ELSE S[x]]
        BY <3>2 DEF Status
      <4>2. DOMAIN S' = D
        BY <4>1
      <4>3. \A x \in D : S'[x] = (IF x = app THEN block ELSE S[x])
        BY <4>1
      <4>4. \A x \in D : S'[x] \in BOOLEAN
        BY <2>1, <4>3
      <4>5. S' \in [DOMAIN S' -> BOOLEAN]
        BY <4>1, <4>2, <4>4
      <4>6. \A x : x \in D /\ S'[x] <=> x \in blocked'
        <5>1. CASE block
          BY <2>1, <3>2, <4>3, <5>1
        <5>2. CASE ~block
          BY <2>1, <3>2, <4>3, <5>2
        <5>3. QED BY <5>1, <5>2
      <4>7. QED BY <4>2, <4>5, <4>6
    <3>3. QED BY <1>2, <3>1, <3>2 DEF SetAVBlocked
  <2>4. ScreenInv'
    BY <2>2, <2>3 DEF CallsInv, ScreenInv, getBlockedAVApplications
  <2>5. DisplaysInv' /\ listed' \subseteq Clients
    BY <1>2 DEF CallsInv, DisplaysInv, SetAVBlocked, IsAsked, Fits, Signed, Wrapped
  <2>6. QED BY <2>4, <2>5 DEF CallsInv
<1>3. QED BY <1>1, <1>2

-----------------------------------------------------------------------------
(* The messages.                                                           *)

\* A parameter is what the call passes, or 0.
LEMMA UintOfPart ==
    ASSUME NEW b, NEW params \in Part(b), NEW name \in DOMAIN b
    PROVE  Uint(params, name) \in {b[name], 0}
<1>1. PICK names \in SUBSET DOMAIN b : params = [n \in names |-> b[n]]
  BY DEF Part
<1>2. CASE name \in names
  BY <1>1, <1>2 DEF Uint
<1>3. CASE name \notin names
  BY <1>1, <1>3 DEF Uint
<1>4. QED BY <1>2, <1>3

LEMMA BoundsArePlaces ==
    ASSUME CallsAssumption
    PROVE  /\ Place(Default)
           /\ \A b \in Bounds : Place(b)
           /\ \A b \in Bounds : \A params \in Part(b) :
                Place([name \in {"x", "y", "w", "h"} |-> Uint(params, name)])
<1>1. Signed(0) = 0
  BY ZeroSurvives
<1>2. Place(Default)
  BY <1>1 DEF Place, Default
<1>3. \A b \in Bounds : Place(b)
  BY DEF CallsAssumption, Place
<1>4. ASSUME NEW b \in Bounds, NEW params \in Part(b)
      PROVE  Place([name \in {"x", "y", "w", "h"} |-> Uint(params, name)])
  <2> DEFINE r == [name \in {"x", "y", "w", "h"} |-> Uint(params, name)]
  <2>1. DOMAIN b = {"x", "y", "w", "h"} /\ Place(b)
    BY <1>3 DEF CallsAssumption
  <2>2. /\ Uint(params, "x") \in {b["x"], 0} /\ Uint(params, "y") \in {b["y"], 0}
        /\ Uint(params, "w") \in {b["w"], 0} /\ Uint(params, "h") \in {b["h"], 0}
    BY <2>1, UintOfPart
  <2>3. r.x \in {b.x, 0} /\ r.y \in {b.y, 0} /\ r.w \in {b.w, 0} /\ r.h \in {b.h, 0}
    BY <2>2
  <2> HIDE DEF r
  <2>4. b.x \in Int /\ b.y \in Int /\ b.w \in Nat /\ b.h \in Nat
    BY <2>1 DEF Place
  <2>5. r.x \in Int /\ r.y \in Int /\ r.w \in Nat /\ r.h \in Nat
    BY <2>3, <2>4
  <2>6. Signed(b.x) = b.x /\ Signed(b.y) = b.y
    BY <2>1 DEF Place
  <2>7. Signed(r.x) = r.x /\ Signed(r.y) = r.y
    BY <1>1, <2>3, <2>6
  <2>8. Place(r)
    BY <2>5, <2>7 DEF Place
  <2>9. QED BY <2>8 DEF r
<1>5. QED BY <1>2, <1>3, <1>4

-----------------------------------------------------------------------------
(* Every step.                                                             *)

LEMMA LayoutKeeps ==
    ASSUME CallsAssumption, CallsInv, NEW c \in Clients, Layout(c)
    PROVE  CallsInv'
<1>1. \A a \in Axes : a[1] \in Ratio /\ a[2] \in Ratio
  <2>1. \A p \in Scales : p[1] \in Int /\ p[2] \in Int
    BY DEF CallsAssumption
  <2>2. \A p \in Scales : Fraction(p[1], 1) \in Ratio /\ Fraction(p[2], 1) \in Ratio
    BY <2>1 DEF Fraction, Ratio
  <2>3. QED BY <2>2 DEF Axes
<1>2. ASSUME NEW b \in Bounds, SetBounds(c, b) \/ ScaleToFit(c, b) PROVE CallsInv'
  BY <1>2, BoundsArePlaces, SetBoundsKeeps, ScaleToFitKeeps
<1>3. ASSUME NEW b \in Bounds, NEW params \in Part(b), setBoundsHandler(c, params)
      PROVE  CallsInv'
  <2>1. CASE Abort
    BY <2>1 DEF Abort, CallsInv, DisplaysInv, ScreenInv, globals, getBlockedAVApplications,
                IsAsked, Fits, Signed, Wrapped
  <2>2. CASE SetBounds(c, [name \in {"x", "y", "w", "h"} |-> Uint(params, name)])
    BY <2>2, BoundsArePlaces, SetBoundsKeeps
  <2>3. QED BY <1>3, <2>1, <2>2 DEF setBoundsHandler
<1>4. ASSUME NEW b \in Bounds, NEW a \in Axes, SetClientInfo(c, TRUE, 100, a[1], a[2], b)
      PROVE  CallsInv'
  BY <1>1, <1>4, BoundsArePlaces, SetClientInfoKeeps
<1>5. ASSUME NEW a \in Axes, SetScale(c, a[1], a[2]) PROVE CallsInv'
  BY <1>1, <1>5, SetScaleKeeps
<1>6. QED BY <1>2, <1>3, <1>4, <1>5 DEF Layout

LEMMA StateKeeps ==
    ASSUME CallsAssumption, CallsInv, NEW c \in Clients, State(c)
    PROVE  CallsInv'
<1>1. Percents \subseteq Nat
  BY DEF CallsAssumption
<1>2. ASSUME NEW v \in BOOLEAN, SetVisibility(c, v) \/ SetHolePunch(c, v) PROVE CallsInv'
  BY <1>2, OneFieldKeeps
<1>3. ASSUME NEW v \in BOOLEAN, NEW n \in Percents,
             SetClientInfo(c, v, n, Fraction(1, 1), Fraction(1, 1), Default)
      PROVE  CallsInv'
  <2>1. Fraction(1, 1) \in Ratio /\ n \in Nat
    BY <1>1 DEF Fraction, Ratio
  <2>2. QED BY <1>3, <2>1, BoundsArePlaces, SetClientInfoKeeps
<1>4. ASSUME NEW n \in Percents, SetOpacity(c, n) PROVE CallsInv'
  BY <1>1, <1>4, OneFieldKeeps
<1>5. ASSUME NEW n \in Percents, NEW params \in Part([opacity |-> n]),
             setOpacityHandler(c, params)
      PROVE  CallsInv'
  <2>1. "opacity" \in DOMAIN [opacity |-> n] /\ [opacity |-> n]["opacity"] = n
    OBVIOUS
  <2>2. Uint(params, "opacity") \in {n, 0}
    <3> DEFINE b == [opacity |-> n]
    <3>1. "opacity" \in DOMAIN b /\ b["opacity"] = n /\ params \in Part(b)
      BY <2>1
    <3> HIDE DEF b
    <3>2. QED BY <3>1, UintOfPart
  <2>3. Uint(params, "opacity") \in Nat
    BY <1>1, <2>2
  <2>4. QED BY <1>5, <2>3, OneFieldKeeps DEF setOpacityHandler
<1>6. ASSUME NEW params \in Part([visible |-> 1]), setVisibilityHandler(c, params)
      PROVE  CallsInv'
  <2>1. ("visible" \in DOMAIN params /\ params["visible"] = 1) \in BOOLEAN
    OBVIOUS
  <2>2. QED BY <1>6, <2>1, OneFieldKeeps DEF setVisibilityHandler
<1>7. ASSUME NEW m \in MimeTypes, SetMimeType(c, m) PROVE CallsInv'
  BY <1>7, OneFieldKeeps
<1>8. CASE Suspend(c) \/ Resume(c)
  BY <1>8, SuspensionKeeps
<1>9. QED BY <1>2, <1>3, <1>4, <1>5, <1>6, <1>7, <1>8 DEF State

LEMMA ChangeScreenKeeps ==
    ASSUME CallsAssumption, CallsInv, ChangeScreen
    PROVE  CallsInv'
<1>1. \A b \in Bounds : b.w \in Nat /\ b.h \in Nat
  BY DEF CallsAssumption
<1>2. ASSUME NEW b \in Bounds, SetScreenResolution(b.w, b.h) PROVE CallsInv'
  BY <1>1, <1>2, ScreenKeeps
<1>3. ASSUME NEW b \in Bounds, NEW params \in Part([w |-> b.w, h |-> b.h]),
             setScreenResolutionHandler(params)
      PROVE  CallsInv'
  <2> DEFINE r == [w |-> b.w, h |-> b.h]
  <2>1. {"w", "h"} = DOMAIN r /\ r["w"] = b.w /\ r["h"] = b.h /\ params \in Part(r)
    OBVIOUS
  <2> HIDE DEF r
  <2>2. Uint(params, "w") \in {b.w, 0} /\ Uint(params, "h") \in {b.h, 0}
    BY <2>1, UintOfPart
  <2>3. Uint(params, "w") \in Nat /\ Uint(params, "h") \in Nat
    BY <1>1, <2>2
  <2>4. QED BY <1>3, <2>3, ScreenKeeps DEF setScreenResolutionHandler
<1>4. ASSUME NEW app \in Applications, NEW block \in BOOLEAN, SetAVBlocked(app, block)
      PROVE  CallsInv'
  BY <1>4, ScreenKeeps
<1>5. QED BY <1>2, <1>3, <1>4 DEF ChangeScreen

LEMMA CallsInvInitially == CallsAssumption /\ CallsInit => CallsInv
<1> SUFFICES ASSUME CallsAssumption, CallsInit PROVE CallsInv
  OBVIOUS
<1>1. /\ IsAsked(Default, Default, NoFit) /\ NothingAsked = [asked |-> Default, fit |-> NoFit]
      /\ Default \in DisplayState /\ NothingAsked \in [asked : DisplayState, fit : Size]
  BY DefaultIsAsked
<1>2. \A c \in Clients : shown[c] = Default /\ wanted[c] = NothingAsked
  BY DEF CallsInit
<1>3. DisplaysInv
  BY <1>1, <1>2 DEF CallsInit, DisplaysInv
<1>4. ScreenInv
  BY DEF CallsInit, ScreenInv, DefaultScreen, getBlockedAVApplications
<1>5. QED BY <1>3, <1>4 DEF CallsInv, CallsInit

LEMMA CallsInvKept == CallsAssumption /\ CallsInv /\ [CallsNext]_callsVars => CallsInv'
<1> SUFFICES ASSUME CallsAssumption, CallsInv, [CallsNext]_callsVars PROVE CallsInv'
  OBVIOUS
<1>1. CASE UNCHANGED callsVars
  BY <1>1 DEF callsVars, CallsInv, DisplaysInv, ScreenInv, getBlockedAVApplications,
              IsAsked, Fits, Signed, Wrapped
<1>2. ASSUME NEW c \in Clients, CreateDisplay(c) \/ Kill(c) \/ Layout(c) \/ State(c)
      PROVE  CallsInv'
  BY <1>2, DisplaysComeAndGo, LayoutKeeps, StateKeeps
<1>3. CASE ChangeScreen
  BY <1>3, ChangeScreenKeeps
<1>4. QED BY <1>1, <1>2, <1>3 DEF CallsNext

-----------------------------------------------------------------------------
(* What the answers are.                                                   *)

LEMMA CallsInvImplies == CallsAssumption /\ CallsInv => AnswerIsLastSet
<1> SUFFICES ASSUME CallsAssumption, CallsInv PROVE AnswerIsLastSet
  OBVIOUS
<1>1. ASSUME NEW c \in listed
      PROVE  LET asked == wanted[c].asked IN
             /\ \A name \in {"x", "y"} : Signed(getBoundsHandler(c)[name]) = asked[name]
             /\ \A name \in {"w", "h"} : getBoundsHandler(c)[name] = asked[name]
             /\ LET visible == getVisibilityHandler(c).visible
                IN  visible = asked.visible \/ (shown[c].suspended /\ ~visible)
             /\ LET opacity == getOpacityHandler(c).opacity
                IN  \/ asked.opacity \in Truncated /\ opacity = asked.opacity - 1
                    \/ opacity = (IF asked.opacity > 100 THEN 100 ELSE asked.opacity)
             /\ getScale(c) = <<asked.sx, asked.sy>>
             /\ getHolePunch(c) = asked.holePunch
             /\ getMimeType(c) = asked.mimeType
             /\ Fits(shown[c].w, shown[c].sx, wanted[c].fit.width)
             /\ Fits(shown[c].h, shown[c].sy, wanted[c].fit.height)
  <2> DEFINE asked == wanted[c].asked
             d == shown[c]
  <2>1. c \in Clients /\ IsAsked(d, asked, wanted[c].fit)
    BY DEF CallsInv, DisplaysInv
  <2>2. /\ d.x \in Int /\ d.y \in Int /\ d.x = asked.x /\ d.y = asked.y
        /\ Signed(d.x) = d.x /\ Signed(d.y) = d.y
    BY <2>1 DEF IsAsked, DisplayState
  <2>3. getBoundsHandler(c) = [x |-> d.x % Word, y |-> d.y % Word, w |-> d.w, h |-> d.h]
    BY DEF getBoundsHandler, Answer, getBounds
  <2>4. \A name \in {"x", "y"} : Signed(getBoundsHandler(c)[name]) = asked[name]
    <3>1. Signed(d.x % Word) = d.x /\ Signed(d.y % Word) = d.y
      BY <2>2, PlaceSurvives
    <3>2. QED BY <2>2, <2>3, <3>1
  <2>5. \A name \in {"w", "h"} : getBoundsHandler(c)[name] = asked[name]
    BY <2>1, <2>3 DEF IsAsked
  <2>6. LET visible == getVisibilityHandler(c).visible
        IN  visible = asked.visible \/ (d.suspended /\ ~visible)
    <3>1. getVisibilityHandler(c).visible = d.visible
      BY DEF getVisibilityHandler, Answer, getVisibility
    <3>2. IF d.suspended THEN ~d.visible ELSE d.visible = asked.visible
      BY <2>1 DEF IsAsked
    <3>3. QED BY <3>1, <3>2
  <2>7. LET opacity == getOpacityHandler(c).opacity
        IN  \/ asked.opacity \in Truncated /\ opacity = asked.opacity - 1
            \/ opacity = (IF asked.opacity > 100 THEN 100 ELSE asked.opacity)
    <3>1. getOpacityHandler(c).opacity = getOpacity(c)
      BY DEF getOpacityHandler, Answer
    <3>2. d.opacity = asked.opacity
      BY <2>1 DEF IsAsked
    <3>3. QED BY <3>1, <3>2 DEF getOpacity
  <2>8. /\ getScale(c) = <<asked.sx, asked.sy>>
        /\ getHolePunch(c) = asked.holePunch
        /\ getMimeType(c) = asked.mimeType
        /\ Fits(d.w, d.sx, wanted[c].fit.width) /\ Fits(d.h, d.sy, wanted[c].fit.height)
    BY <2>1 DEF IsAsked, getScale, getHolePunch, getMimeType
  <2>9. QED BY <2>4, <2>5, <2>6, <2>7, <2>8
<1>2. ASSUME NEW c \in Clients \ listed,
             NEW answer \in {getBoundsHandler(c), getVisibilityHandler(c), getOpacityHandler(c)}
      PROVE  DOMAIN answer = {}
  BY <1>2 DEF getBoundsHandler, getVisibilityHandler, getOpacityHandler, Answer
<1>3. ~Forced1080 => getScreenResolutionHandler = wantedScreen
  BY DEF CallsInv, ScreenInv, getScreenResolutionHandler, getScreenResolution
<1>4. getBlockedAVApplications = blocked
  BY DEF CallsInv, ScreenInv
<1>5. QED BY <1>1, <1>2, <1>3, <1>4 DEF AnswerIsLastSet

\* Every reachable state relates what displays are to what was asked of them.
THEOREM CallsInvariance == CallsAssumption => (CallsSpec => []CallsInv)
<1> SUFFICES ASSUME CallsAssumption PROVE CallsSpec => []CallsInv
  OBVIOUS
<1>1. CallsInit => CallsInv
  BY CallsInvInitially
<1>2. CallsInv /\ [CallsNext]_callsVars => CallsInv'
  BY CallsInvKept
<1>3. QED BY <1>1, <1>2, PTL DEF CallsSpec

\* Whatever of a display was asked for last, by a call or by a message, is what a
\* call or a message about it answers, whichever calls came in between and for
\* whichever displays; no call about one display changes what is answered about
\* another, and a display that is made again has nothing of the one before.
THEOREM WhatIsSetIsRead == CallsAssumption => (CallsSpec => []AnswerIsLastSet)
<1> SUFFICES ASSUME CallsAssumption PROVE CallsSpec => []AnswerIsLastSet
  OBVIOUS
<1>1. CallsInv => AnswerIsLastSet
  BY CallsInvImplies
<1>2. CallsSpec => []CallsInv
  BY CallsInvariance
<1>3. QED BY <1>1, <1>2, PTL

=============================================================================
