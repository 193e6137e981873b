--------------------------- MODULE ListenerProofs ---------------------------
(***************************************************************************)
(* Proofs about Listener, for every chain of transactions, every capacity  *)
(* of the channel and every width of the attempt counter.                  *)
(***************************************************************************)
EXTENDS Listener, TLAPS

Message == Launch \cup Reconnecting

\* The two kinds of message differ in their fields.
LEMMA Kinds ==
  /\ \A m \in Launch : IsLaunch(m) /\ m.tx \in 1 .. Len(Chain) /\ m.nth \in Nat
  /\ \A m \in Reconnecting : ~IsLaunch(m)
<1>1. DOMAIN Chain = 1 .. Len(Chain)
  BY ListenerAssumption
<1>2. QED
  BY <1>1 DEF Launch, Reconnecting, IsLaunch

\* What extract_launches makes of transaction i.
LEMMA ExtractType ==
  ASSUME NEW i \in 1 .. Len(Chain)
  PROVE  /\ ExtractLaunches(i) \in Seq(Launch)
         /\ Len(ExtractLaunches(i)) = Chain[i]
         /\ \A n \in 1 .. Len(ExtractLaunches(i)) :
              ExtractLaunches(i)[n].tx = i /\ ExtractLaunches(i)[n].nth = n
<1>1. Chain[i] \in Nat /\ i \in DOMAIN Chain
  BY ListenerAssumption
<1>2. ExtractLaunches(i) \in Seq(Launch)
  <2>1. \A n \in 1 .. Chain[i] : [tx |-> i, nth |-> n] \in Launch
    BY <1>1 DEF Launch
  <2>2. ExtractLaunches(i) \in [1 .. Chain[i] -> Launch]
    BY <2>1 DEF ExtractLaunches
  <2>3. QED
    BY <1>1, <2>2
<1>3. Len(ExtractLaunches(i)) = Chain[i]
  BY <1>1 DEF ExtractLaunches
<1>4. QED
  BY <1>1, <1>2, <1>3 DEF ExtractLaunches

LEMMA SeqOfMessages == \A s \in Seq(Launch) : s \in Seq(Message)
BY DEF Message

\* The effect of taking a message and of adding one, for any sequence.
LEMMA TailEffect ==
  ASSUME NEW S, NEW s \in Seq(S), s # <<>>
  PROVE  /\ Tail(s) \in Seq(S)
         /\ Len(s) \in Nat \ {0}
         /\ Len(Tail(s)) = Len(s) - 1
         /\ Head(s) = s[1] /\ Head(s) \in S
         /\ \A i \in 1 .. Len(Tail(s)) : Tail(s)[i] = s[i + 1]
OBVIOUS

LEMMA AppendEffect ==
  ASSUME NEW S, NEW s \in Seq(S), NEW e \in S
  PROVE  /\ Append(s, e) \in Seq(S)
         /\ Len(s) \in Nat
         /\ Len(Append(s, e)) = Len(s) + 1
         /\ Append(s, e)[Len(s) + 1] = e
         /\ \A i \in 1 .. Len(s) : Append(s, e)[i] = s[i]
OBVIOUS

-----------------------------------------------------------------------------
LEMMA BackoffType ==
  ASSUME TypeOK, Backoff
  PROVE  attempt' \in 0 .. AttemptModulus - 1 /\ at' \in {"sleeping", "panicked"}
BY ListenerAssumption DEF TypeOK, Backoff

LEMMA TypeStep == TypeOK /\ [Next]_vars => TypeOK'
<1> SUFFICES ASSUME TypeOK, [Next]_vars
             PROVE  TypeOK'
  OBVIOUS
<1>0. Len(Chain) \in Nat
  BY ListenerAssumption
<1> USE DEF States
<1>1. CASE Subscribe \/ StreamFails \/ Wake
  <2>1. CASE Subscribe
    <3>1. cursor' \in 0 .. height' /\ read' \subseteq 1 .. cursor'
      BY <1>0, <2>1 DEF Subscribe, TypeOK
    <3>2. QED
      BY <2>1, <3>1 DEF Subscribe, TypeOK
  <2>2. CASE StreamFails \/ Wake
    BY <2>2 DEF StreamFails, Wake, TypeOK
  <2>3. QED
    BY <1>1, <2>1, <2>2
<1>2. CASE StreamEnds
  BY <1>2, BackoffType DEF StreamEnds, TypeOK
<1>3. CASE ReadTransaction
  <2>1. cursor + 1 \in 1 .. Len(Chain) /\ cursor + 1 \in 0 .. height
    BY <1>0, <1>3 DEF ReadTransaction, TypeOK
  <2>2. pending' \in Seq(Launch)
    BY <1>3, <2>1, ExtractType DEF ReadTransaction
  <2>3. pending' # <<>> <=> at' = "sending"
    BY <1>3 DEF ReadTransaction
  <2>4. read' \subseteq 1 .. cursor'
    BY <1>0, <1>3, <2>1 DEF ReadTransaction, TypeOK
  <2>5. QED
    BY <1>3, <2>1, <2>2, <2>3, <2>4 DEF ReadTransaction, TypeOK
<1>4. CASE SendLaunch
  <2>1. pending # <<>> /\ pending \in Seq(Launch) /\ channel \in Seq(Message)
    BY <1>4 DEF SendLaunch, TypeOK, Message
  <2>2. Head(pending) \in Message /\ Tail(pending) \in Seq(Launch)
    BY <2>1, TailEffect DEF Message
  <2>3. channel' \in Seq(Message) /\ Len(channel') <= ChannelCap
    BY <1>4, <2>1, <2>2, AppendEffect, ListenerAssumption DEF SendLaunch
  <2>4. QED
    BY <1>4, <2>2, <2>3 DEF SendLaunch, TypeOK, Message
<1>5. CASE SendFails
  BY <1>5, BackoffType DEF SendFails, TypeOK
<1>6. CASE Report
  <2>1. channel' \in Seq(Message) /\ Len(channel') <= ChannelCap
    <3>1. channel \in Seq(Message) /\ [attempt |-> attempt] \in Message
      BY DEF TypeOK, Message, Reconnecting
    <3>2. CASE receiver
      <4>1. channel' = Append(channel, [attempt |-> attempt]) /\ Len(channel) < ChannelCap
        BY <1>6, <3>2 DEF Report
      <4>2. QED
        BY <3>1, <4>1, AppendEffect, ListenerAssumption
    <3>3. CASE ~receiver
      BY <1>6, <3>1, <3>3 DEF Report, TypeOK
    <3>4. QED
      BY <3>2, <3>3 DEF TypeOK
  <2>2. QED
    BY <1>6, <2>1, BackoffType DEF Report, TypeOK, Message
<1>7. CASE Produce
  BY <1>0, <1>7 DEF Produce, taskVars, TypeOK
<1>8. CASE Consume
  <2>1. channel \in Seq(Message) /\ channel # <<>>
    BY <1>8 DEF Consume, TypeOK, Message
  <2>2. /\ Tail(channel) \in Seq(Message)
        /\ Len(Tail(channel)) <= ChannelCap
        /\ Head(channel) \in Message
    BY <2>1, TailEffect, ListenerAssumption DEF TypeOK
  <2>3. received' \in Seq(Launch)
    BY <1>8, <2>2, Kinds, AppendEffect DEF Consume, TypeOK, Message
  <2>4. QED
    BY <1>8, <2>2, <2>3 DEF Consume, taskVars, TypeOK, Message
<1>9. CASE DropReceiver
  <2>1. channel' \in Seq(Launch \cup Reconnecting) /\ Len(channel') <= ChannelCap
    BY <1>9, ListenerAssumption DEF DropReceiver
  <2>2. QED
    BY <1>9, <2>1 DEF DropReceiver, taskVars, TypeOK
<1>10. CASE UNCHANGED vars
  BY <1>10 DEF vars, taskVars, TypeOK
<1>11. QED
  BY <1>1, <1>2, <1>3, <1>4, <1>5, <1>6, <1>7, <1>8, <1>9, <1>10 DEF Next, TaskStep

LEMMA TypeInit == Init => TypeOK
BY ListenerAssumption DEF Init, TypeOK, States

\* Every variable keeps its type; "sending" is exactly the state with launches
\* of the current transaction left.
THEOREM TypeCorrect == Spec => []TypeOK
BY TypeInit, TypeStep, PTL DEF Spec

-----------------------------------------------------------------------------
\* The order of the launches, part by part: in each of the three sequences, and
\* from each to those that are read after it.
Precedes(l, m) == IsLaunch(l) /\ IsLaunch(m) => Before(l, m)
Ordered(s) == \A i, j \in 1 .. Len(s) : i < j => Precedes(s[i], s[j])
Ahead(s, t) == \A i \in 1 .. Len(s), j \in 1 .. Len(t) : Precedes(s[i], t[j])
UpTo(s, n) == \A i \in 1 .. Len(s) : IsLaunch(s[i]) => s[i].tx <= n

OrderInv ==
  /\ Ordered(received) /\ Ordered(channel) /\ Ordered(pending)
  /\ Ahead(received, channel) /\ Ahead(received, pending) /\ Ahead(channel, pending)
  /\ UpTo(received, cursor) /\ UpTo(channel, cursor) /\ UpTo(pending, cursor)

LEMMA TailKeepsOrder ==
  ASSUME NEW S, NEW s \in Seq(S), s # <<>>
  PROVE  /\ Ordered(s) => /\ Ordered(Tail(s))
                          /\ \A i \in 1 .. Len(Tail(s)) : Precedes(Head(s), Tail(s)[i])
         /\ \A t : Ahead(s, t) => /\ Ahead(Tail(s), t)
                                  /\ \A j \in 1 .. Len(t) : Precedes(Head(s), t[j])
         /\ \A t : Ahead(t, s) => /\ Ahead(t, Tail(s))
                                  /\ \A j \in 1 .. Len(t) : Precedes(t[j], Head(s))
         /\ \A n : UpTo(s, n) => /\ UpTo(Tail(s), n)
                                 /\ IsLaunch(Head(s)) => Head(s).tx <= n
<1>1. /\ Len(s) \in Nat \ {0}
      /\ Len(Tail(s)) = Len(s) - 1
      /\ Head(s) = s[1]
      /\ \A i \in 1 .. Len(Tail(s)) : Tail(s)[i] = s[i + 1]
  BY TailEffect
<1>2. 1 \in 1 .. Len(s) /\ \A i \in 1 .. Len(Tail(s)) : i + 1 \in 1 .. Len(s) /\ 1 < i + 1
  BY <1>1
<1>3. ASSUME Ordered(s)
      PROVE  /\ Ordered(Tail(s))
             /\ \A i \in 1 .. Len(Tail(s)) : Precedes(Head(s), Tail(s)[i])
  <2>1. ASSUME NEW i \in 1 .. Len(Tail(s)), NEW j \in 1 .. Len(Tail(s)), i < j
        PROVE  Precedes(Tail(s)[i], Tail(s)[j])
    <3>1. i + 1 < j + 1
      BY <2>1
    <3>2. QED
      BY <1>1, <1>2, <1>3, <3>1 DEF Ordered
  <2>2. QED
    BY <1>1, <1>2, <1>3, <2>1 DEF Ordered
<1>4. QED
  BY <1>1, <1>2, <1>3 DEF Ahead, UpTo

LEMMA AppendKeepsOrder ==
  ASSUME NEW S, NEW s \in Seq(S), NEW e \in S
  PROVE  /\ Ordered(s) /\ (\A i \in 1 .. Len(s) : Precedes(s[i], e)) => Ordered(Append(s, e))
         /\ \A t : Ahead(s, t) /\ (\A j \in 1 .. Len(t) : Precedes(e, t[j])) =>
                   Ahead(Append(s, e), t)
         /\ \A t : Ahead(t, s) /\ (\A j \in 1 .. Len(t) : Precedes(t[j], e)) =>
                   Ahead(t, Append(s, e))
         /\ \A n : UpTo(s, n) /\ (IsLaunch(e) => e.tx <= n) => UpTo(Append(s, e), n)
<1>1. /\ Len(s) \in Nat
      /\ Len(Append(s, e)) = Len(s) + 1
      /\ Append(s, e)[Len(s) + 1] = e
      /\ \A i \in 1 .. Len(s) : Append(s, e)[i] = s[i]
  BY AppendEffect
<1>2. \A i \in 1 .. Len(Append(s, e)) :
        \/ i \in 1 .. Len(s) /\ Append(s, e)[i] = s[i]
        \/ i = Len(s) + 1 /\ Append(s, e)[i] = e
  BY <1>1
<1>3. ASSUME Ordered(s), \A i \in 1 .. Len(s) : Precedes(s[i], e)
      PROVE  Ordered(Append(s, e))
  <2> SUFFICES ASSUME NEW i \in 1 .. Len(Append(s, e)), NEW j \in 1 .. Len(Append(s, e)), i < j
               PROVE  Precedes(Append(s, e)[i], Append(s, e)[j])
    BY DEF Ordered
  <2>1. i \in 1 .. Len(s) /\ Append(s, e)[i] = s[i]
    BY <1>1
  <2>2. QED
    BY <1>2, <1>3, <2>1 DEF Ordered
<1>4. QED
  BY <1>2, <1>3 DEF Ahead, UpTo

\* What is read next comes after all that was read before.
LEMMA ExtractOrder ==
  ASSUME NEW n \in Nat, n + 1 \in 1 .. Len(Chain)
  PROVE  /\ Ordered(ExtractLaunches(n + 1))
         /\ UpTo(ExtractLaunches(n + 1), n + 1)
         /\ \A s \in Seq(Message) : UpTo(s, n) => /\ Ahead(s, ExtractLaunches(n + 1))
                                                 /\ UpTo(s, n + 1)
<1> DEFINE new == ExtractLaunches(n + 1)
<1>1. \A i \in 1 .. Len(new) : new[i].tx = n + 1 /\ new[i].nth = i
  BY ExtractType
<1>2. Len(new) \in Nat
  BY ExtractType, ListenerAssumption
<1> HIDE DEF new
<1>3. Ordered(new)
  BY <1>1, <1>2 DEF Ordered, Precedes, Before
<1>4. UpTo(new, n + 1)
  BY <1>1 DEF UpTo
<1>5. ASSUME NEW s \in Seq(Message), UpTo(s, n), NEW i \in 1 .. Len(s), IsLaunch(s[i])
      PROVE  s[i].tx \in Nat /\ s[i].tx <= n
  <2>1. s[i] \in Message
    BY <1>5
  <2>2. QED
    BY <1>5, <2>1, Kinds DEF Message, UpTo
<1>6. QED
  BY <1>1, <1>3, <1>4, <1>5 DEF Ahead, UpTo, Precedes, Before, new

LEMMA UpToLater ==
  ASSUME NEW s \in Seq(Message), NEW m \in Nat, NEW n \in Nat, m <= n, UpTo(s, m)
  PROVE  UpTo(s, n)
<1>1. ASSUME NEW i \in 1 .. Len(s), IsLaunch(s[i])
      PROVE  s[i].tx \in Nat /\ s[i].tx <= m
  <2>1. s[i] \in Message
    OBVIOUS
  <2>2. QED
    BY <1>1, <2>1, Kinds DEF Message, UpTo
<1>2. QED
  BY <1>1 DEF UpTo

LEMMA EmptyIsOrdered ==
  /\ Ordered(<<>>)
  /\ \A s, n : Ahead(s, <<>>) /\ Ahead(<<>>, s) /\ UpTo(<<>>, n)
BY DEF Ordered, Ahead, UpTo

LEMMA OrderStep == TypeOK /\ OrderInv /\ [Next]_vars => OrderInv'
<1> SUFFICES ASSUME TypeOK, OrderInv, [Next]_vars
             PROVE  OrderInv'
  OBVIOUS
<1>0. /\ channel \in Seq(Message) /\ pending \in Seq(Launch) /\ received \in Seq(Launch)
      /\ pending \in Seq(Message) /\ received \in Seq(Message)
      /\ cursor \in Nat /\ height \in Nat /\ cursor <= height
  <2>1. channel \in Seq(Message) /\ pending \in Seq(Launch) /\ received \in Seq(Launch)
    BY DEF TypeOK, Message
  <2>2. cursor \in Nat /\ height \in Nat /\ cursor <= height
    BY ListenerAssumption DEF TypeOK
  <2>3. QED
    BY <2>1, <2>2, SeqOfMessages
<1>1. CASE Subscribe
  <2>1. UpTo(received, height) /\ UpTo(channel, height) /\ UpTo(pending, height)
    BY <1>0, UpToLater DEF OrderInv
  <2>2. QED
    BY <1>1, <2>1 DEF Subscribe, OrderInv
<1>2. CASE ReadTransaction
  <2>1. cursor + 1 \in 1 .. Len(Chain) /\ cursor' = cursor + 1
    BY <1>0, <1>2, ListenerAssumption DEF ReadTransaction, TypeOK
  <2>2. pending' = ExtractLaunches(cursor + 1) /\ UNCHANGED <<channel, received>>
    BY <1>2 DEF ReadTransaction
  <2>3. QED
    BY <1>0, <2>1, <2>2, ExtractOrder DEF OrderInv
<1>3. CASE SendLaunch
  <2>1. /\ pending # <<>> /\ pending' = Tail(pending)
        /\ channel' = Append(channel, Head(pending))
        /\ UNCHANGED <<received, cursor>>
    BY <1>3 DEF SendLaunch, TypeOK
  <2>2. Head(pending) \in Message
    BY <1>0, <2>1, TailEffect DEF Message
  <2>3. /\ Ordered(Tail(pending))
        /\ \A i \in 1 .. Len(Tail(pending)) : Precedes(Head(pending), Tail(pending)[i])
        /\ UpTo(Tail(pending), cursor)
        /\ IsLaunch(Head(pending)) => Head(pending).tx <= cursor
    BY <1>0, <2>1, TailKeepsOrder DEF OrderInv
  <2>4. /\ Ahead(received, Tail(pending)) /\ Ahead(channel, Tail(pending))
        /\ \A i \in 1 .. Len(received) : Precedes(received[i], Head(pending))
        /\ \A i \in 1 .. Len(channel) : Precedes(channel[i], Head(pending))
    BY <1>0, <2>1, TailKeepsOrder DEF OrderInv
  <2>5. Ordered(channel') /\ UpTo(channel', cursor)
    BY <1>0, <2>1, <2>2, <2>3, <2>4, AppendKeepsOrder DEF OrderInv
  <2>6. Ahead(received, channel') /\ Ahead(channel', Tail(pending))
    BY <1>0, <2>1, <2>2, <2>3, <2>4, AppendKeepsOrder DEF OrderInv
  <2>7. QED
    BY <2>1, <2>3, <2>4, <2>5, <2>6 DEF OrderInv
<1>4. CASE SendFails
  BY <1>4, EmptyIsOrdered DEF SendFails, OrderInv
<1>5. CASE Report
  <2>1. UNCHANGED <<received, pending, cursor>>
    BY <1>5 DEF Report
  <2>2. CASE channel' = channel
    BY <2>1, <2>2 DEF OrderInv
  <2>3. CASE channel' = Append(channel, [attempt |-> attempt])
    <3> DEFINE e == [attempt |-> attempt]
    <3>1. e \in Message /\ ~IsLaunch(e)
      BY Kinds DEF TypeOK, Message, Reconnecting
    <3> HIDE DEF e
    <3>2. Ordered(Append(channel, e)) /\ UpTo(Append(channel, e), cursor)
      BY <1>0, <3>1, AppendKeepsOrder DEF OrderInv, Precedes
    <3>3. Ahead(received, Append(channel, e)) /\ Ahead(Append(channel, e), pending)
      BY <1>0, <3>1, AppendKeepsOrder DEF OrderInv, Precedes
    <3>4. QED
      BY <2>1, <2>3, <3>2, <3>3 DEF OrderInv, e
  <2>4. QED
    BY <1>5, <2>2, <2>3 DEF Report
<1>6. CASE Consume
  <2>1. channel # <<>> /\ channel' = Tail(channel) /\ UNCHANGED <<pending, cursor>>
    BY <1>6 DEF Consume, taskVars
  <2>2. /\ Ordered(Tail(channel))
        /\ \A i \in 1 .. Len(Tail(channel)) : Precedes(Head(channel), Tail(channel)[i])
        /\ UpTo(Tail(channel), cursor)
        /\ IsLaunch(Head(channel)) => Head(channel).tx <= cursor
    BY <1>0, <2>1, TailKeepsOrder DEF OrderInv
  <2>3. /\ Ahead(received, Tail(channel)) /\ Ahead(Tail(channel), pending)
        /\ \A i \in 1 .. Len(received) : Precedes(received[i], Head(channel))
        /\ \A i \in 1 .. Len(pending) : Precedes(Head(channel), pending[i])
    BY <1>0, <2>1, TailKeepsOrder DEF OrderInv
  <2>4. CASE IsLaunch(Head(channel))
    <3>1. received' = Append(received, Head(channel)) /\ Head(channel) \in Message
      BY <1>0, <1>6, <2>1, <2>4, TailEffect DEF Consume
    <3>2. Ordered(received') /\ UpTo(received', cursor)
      BY <1>0, <2>2, <2>3, <3>1, AppendKeepsOrder DEF OrderInv
    <3>3. Ahead(received', Tail(channel)) /\ Ahead(received', pending)
      BY <1>0, <2>2, <2>3, <3>1, AppendKeepsOrder DEF OrderInv
    <3>4. QED
      BY <2>1, <2>2, <2>3, <3>2, <3>3 DEF OrderInv
  <2>5. CASE ~IsLaunch(Head(channel))
    BY <1>6, <2>1, <2>2, <2>3, <2>5 DEF Consume, OrderInv
  <2>6. QED
    BY <2>4, <2>5
<1>7. CASE DropReceiver
  BY <1>7, EmptyIsOrdered DEF DropReceiver, taskVars, OrderInv
<1>8. CASE UNCHANGED <<channel, pending, received, cursor>>
  BY <1>8 DEF OrderInv
<1>9. QED
  BY <1>1, <1>2, <1>3, <1>4, <1>5, <1>6, <1>7, <1>8
     DEF Next, TaskStep, StreamFails, StreamEnds, Wake, Produce, taskVars, vars

LEMMA OrderInvariance == Spec => [](TypeOK /\ OrderInv)
<1>1. Init => OrderInv
  BY EmptyIsOrdered DEF Init, OrderInv
<1>2. QED
  BY <1>1, TypeInit, TypeStep, OrderStep, PTL DEF Spec

LEMMA ConcatEffect ==
  ASSUME NEW S, NEW s \in Seq(S), NEW t \in Seq(S)
  PROVE  /\ s \o t \in Seq(S)
         /\ Len(s) \in Nat /\ Len(t) \in Nat
         /\ Len(s \o t) = Len(s) + Len(t)
         /\ \A i \in 1 .. Len(s) : (s \o t)[i] = s[i]
         /\ \A i \in 1 .. Len(t) : (s \o t)[Len(s) + i] = t[i]
OBVIOUS

\* Where the messages of the three parts stand in Delivered.
LEMMA DeliveredParts ==
  ASSUME TypeOK
  PROVE  /\ Len(received) \in Nat /\ Len(channel) \in Nat /\ Len(pending) \in Nat
         /\ DOMAIN Delivered = 1 .. Len(received) + Len(channel) + Len(pending)
         /\ \A i \in 1 .. Len(received) : Delivered[i] = received[i]
         /\ \A i \in 1 .. Len(channel) : Delivered[Len(received) + i] = channel[i]
         /\ \A i \in 1 .. Len(pending) :
              Delivered[Len(received) + Len(channel) + i] = pending[i]
<1>1. channel \in Seq(Message) /\ pending \in Seq(Message) /\ received \in Seq(Message)
  BY SeqOfMessages DEF TypeOK, Message
<1> DEFINE both == received \o channel
<1>2. /\ Len(received) \in Nat /\ Len(channel) \in Nat
      /\ both \in Seq(Message)
      /\ Len(both) = Len(received) + Len(channel)
      /\ \A i \in 1 .. Len(received) : both[i] = received[i]
      /\ \A i \in 1 .. Len(channel) : both[Len(received) + i] = channel[i]
  BY <1>1, ConcatEffect
<1> HIDE DEF both
<1>4. PICK first \in Seq(Message) : first = both
  BY <1>2
<1>3. /\ first \o pending \in Seq(Message)
      /\ Len(pending) \in Nat
      /\ Len(first \o pending) = Len(first) + Len(pending)
      /\ \A i \in 1 .. Len(first) : (first \o pending)[i] = first[i]
      /\ \A i \in 1 .. Len(pending) : (first \o pending)[Len(first) + i] = pending[i]
  BY <1>1, ConcatEffect
<1>9. Delivered = first \o pending
  BY <1>4 DEF Delivered, both
<1>5. \A i \in 1 .. Len(received) : i \in 1 .. Len(first)
  BY <1>2, <1>4
<1>6. \A i \in 1 .. Len(channel) : Len(received) + i \in 1 .. Len(first)
  BY <1>2, <1>4
<1>7. DOMAIN Delivered = 1 .. Len(first) + Len(pending)
  BY <1>3, <1>9
<1>8. QED
  BY <1>2, <1>3, <1>4, <1>9, <1>5, <1>6, <1>7

\* Across reconnects no launch is sent twice and none overtakes another.
THEOREM ChainOrder == Spec => []InChainOrder
<1>1. ASSUME TypeOK, OrderInv
      PROVE  InChainOrder
  <2> DEFINE R == Len(received)
             C == Len(channel)
             P == Len(pending)
  <2>1. R \in Nat /\ C \in Nat /\ P \in Nat
    BY <1>1, DeliveredParts
  <2>2. ASSUME NEW i \in DOMAIN Delivered, NEW j \in DOMAIN Delivered, i < j
        PROVE  Precedes(Delivered[i], Delivered[j])
    <3>1. i \in 1 .. R + C + P /\ j \in 1 .. R + C + P
      BY <1>1, <2>2, DeliveredParts
    <3>2. /\ i \in 1 .. R => Delivered[i] = received[i]
          /\ i - R \in 1 .. C => Delivered[i] = channel[i - R]
          /\ i - R - C \in 1 .. P => Delivered[i] = pending[i - R - C]
      <4>1. R + (i - R) = i /\ R + C + (i - R - C) = i
        BY <2>1, <3>1
      <4>2. QED
        BY <1>1, <4>1, DeliveredParts
    <3>3. /\ j \in 1 .. R => Delivered[j] = received[j]
          /\ j - R \in 1 .. C => Delivered[j] = channel[j - R]
          /\ j - R - C \in 1 .. P => Delivered[j] = pending[j - R - C]
      <4>1. R + (j - R) = j /\ R + C + (j - R - C) = j
        BY <2>1, <3>1
      <4>2. QED
        BY <1>1, <4>1, DeliveredParts
    <3>4. CASE i \in 1 .. R
      <4>1. \/ j \in 1 .. R
            \/ j - R \in 1 .. C
            \/ j - R - C \in 1 .. P
        BY <2>1, <3>1
      <4>2. QED
        BY <1>1, <2>2, <3>2, <3>3, <3>4, <4>1 DEF OrderInv, Ordered, Ahead
    <3>5. CASE i - R \in 1 .. C
      <4>1. \/ j - R \in 1 .. C /\ i - R < j - R
            \/ j - R - C \in 1 .. P
        BY <2>1, <2>2, <3>1, <3>5
      <4>2. QED
        BY <1>1, <3>2, <3>3, <3>5, <4>1 DEF OrderInv, Ordered, Ahead
    <3>6. CASE i - R - C \in 1 .. P
      <4>1. j - R - C \in 1 .. P /\ i - R - C < j - R - C
        BY <2>1, <2>2, <3>1, <3>6
      <4>2. QED
        BY <1>1, <3>2, <3>3, <3>6, <4>1 DEF OrderInv, Ordered
    <3>7. QED
      BY <2>1, <3>1, <3>4, <3>5, <3>6
  <2>3. QED
    BY <2>2 DEF InChainOrder, Precedes
<1>2. QED
  BY <1>1, OrderInvariance, PTL

-----------------------------------------------------------------------------
\* One more attempt doubles the delay up to the cap of 250 ms << 6.
LEMMA NextBackoff ==
  ASSUME NEW n \in Nat
  PROVE  BackoffFor(n + 1) =
           IF BackoffFor(n) < 8000 THEN 2 * BackoffFor(n) ELSE 16000
<1>1. /\ 2 ^ 0 = 1 /\ 2 ^ 1 = 2 /\ 2 ^ 2 = 4 /\ 2 ^ 3 = 8
      /\ 2 ^ 4 = 16 /\ 2 ^ 5 = 32 /\ 2 ^ 6 = 64
  OBVIOUS
<1>2. /\ BackoffFor(0) = 250 /\ BackoffFor(1) = 500 /\ BackoffFor(2) = 1000
      /\ BackoffFor(3) = 2000 /\ BackoffFor(4) = 4000 /\ BackoffFor(5) = 8000
  BY <1>1 DEF BackoffFor
<1>3. \A k \in Nat : k >= 6 => BackoffFor(k) = 16000
  BY <1>1 DEF BackoffFor
<1>4. CASE n \in {0, 1, 2, 3, 4}
  BY <1>2, <1>4
<1>5. CASE n >= 5
  BY <1>2, <1>3, <1>5
<1>6. QED
  BY <1>4, <1>5

\* The end of a stream counts one attempt, or the counter wraps.
LEMMA BackoffCounts ==
  ASSUME TypeOK, Backoff, at' = "sleeping"
  PROVE  \/ BackoffFor(attempt') = NextDelay
         \/ attempt = AttemptModulus - 1 /\ attempt' = 0
<1>1. attempt \in Nat /\ attempt \in 0 .. AttemptModulus - 1 /\ AttemptModulus \in Nat \ {0}
  BY ListenerAssumption DEF TypeOK
<1>2. attempt' = (attempt + 1) % AttemptModulus
  BY DEF Backoff
<1>3. CASE attempt = AttemptModulus - 1
  <2>1. (attempt + 1) % AttemptModulus = 0
    BY <1>1, <1>3
  <2>2. QED
    BY <1>2, <1>3, <2>1
<1>4. CASE attempt # AttemptModulus - 1
  <2>1. (attempt + 1) % AttemptModulus = attempt + 1
    BY <1>1, <1>4
  <2>2. QED
    BY <1>1, <1>2, <2>1, NextBackoff DEF NextDelay
<1>5. QED
  BY <1>3, <1>4

\* Every way from a stream back to the server leads through a sleep, of twice the
\* last delay or of the 16 s it is capped at, at any width of the counter; only a
\* counter that wraps makes it short again.
THEOREM ReconnectsAreDelayed == Spec => ReconnectsBackOff
<1>1. TypeOK /\ [Next]_vars =>
        [/\ at' = "connecting" => at \in {"connecting", "sleeping"}
         /\ IF at' = "sleeping" /\ at # "sleeping"
              THEN \/ BackoffFor(attempt') = NextDelay
                   \/ attempt = AttemptModulus - 1 /\ attempt' = 0
              ELSE attempt' = attempt]_vars
  <2> SUFFICES ASSUME TypeOK, Next
               PROVE  /\ at' = "connecting" => at \in {"connecting", "sleeping"}
                      /\ IF at' = "sleeping" /\ at # "sleeping"
                           THEN \/ BackoffFor(attempt') = NextDelay
                                \/ attempt = AttemptModulus - 1 /\ attempt' = 0
                           ELSE attempt' = attempt
    OBVIOUS
  <2>1. CASE StreamEnds \/ SendFails \/ Report
    <3>1. Backoff /\ at # "sleeping"
      BY <2>1 DEF StreamEnds, SendFails, Report
    <3>2. CASE at' = "sleeping"
      BY <3>1, <3>2, BackoffCounts
    <3>3. CASE at' # "sleeping"
      BY <3>1, <3>3 DEF Backoff
    <3>4. QED
      BY <3>2, <3>3
  <2>2. CASE Subscribe \/ StreamFails \/ ReadTransaction \/ SendLaunch
    BY <2>2 DEF Subscribe, StreamFails, ReadTransaction, SendLaunch
  <2>3. CASE Wake
    BY <2>3 DEF Wake
  <2>4. CASE Produce \/ Consume \/ DropReceiver
    BY <2>4 DEF Produce, Consume, DropReceiver, taskVars
  <2>5. QED
    BY <2>1, <2>2, <2>3, <2>4 DEF Next, TaskStep
<1>2. QED
  BY <1>1, TypeCorrect, PTL DEF Spec, ReconnectsBackOff

-----------------------------------------------------------------------------
\* What a sequence holds when a message is taken or added.
LEMMA SetOfTail ==
  ASSUME NEW S, NEW s \in Seq(S), s # <<>>
  PROVE  ToSet(s) = {Head(s)} \cup ToSet(Tail(s))
<1>1. /\ Len(s) \in Nat \ {0} /\ Len(Tail(s)) = Len(s) - 1 /\ Head(s) = s[1]
      /\ \A i \in 1 .. Len(Tail(s)) : Tail(s)[i] = s[i + 1]
      /\ DOMAIN s = 1 .. Len(s) /\ DOMAIN Tail(s) = 1 .. Len(Tail(s))
  BY TailEffect
<1>2. ASSUME NEW i \in 1 .. Len(s)
      PROVE  s[i] \in {Head(s)} \cup ToSet(Tail(s))
  <2>1. CASE i = 1
    BY <1>1, <2>1
  <2>2. CASE i # 1
    <3>1. i - 1 \in 1 .. Len(Tail(s)) /\ (i - 1) + 1 = i
      BY <1>1, <2>2
    <3>2. QED
      BY <1>1, <3>1 DEF ToSet
  <2>3. QED
    BY <2>1, <2>2
<1>3. ASSUME NEW i \in 1 .. Len(Tail(s))
      PROVE  Tail(s)[i] \in ToSet(s)
  <2>1. i + 1 \in 1 .. Len(s)
    BY <1>1
  <2>2. QED
    BY <1>1, <2>1 DEF ToSet
<1>4. 1 \in 1 .. Len(s)
  BY <1>1
<1>5. QED
  BY <1>1, <1>2, <1>3, <1>4 DEF ToSet

LEMMA SetOfAppend ==
  ASSUME NEW S, NEW s \in Seq(S), NEW e \in S
  PROVE  ToSet(Append(s, e)) = ToSet(s) \cup {e}
<1>1. /\ Len(s) \in Nat /\ Len(Append(s, e)) = Len(s) + 1
      /\ Append(s, e)[Len(s) + 1] = e
      /\ \A i \in 1 .. Len(s) : Append(s, e)[i] = s[i]
      /\ DOMAIN s = 1 .. Len(s) /\ DOMAIN Append(s, e) = 1 .. Len(Append(s, e))
  BY AppendEffect
<1>2. \A i \in 1 .. Len(Append(s, e)) : i \in 1 .. Len(s) \/ i = Len(s) + 1
  BY <1>1
<1>3. Len(s) + 1 \in 1 .. Len(Append(s, e))
      /\ \A i \in 1 .. Len(s) : i \in 1 .. Len(Append(s, e))
  BY <1>1
<1>4. QED
  BY <1>1, <1>2, <1>3 DEF ToSet

\* The same said of the parts of Delivered.
OnItsWay == ToSet(received) \cup ToSet(channel) \cup ToSet(pending)
ReadInv == receiver => \A i \in read : ToSet(ExtractLaunches(i)) \subseteq OnItsWay

LEMMA DeliveredSet == TypeOK => ToSet(Delivered) = OnItsWay
<1> SUFFICES ASSUME TypeOK
             PROVE  ToSet(Delivered) = OnItsWay
  OBVIOUS
<1> DEFINE R == Len(received)
           C == Len(channel)
           P == Len(pending)
<1>1. /\ R \in Nat /\ C \in Nat /\ P \in Nat
      /\ DOMAIN Delivered = 1 .. R + C + P
      /\ \A i \in 1 .. R : Delivered[i] = received[i]
      /\ \A i \in 1 .. C : Delivered[R + i] = channel[i]
      /\ \A i \in 1 .. P : Delivered[R + C + i] = pending[i]
  BY DeliveredParts
<1>2. DOMAIN received = 1 .. R /\ DOMAIN channel = 1 .. C /\ DOMAIN pending = 1 .. P
  BY DEF TypeOK
<1> HIDE DEF R, C, P
<1>3. ASSUME NEW i \in 1 .. R + C + P
      PROVE  Delivered[i] \in OnItsWay
  <2>1. CASE i \in 1 .. R
    BY <1>1, <1>2, <2>1 DEF OnItsWay, ToSet
  <2>2. CASE i - R \in 1 .. C
    <3>1. R + (i - R) = i
      BY <1>1
    <3>2. QED
      BY <1>1, <1>2, <2>2, <3>1 DEF OnItsWay, ToSet
  <2>3. CASE i - R - C \in 1 .. P
    <3>1. R + C + (i - R - C) = i
      BY <1>1
    <3>2. QED
      BY <1>1, <1>2, <2>3, <3>1 DEF OnItsWay, ToSet
  <2>4. QED
    BY <1>1, <2>1, <2>2, <2>3
<1>4. /\ \A i \in 1 .. R : i \in 1 .. R + C + P
      /\ \A i \in 1 .. C : R + i \in 1 .. R + C + P
      /\ \A i \in 1 .. P : R + C + i \in 1 .. R + C + P
  BY <1>1
<1>5. ToSet(received) \subseteq ToSet(Delivered)
  BY <1>1, <1>2, <1>4 DEF ToSet
<1>6. ToSet(channel) \subseteq ToSet(Delivered)
  BY <1>1, <1>2, <1>4 DEF ToSet
<1>7. ToSet(pending) \subseteq ToSet(Delivered)
  BY <1>1, <1>2, <1>4 DEF ToSet
<1>8. ToSet(Delivered) \subseteq OnItsWay
  BY <1>1, <1>3 DEF ToSet
<1>9. QED
  BY <1>5, <1>6, <1>7, <1>8 DEF OnItsWay

LEMMA ExtractSet ==
  ASSUME TypeOK
  PROVE  \A i \in read : ToSet(ExtractLaunches(i)) \subseteq Launch
<1> SUFFICES ASSUME NEW i \in read
             PROVE  ToSet(ExtractLaunches(i)) \subseteq Launch
  OBVIOUS
<1>1. i \in 1 .. Len(Chain)
  BY ListenerAssumption DEF TypeOK
<1>2. ExtractLaunches(i) \in Seq(Launch)
  BY <1>1, ExtractType
<1>3. QED
  BY <1>2 DEF ToSet

LEMMA ReadStep == TypeOK /\ ReadInv /\ [Next]_vars => ReadInv'
<1> SUFFICES ASSUME TypeOK, ReadInv, [Next]_vars
             PROVE  ReadInv'
  OBVIOUS
<1>0. /\ channel \in Seq(Message) /\ pending \in Seq(Launch) /\ received \in Seq(Launch)
      /\ \A m \in Launch : m \in Message
  BY DEF TypeOK, Message
<1>1. CASE ReadTransaction
  <2>1. /\ read' = read \cup {cursor'} /\ pending' = ExtractLaunches(cursor')
        /\ UNCHANGED <<channel, received, receiver>>
    BY <1>1 DEF ReadTransaction
  <2>2. ToSet(pending) = {}
    BY <1>1 DEF ReadTransaction, TypeOK, ToSet
  <2>3. QED
    BY <2>1, <2>2 DEF ReadInv, OnItsWay
<1>2. CASE SendLaunch
  <2>1. /\ pending # <<>> /\ pending' = Tail(pending)
        /\ channel' = Append(channel, Head(pending))
        /\ UNCHANGED <<received, read, receiver>>
    BY <1>2 DEF SendLaunch, TypeOK
  <2>2. Head(pending) \in Message
    BY <1>0, <2>1, TailEffect
  <2>3. /\ ToSet(pending) = {Head(pending)} \cup ToSet(pending')
        /\ ToSet(channel') = ToSet(channel) \cup {Head(pending)}
    BY <1>0, <2>1, <2>2, SetOfTail, SetOfAppend
  <2>4. QED
    BY <2>1, <2>3 DEF ReadInv, OnItsWay
<1>3. CASE SendFails \/ DropReceiver
  BY <1>3 DEF SendFails, DropReceiver, ReadInv
<1>4. CASE Report
  <2>1. UNCHANGED <<received, pending, read, receiver>>
    BY <1>4 DEF Report
  <2>2. [attempt |-> attempt] \in Message
    BY DEF TypeOK, Message, Reconnecting
  <2>3. ToSet(channel) \subseteq ToSet(channel')
    <3>1. CASE channel' = channel
      BY <3>1
    <3>2. CASE channel' = Append(channel, [attempt |-> attempt])
      BY <1>0, <2>2, <3>2, SetOfAppend
    <3>3. QED
      BY <1>4, <3>1, <3>2 DEF Report
  <2>4. QED
    BY <2>1, <2>3 DEF ReadInv, OnItsWay
<1>5. CASE Consume
  <2>1. channel # <<>> /\ channel' = Tail(channel) /\ UNCHANGED <<pending, read, receiver>>
    BY <1>5 DEF Consume, taskVars
  <2>2. ToSet(channel) = {Head(channel)} \cup ToSet(channel') /\ Head(channel) \in Message
    BY <1>0, <2>1, SetOfTail, TailEffect
  <2>3. CASE IsLaunch(Head(channel))
    <3>1. received' = Append(received, Head(channel)) /\ Head(channel) \in Launch
      BY <1>5, <2>2, <2>3, Kinds DEF Consume, Message
    <3>2. ToSet(received') = ToSet(received) \cup {Head(channel)}
      BY <1>0, <3>1, SetOfAppend
    <3>3. QED
      BY <2>1, <2>2, <3>2 DEF ReadInv, OnItsWay
  <2>4. CASE ~IsLaunch(Head(channel))
    <3>1. received' = received /\ Head(channel) \notin Launch
      BY <1>5, <2>4, Kinds DEF Consume
    <3>2. QED
      BY <2>1, <2>2, <3>1, ExtractSet DEF ReadInv, OnItsWay
  <2>5. QED
    BY <2>3, <2>4
<1>6. CASE UNCHANGED <<channel, pending, received, read, receiver>>
  BY <1>6 DEF ReadInv, OnItsWay
<1>7. QED
  BY <1>1, <1>2, <1>3, <1>4, <1>5, <1>6
     DEF Next, TaskStep, Subscribe, StreamFails, StreamEnds, Wake, Produce, taskVars, vars

\* No launch of a transaction that was read is lost while the consumer is there.
THEOREM NoneIsLost == Spec => []ReadIsDelivered
<1>1. Init => ReadInv
  BY DEF Init, ReadInv
<1>2. TypeOK /\ ReadInv => ReadIsDelivered
  BY DeliveredSet DEF ReadInv, ReadIsDelivered
<1>3. QED
  BY <1>1, <1>2, TypeInit, TypeStep, ReadStep, PTL DEF Spec

-----------------------------------------------------------------------------
\* The listener implements the sending side of Feed.
Sendable == UNION {ToSet(ExtractLaunches(i)) : i \in DOMAIN Chain}
Seen(s) == [i \in DOMAIN s |-> IF IsLaunch(s[i]) THEN s[i] ELSE Notice]
PendingInv == ToSet(pending) \subseteq Sendable

LEMMA PendingStep == TypeOK /\ PendingInv /\ [Next]_vars => PendingInv'
<1> SUFFICES ASSUME TypeOK, PendingInv, [Next]_vars
             PROVE  PendingInv'
  OBVIOUS
<1>1. CASE ReadTransaction
  <2>1. cursor' \in DOMAIN Chain /\ pending' = ExtractLaunches(cursor')
    BY <1>1, ListenerAssumption DEF ReadTransaction, TypeOK
  <2>2. QED
    BY <2>1 DEF PendingInv, Sendable
<1>2. CASE SendLaunch
  <2>1. pending # <<>> /\ pending \in Seq(Launch) /\ pending' = Tail(pending)
    BY <1>2 DEF SendLaunch, TypeOK
  <2>2. QED
    BY <2>1, SetOfTail DEF PendingInv
<1>3. CASE SendFails
  BY <1>3 DEF SendFails, PendingInv, ToSet
<1>4. CASE UNCHANGED pending
  BY <1>4 DEF PendingInv
<1>5. QED
  BY <1>1, <1>2, <1>3, <1>4
     DEF Next, TaskStep, Subscribe, StreamFails, StreamEnds, Report, Wake, Produce,
         Consume, DropReceiver, taskVars, vars

LEMMA NoticeIsNoLaunch == Notice \notin Launch /\ Notice.tx = 0
<1>1. 0 \notin DOMAIN Chain
  BY ListenerAssumption
<1>2. QED
  BY <1>1 DEF Notice, Launch

\* What is seen of the channel changes as the channel does.
LEMMA SeenIsSeq ==
  ASSUME NEW s \in Seq(Message)
  PROVE  /\ Seen(s) \in Seq(Launch \cup {Notice})
         /\ Len(Seen(s)) = Len(s)
         /\ DOMAIN Seen(s) = 1 .. Len(s)
         /\ Len(s) \in Nat
         /\ \A i \in 1 .. Len(s) :
              Seen(s)[i] = IF IsLaunch(s[i]) THEN s[i] ELSE Notice
<1>1. DOMAIN s = 1 .. Len(s) /\ Len(s) \in Nat
  OBVIOUS
<1>2. \A i \in 1 .. Len(s) :
        (IF IsLaunch(s[i]) THEN s[i] ELSE Notice) \in Launch \cup {Notice}
  BY <1>1, Kinds DEF Message
<1>3. Seen(s) \in [1 .. Len(s) -> Launch \cup {Notice}]
  BY <1>1, <1>2 DEF Seen
<1>4. Seen(s) \in Seq(Launch \cup {Notice}) /\ Len(Seen(s)) = Len(s)
  BY <1>1, <1>3
<1>5. QED
  BY <1>1, <1>3, <1>4 DEF Seen

LEMMA SeenOfTail ==
  ASSUME NEW s \in Seq(Message), s # <<>>
  PROVE  /\ Seen(Tail(s)) = Tail(Seen(s))
         /\ Seen(s) # <<>>
         /\ Head(Seen(s)) = IF IsLaunch(Head(s)) THEN Head(s) ELSE Notice
<1>1. /\ Tail(s) \in Seq(Message) /\ Len(s) \in Nat \ {0} /\ Len(Tail(s)) = Len(s) - 1
      /\ Head(s) = s[1]
      /\ \A i \in 1 .. Len(Tail(s)) : Tail(s)[i] = s[i + 1]
  BY TailEffect
<1>2. PICK q \in Seq(Launch \cup {Notice}) :
        /\ q = Seen(s) /\ Len(q) = Len(s)
        /\ \A i \in 1 .. Len(s) : q[i] = IF IsLaunch(s[i]) THEN s[i] ELSE Notice
  BY SeenIsSeq
<1>3. PICK r \in Seq(Launch \cup {Notice}) :
        /\ r = Seen(Tail(s)) /\ Len(r) = Len(Tail(s))
        /\ \A i \in 1 .. Len(Tail(s)) :
             r[i] = IF IsLaunch(Tail(s)[i]) THEN Tail(s)[i] ELSE Notice
  BY <1>1, SeenIsSeq
<1>4. q # <<>>
  BY <1>1, <1>2
<1>5. /\ Tail(q) \in Seq(Launch \cup {Notice}) /\ Len(Tail(q)) = Len(q) - 1 /\ Head(q) = q[1]
      /\ \A i \in 1 .. Len(Tail(q)) : Tail(q)[i] = q[i + 1]
  BY <1>4, TailEffect
<1>6. \A i \in 1 .. Len(r) : Tail(q)[i] = r[i]
  <2> SUFFICES ASSUME NEW i \in 1 .. Len(r)
               PROVE  Tail(q)[i] = r[i]
    OBVIOUS
  <2>1. i + 1 \in 1 .. Len(s) /\ i \in 1 .. Len(Tail(s)) /\ i \in 1 .. Len(Tail(q))
    BY <1>1, <1>2, <1>3, <1>5
  <2>2. QED
    BY <1>1, <1>2, <1>3, <1>5, <2>1
<1>7. Len(Tail(q)) = Len(r)
  BY <1>1, <1>2, <1>3, <1>5
<1>8. Tail(q) = r
  BY <1>5, <1>6, <1>7
<1>9. QED
  BY <1>1, <1>2, <1>3, <1>4, <1>5, <1>8

LEMMA SeenOfAppend ==
  ASSUME NEW s \in Seq(Message), NEW e \in Message
  PROVE  Seen(Append(s, e)) = Append(Seen(s), IF IsLaunch(e) THEN e ELSE Notice)
<1> DEFINE f == IF IsLaunch(e) THEN e ELSE Notice
<1>1. /\ Append(s, e) \in Seq(Message) /\ Len(s) \in Nat
      /\ Len(Append(s, e)) = Len(s) + 1
      /\ Append(s, e)[Len(s) + 1] = e
      /\ \A i \in 1 .. Len(s) : Append(s, e)[i] = s[i]
  BY AppendEffect
<1>2. PICK q \in Seq(Launch \cup {Notice}) :
        /\ q = Seen(s) /\ Len(q) = Len(s)
        /\ \A i \in 1 .. Len(s) : q[i] = IF IsLaunch(s[i]) THEN s[i] ELSE Notice
  BY SeenIsSeq
<1>3. PICK r \in Seq(Launch \cup {Notice}) :
        /\ r = Seen(Append(s, e)) /\ Len(r) = Len(s) + 1
        /\ \A i \in 1 .. Len(s) + 1 :
             r[i] = IF IsLaunch(Append(s, e)[i]) THEN Append(s, e)[i] ELSE Notice
  BY <1>1, SeenIsSeq
<1>4. f \in Launch \cup {Notice}
  BY Kinds DEF Message
<1> HIDE DEF f
<1>5. /\ Append(q, f) \in Seq(Launch \cup {Notice}) /\ Len(Append(q, f)) = Len(q) + 1
      /\ Append(q, f)[Len(q) + 1] = f
      /\ \A i \in 1 .. Len(q) : Append(q, f)[i] = q[i]
  BY <1>4, AppendEffect
<1>6. \A i \in 1 .. Len(r) : Append(q, f)[i] = r[i]
  <2> SUFFICES ASSUME NEW i \in 1 .. Len(r)
               PROVE  Append(q, f)[i] = r[i]
    OBVIOUS
  <2>1. CASE i \in 1 .. Len(s)
    <3>1. i \in 1 .. Len(q) /\ i \in 1 .. Len(s) + 1
      BY <1>1, <1>2, <2>1
    <3>2. QED
      BY <1>1, <1>2, <1>3, <1>5, <2>1, <3>1
  <2>2. CASE i = Len(s) + 1
    <3>1. Append(q, f)[i] = f
      BY <1>2, <1>5, <2>2
    <3>2. r[i] = IF IsLaunch(e) THEN e ELSE Notice
      BY <1>1, <1>3, <2>2
    <3>3. QED
      BY <3>1, <3>2 DEF f
  <2>3. i \in 1 .. Len(s) \/ i = Len(s) + 1
    BY <1>1, <1>3
  <2>4. QED
    BY <2>1, <2>2, <2>3
<1>7. Append(q, f) = r
  BY <1>1, <1>2, <1>3, <1>5, <1>6
<1>8. QED
  BY <1>2, <1>3, <1>7 DEF f

\* A launch in the queue as Feed sees it is one in the channel.
LEMMA SeenLaunches ==
  ASSUME TypeOK, NEW x \in Launch, x \in ToSet(Seen(channel))
  PROVE  \E i \in 1 .. Len(channel) : channel[i] = x
<1>1. channel \in Seq(Message)
  BY DEF TypeOK, Message
<1>2. /\ DOMAIN Seen(channel) = 1 .. Len(channel)
      /\ \A i \in 1 .. Len(channel) :
           Seen(channel)[i] = IF IsLaunch(channel[i]) THEN channel[i] ELSE Notice
  BY <1>1, SeenIsSeq
<1>3. PICK i \in 1 .. Len(channel) : Seen(channel)[i] = x
  BY <1>2 DEF ToSet
<1>4. QED
  BY <1>2, <1>3, NoticeIsNoLaunch

\* The next launch to be sent is nowhere yet.
LEMMA PendingIsNew ==
  ASSUME TypeOK, OrderInv, pending # <<>>
  PROVE  Head(pending) \notin ToSet(received) \cup ToSet(Seen(channel))
<1>1. /\ received \in Seq(Launch) /\ pending \in Seq(Launch)
      /\ DOMAIN received = 1 .. Len(received)
      /\ Head(pending) = pending[1] /\ 1 \in 1 .. Len(pending)
      /\ Head(pending) \in Launch
  BY TailEffect DEF TypeOK
<1>2. IsLaunch(Head(pending)) /\ ~Before(Head(pending), Head(pending))
  <2>1. IsLaunch(Head(pending)) /\ Head(pending).tx \in Nat /\ Head(pending).nth \in Nat
    BY <1>1, Kinds
  <2>2. QED
    BY <2>1 DEF Before
<1>3. \A i \in 1 .. Len(received) : received[i] # Head(pending)
  BY <1>1, <1>2 DEF OrderInv, Ahead, Precedes
<1>4. \A i \in 1 .. Len(channel) : channel[i] # Head(pending)
  BY <1>1, <1>2 DEF OrderInv, Ahead, Precedes
<1>5. QED
  BY <1>1, <1>3, <1>4, SeenLaunches DEF ToSet

LEMMA FeedStep ==
  TypeOK /\ OrderInv /\ PendingInv /\ [Next]_vars => [TheFeed!Next]_(TheFeed!vars)
<1> SUFFICES ASSUME TypeOK, OrderInv, PendingInv, [Next]_vars
             PROVE  [TheFeed!Next]_(TheFeed!vars)
  OBVIOUS
<1> DEFINE queue == Seen(channel)
           taken == ToSet(received)
           open == receiver /\ at # "panicked"
<1>0. /\ channel \in Seq(Message) /\ received \in Seq(Launch)
      /\ Len(queue) = Len(channel)
  <2>1. channel \in Seq(Message) /\ received \in Seq(Launch)
    BY DEF TypeOK, Message
  <2>2. QED
    BY <2>1, SeenIsSeq
<1>a. ASSUME NEW x \in Sendable, x \notin taken \cup ToSet(queue), open,
             Len(queue) < ChannelCap, queue' = Append(queue, x), taken' = taken, open' = open
      PROVE  TheFeed!Next
  <2>1. TheFeed!Put(x)
    BY <1>a DEF TheFeed!Put, Seen
  <2>2. x \notin ToSet(received) \cup ToSet(Seen(channel))
    BY <1>a
  <2>3. TheFeed!SendItem(x)
    BY <1>a, <2>1, <2>2 DEF TheFeed!SendItem, TheFeed!ToSet, ToSet, Seen
  <2>4. QED
    BY <2>3 DEF TheFeed!Next, Sendable
<1>b. /\ open /\ Len(queue) < ChannelCap
      /\ queue' = Append(queue, Notice) /\ taken' = taken
      => TheFeed!Next
  BY DEF TheFeed!Next, TheFeed!SendNotice, TheFeed!Put, Seen
<1>c. /\ queue # <<>> /\ taken' = taken \cup ({Head(queue)} \ {Notice})
      /\ queue' = Tail(queue) /\ open' = open
      => TheFeed!Next
  BY DEF TheFeed!Next, TheFeed!Take, Seen
<1>d. ~open' /\ queue' \in {queue, <<>>} /\ taken' = taken => TheFeed!Next
  BY DEF TheFeed!Next, TheFeed!Close, Seen
<1>e. queue' = queue /\ taken' = taken /\ open' = open => UNCHANGED TheFeed!vars
  BY DEF TheFeed!vars, Seen
<1> HIDE DEF queue, taken
<1>1. CASE SendLaunch
  <2>1. /\ pending # <<>> /\ receiver /\ Len(channel) < ChannelCap
        /\ channel' = Append(channel, Head(pending))
        /\ received' = received /\ open /\ open'
    BY <1>1 DEF SendLaunch, TypeOK
  <2>2. Head(pending) \in Launch /\ Head(pending) \in Message /\ Head(pending) \in Sendable
    <3>1. pending \in Seq(Launch)
      BY DEF TypeOK
    <3>2. Head(pending) \in Launch /\ Head(pending) \in ToSet(pending)
      BY <2>1, <3>1, TailEffect, SetOfTail
    <3>3. QED
      BY <3>2 DEF PendingInv, Message
  <2>3. queue' = Append(queue, Head(pending))
    BY <1>0, <2>1, <2>2, Kinds, SeenOfAppend DEF queue
  <2>4. Head(pending) \notin taken \cup ToSet(queue)
    BY <2>1, PendingIsNew DEF queue, taken
  <2>5. QED
    BY <1>0, <1>a, <2>1, <2>2, <2>3, <2>4 DEF taken
<1>2. CASE Report
  <2>1. received' = received /\ at = "reporting" /\ receiver' = receiver
    BY <1>2 DEF Report
  <2>2. CASE receiver
    <3>1. channel' = Append(channel, [attempt |-> attempt]) /\ Len(channel) < ChannelCap
      BY <1>2, <2>2 DEF Report
    <3>2. [attempt |-> attempt] \in Reconnecting
      BY DEF TypeOK, Reconnecting
    <3>3. queue' = Append(queue, Notice)
      BY <1>0, <3>1, <3>2, Kinds, SeenOfAppend DEF queue, Message
    <3>4. QED
      BY <1>0, <1>b, <2>1, <2>2, <3>1, <3>3 DEF taken
  <2>3. CASE ~receiver
    BY <1>2, <1>e, <2>1, <2>3 DEF Report, queue, taken
  <2>4. QED
    BY <2>2, <2>3
<1>3. CASE Consume
  <2>1. /\ channel # <<>> /\ channel' = Tail(channel)
        /\ receiver' = receiver /\ at' = at
    BY <1>3 DEF Consume, taskVars
  <2>2. /\ queue # <<>> /\ queue' = Tail(queue)
        /\ Head(queue) = IF IsLaunch(Head(channel)) THEN Head(channel) ELSE Notice
    BY <1>0, <2>1, SeenOfTail DEF queue
  <2>3. Head(channel) \in Message
    BY <1>0, <2>1, TailEffect
  <2>4. taken' = taken \cup ({Head(queue)} \ {Notice})
    <3>1. CASE IsLaunch(Head(channel))
      <4>1. received' = Append(received, Head(channel)) /\ Head(channel) \in Launch
        BY <1>3, <2>3, <3>1, Kinds DEF Consume, Message
      <4>2. taken' = taken \cup {Head(channel)}
        BY <1>0, <4>1, SetOfAppend DEF taken
      <4>3. QED
        BY <2>2, <3>1, <4>1, <4>2, NoticeIsNoLaunch
    <3>2. CASE ~IsLaunch(Head(channel))
      BY <1>3, <2>2, <3>2 DEF Consume, taken
    <3>3. QED
      BY <3>1, <3>2
  <2>5. QED
    BY <1>c, <2>1, <2>2, <2>4
<1>4. CASE DropReceiver
  <2>1. queue' = <<>> /\ taken' = taken /\ ~receiver'
    BY <1>4 DEF DropReceiver, queue, taken, Seen
  <2>2. QED
    BY <1>d, <2>1
<1>5. CASE StreamEnds
  <2>1. queue' = queue /\ taken' = taken /\ receiver' = receiver /\ at = "streaming"
    BY <1>5 DEF StreamEnds, queue, taken
  <2>2. QED
    BY <1>d, <1>e, <2>1
<1>6. CASE SendFails
  <2>1. queue' = queue /\ taken' = taken /\ ~receiver /\ ~receiver'
    BY <1>6 DEF SendFails, queue, taken, TypeOK
  <2>2. QED
    BY <1>e, <2>1
<1>7. CASE UNCHANGED <<channel, received, receiver>> /\ (at = "panicked" <=> at' = "panicked")
  BY <1>e, <1>7 DEF queue, taken
<1>8. QED
  BY <1>1, <1>2, <1>3, <1>4, <1>5, <1>6, <1>7
     DEF Next, TaskStep, Subscribe, StreamFails, ReadTransaction, Wake, Produce,
         taskVars, vars

\* The listener keeps its promise to the event loop: no launch enters the channel
\* twice, what enters leaves in order, and nothing enters when either is gone.
THEOREM Feeding == Spec => FeedsTheLoop
<1>1. Init => PendingInv /\ TheFeed!Init
  <2> SUFFICES ASSUME Init
               PROVE  PendingInv /\ TheFeed!Init
    OBVIOUS
  <2>1. ToSet(<<>>) = {}
    BY DEF ToSet
  <2>2. PendingInv
    BY <2>1 DEF Init, PendingInv
  <2>3. TheFeed!Init
    BY <2>1 DEF Init, TheFeed!Init
  <2>4. QED
    BY <2>2, <2>3
<1>2. Spec => []PendingInv
  BY <1>1, TypeCorrect, PendingStep, PTL DEF Spec
<1>3. QED
  BY <1>1, <1>2, OrderInvariance, FeedStep, PTL DEF Spec, FeedsTheLoop, TheFeed!Spec
=============================================================================
