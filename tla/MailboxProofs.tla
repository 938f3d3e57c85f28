--------------------------- MODULE MailboxProofs ---------------------------
(***************************************************************************)
(* What holds of the registry for any shells, connections and messages.    *)
(***************************************************************************)
EXTENDS Mailbox, TLAPS

USE MailboxAssumption DEF Request, Phase

LEMMA ToSetType ==
  ASSUME NEW q \in Seq(Nat)
  PROVE  ToSet(q) \subseteq Nat
BY DEF ToSet

LEMMA ToSetEmpty == ToSet(<< >>) = {}
BY DEF ToSet

LEMMA HeadTail ==
  ASSUME NEW q \in Seq(Nat), q # << >>
  PROVE  Head(q) \in Nat /\ Tail(q) \in Seq(Nat) /\ q = <<Head(q)>> \o Tail(q)
OBVIOUS

LEMMA AppendOne ==
  ASSUME NEW q \in Seq(Nat), NEW m \in Nat
  PROVE  Append(q, m) = q \o <<m>>
OBVIOUS

LEMMA ToSetOne ==
  ASSUME NEW m \in Nat
  PROVE  ToSet(<<m>>) = {m} /\ IsInjective(<<m>>)
BY DEF ToSet, IsInjective

LEMMA ToSetConcat ==
  ASSUME NEW p \in Seq(Nat), NEW q \in Seq(Nat)
  PROVE  /\ ToSet(p \o q) = ToSet(p) \union ToSet(q)
         /\ IsInjective(p \o q) <=> /\ IsInjective(p) /\ IsInjective(q)
                                    /\ ToSet(p) \intersect ToSet(q) = {}
<1>1. /\ Len(p) \in Nat /\ Len(q) \in Nat
      /\ DOMAIN p = 1 .. Len(p) /\ DOMAIN q = 1 .. Len(q) /\ DOMAIN (p \o q) = 1 .. Len(p) + Len(q)
  OBVIOUS
<1>2. \A i \in 1 .. Len(p) + Len(q) : (p \o q)[i] = IF i <= Len(p) THEN p[i] ELSE q[i - Len(p)]
  OBVIOUS
<1>3. \A i \in 1 .. Len(p) : i \in 1 .. Len(p) + Len(q) /\ (p \o q)[i] = p[i]
  BY <1>1, <1>2
<1>4. \A i \in 1 .. Len(q) : /\ Len(p) + i \in 1 .. Len(p) + Len(q)
                             /\ Len(p) + i \notin 1 .. Len(p)
                             /\ (p \o q)[Len(p) + i] = q[i]
  BY <1>1, <1>2
<1>5. \A i \in 1 .. Len(p) + Len(q) : \/ i \in 1 .. Len(p) /\ (p \o q)[i] = p[i]
                                      \/ i - Len(p) \in 1 .. Len(q) /\ (p \o q)[i] = q[i - Len(p)]
  BY <1>1, <1>2
<1>6. ToSet(p \o q) = ToSet(p) \union ToSet(q)
  <2>1. ToSet(p \o q) \subseteq ToSet(p) \union ToSet(q)
    BY <1>1, <1>5 DEF ToSet
  <2>2. ToSet(p) \subseteq ToSet(p \o q)
    BY <1>1, <1>3 DEF ToSet
  <2>3. ToSet(q) \subseteq ToSet(p \o q)
    BY <1>1, <1>4 DEF ToSet
  <2> QED BY <2>1, <2>2, <2>3
<1>7. ASSUME IsInjective(p), IsInjective(q), ToSet(p) \intersect ToSet(q) = {},
             NEW i \in 1 .. Len(p) + Len(q), NEW j \in 1 .. Len(p) + Len(q),
             (p \o q)[i] = (p \o q)[j]
      PROVE  i = j
  <2>1. \A a \in 1 .. Len(p), b \in 1 .. Len(q) : p[a] # q[b]
    BY <1>1, <1>7 DEF ToSet
  <2>2. CASE i \in 1 .. Len(p) /\ j \in 1 .. Len(p)
    BY <1>1, <1>3, <1>7, <2>2 DEF IsInjective
  <2>3. CASE i \notin 1 .. Len(p) /\ j \notin 1 .. Len(p)
    <3>1. i - Len(p) \in 1 .. Len(q) /\ j - Len(p) \in 1 .. Len(q) /\ q[i - Len(p)] = q[j - Len(p)]
      BY <1>5, <1>7, <2>3
    <3>2. i - Len(p) = j - Len(p)
      BY <1>1, <1>7, <3>1 DEF IsInjective
    <3> QED BY <1>1, <3>2
  <2> QED BY <1>5, <1>7, <2>1, <2>2, <2>3
<1>8. ASSUME IsInjective(p \o q)
      PROVE  IsInjective(p) /\ IsInjective(q) /\ ToSet(p) \intersect ToSet(q) = {}
  <2>1. IsInjective(p)
    BY <1>1, <1>3, <1>8 DEF IsInjective
  <2>2. ASSUME NEW i \in 1 .. Len(q), NEW j \in 1 .. Len(q), q[i] = q[j]
        PROVE  i = j
    <3>1. Len(p) + i = Len(p) + j
      BY <1>1, <1>4, <1>8, <2>2 DEF IsInjective
    <3> QED BY <1>1, <3>1
  <2>3. ASSUME NEW i \in 1 .. Len(p), NEW j \in 1 .. Len(q) PROVE p[i] # q[j]
    BY <1>1, <1>3, <1>4, <1>8 DEF IsInjective
  <2> QED BY <1>1, <2>1, <2>2, <2>3 DEF IsInjective, ToSet
<1> QED BY <1>1, <1>6, <1>7, <1>8 DEF IsInjective

LEMMA ToSetAppend ==
  ASSUME NEW q \in Seq(Nat), NEW m \in Nat
  PROVE  /\ ToSet(Append(q, m)) = ToSet(q) \union {m}
         /\ IsInjective(q) /\ m \notin ToSet(q) => IsInjective(Append(q, m))
<1>1. <<m>> \in Seq(Nat) /\ ToSet(<<m>>) = {m} /\ IsInjective(<<m>>)
  BY ToSetOne
<1>2. /\ ToSet(q \o <<m>>) = ToSet(q) \union ToSet(<<m>>)
      /\ IsInjective(q \o <<m>>) <=> /\ IsInjective(q) /\ IsInjective(<<m>>)
                                     /\ ToSet(q) \intersect ToSet(<<m>>) = {}
  BY <1>1, ToSetConcat, Zenon
<1> QED BY <1>1, <1>2, AppendOne

LEMMA ToSetTail ==
  ASSUME NEW q \in Seq(Nat), q # << >>
  PROVE  /\ ToSet(q) = {Head(q)} \union ToSet(Tail(q))
         /\ IsInjective(q) => Head(q) \notin ToSet(Tail(q)) /\ IsInjective(Tail(q))
<1>1. Head(q) \in Nat /\ <<Head(q)>> \in Seq(Nat) /\ Tail(q) \in Seq(Nat) /\ q = <<Head(q)>> \o Tail(q)
  BY HeadTail
<1>2. ToSet(<<Head(q)>>) = {Head(q)}
  BY <1>1, ToSetOne
<1>3. /\ ToSet(<<Head(q)>> \o Tail(q)) = ToSet(<<Head(q)>>) \union ToSet(Tail(q))
      /\ IsInjective(<<Head(q)>> \o Tail(q)) <=> /\ IsInjective(<<Head(q)>>) /\ IsInjective(Tail(q))
                            /\ ToSet(<<Head(q)>>) \intersect ToSet(Tail(q)) = {}
  BY <1>1, ToSetConcat, Zenon
<1> QED BY <1>1, <1>2, <1>3

LEMMA TakeOne ==
  ASSUME NEW q \in Seq(Nat), q # << >>
  PROVE  /\ 1 \in 1 .. Len(q)
         /\ ToSet(SubSeq(q, 1, 1)) = {Head(q)}
         /\ SubSeq(q, 2, Len(q)) = Tail(q)
<1>1. Len(q) \in Nat \ {0}
  OBVIOUS
<1>2. SubSeq(q, 1, 1) \in Seq(Nat) /\ Len(SubSeq(q, 1, 1)) = 1 /\ SubSeq(q, 1, 1)[1] = q[1]
  BY <1>1
<1>3. ToSet(SubSeq(q, 1, 1)) = {Head(q)}
  BY <1>2 DEF ToSet
<1>4. SubSeq(q, 2, Len(q)) = Tail(q)
  BY <1>1
<1> QED BY <1>1, <1>3, <1>4

LEMMA TakeAll ==
  ASSUME NEW q \in Seq(Nat), q # << >>
  PROVE  /\ Len(q) \in 1 .. Len(q)
         /\ SubSeq(q, 1, Len(q)) = q
         /\ SubSeq(q, Len(q) + 1, Len(q)) = << >>
OBVIOUS

LEMMA TypesInit == Init => Types
<1>1. << >> \in Seq(Nat) OBVIOUS
<1>2. "idle" \in Phase /\ "pending" \in Request
  OBVIOUS
<1>3. SUFFICES ASSUME Init PROVE Types
  OBVIOUS
<1>4. /\ known \subseteq Shells
      /\ silent \in BOOLEAN
      /\ lock \in Conns \union {None}
      /\ restarts \in Nat
  BY <1>3 DEF Init
<1>5. /\ pending \in [Shells -> Seq(Nat)]
      /\ shown \in [Shells -> Seq(Nat)]
      /\ hand \in [Conns -> Seq(Nat)]
      /\ buf \in [Conns -> Seq(Nat)]
  BY <1>1, <1>3 DEF Init
<1>6. /\ subscriber \in [Shells -> Conns \union {None}]
      /\ owner \in [Conns -> Shells \union {None}]
  BY <1>3 DEF Init
<1>7. /\ phase \in [Conns -> Phase]
      /\ asked \in [Conns -> Request]
      /\ open \in [Conns -> BOOLEAN]
  BY <1>2, <1>3 DEF Init
<1>8. /\ signal \in [Shells -> BOOLEAN]
      /\ alive \in [Shells -> BOOLEAN]
      /\ poked \in [Shells -> BOOLEAN]
      /\ heard \in [Shells -> BOOLEAN]
  BY <1>3 DEF Init
<1>9. /\ posted \in [Shells -> Nat]
      /\ lost \in [Shells -> SUBSET Nat]
  BY <1>3 DEF Init
<1>10. QED
  BY <1>4, <1>5, <1>6, <1>7, <1>8, <1>9 DEF Types

LEMMA ConnectTypes ==
  ASSUME Types, NEW c \in Conns, NEW s \in Shells, NEW request \in Request,
         Connect(c, s, request), poked' \in [Shells -> BOOLEAN]
  PROVE  Types'
BY DEF Types, Connect, registry, history

LEMMA LosesType ==
  ASSUME Types, NEW s \in Shells, NEW q \in Seq(Nat), Loses(s, ToSet(q))
  PROVE  lost' \in [Shells -> SUBSET Nat]
<1>1. ToSet(q) \subseteq Nat
  BY ToSetType
<1>2. QED
  BY <1>1 DEF Loses, Types

LEMMA WriteTypes ==
  ASSUME Types, NEW c \in Conns, owner[c] \in Shells,
         NEW frame \in Seq(Nat), Write(c, frame)
  PROVE  /\ buf' \in [Conns -> Seq(Nat)]
         /\ lost' \in [Shells -> SUBSET Nat]
<1>1. CASE open[c]
  <2>1. buf[c] \in Seq(Nat) /\ buf[c] \o frame \in Seq(Nat)
    BY DEF Types
  <2>2. /\ buf' = [buf EXCEPT ![c] = buf[c] \o frame]
        /\ lost' = lost
    BY <1>1 DEF Write
  <2>3. QED
    BY <2>1, <2>2 DEF Types
<1>2. CASE ~open[c]
  BY <1>2, LosesType DEF Write, Types
<1>3. QED
  BY <1>1, <1>2

\* Every step of a thread keeps the types.
LEMMA ThreadTypes ==
  ASSUME Types, Ends, NEW c \in Conns, Thread(c)
  PROVE  Types'
<1> USE DEF Types, registry, server, client, shell, history
<1>1. CASE Ack(c)
  BY <1>1 DEF Ack
<1>2. CASE BeginAttach(c)
  BY <1>2 DEF BeginAttach, Know, Ends
<1>3. CASE AttachSend(c)
  BY <1>3 DEF AttachSend, Ends
<1>4. CASE AttachFail(c)
  BY <1>4 DEF AttachFail, PushFront, LetGo, Ends
<1>5. CASE AttachDone(c)
  BY <1>5 DEF AttachDone, LetGo, Ends
<1>6. CASE DrainForPoll(c)
  BY <1>6 DEF DrainForPoll, Drain, Know, Emptied, Ends
<1>7. CASE SendBubble(c)
  <2>1. <<Head(hand[c])>> \in Seq(Nat) /\ hand' \in [Conns -> Seq(Nat)]
    BY <1>7 DEF SendBubble
  <2>2. owner[c] \in Shells /\ Write(c, <<Head(hand[c])>>)
    BY <1>7 DEF SendBubble, Ends
  <2>3. buf' \in [Conns -> Seq(Nat)] /\ lost' \in [Shells -> SUBSET Nat]
    BY <2>1, <2>2, WriteTypes
  <2>4. QED
    BY <1>7, <2>1, <2>3 DEF SendBubble
<1>8. CASE SendDone(c)
  BY <1>8 DEF SendDone, LetGo
<1>9. CASE RegisterSignal(c)
  BY <1>9 DEF RegisterSignal, Know, Ends
<1>10. CASE TriageFails(c)
  BY <1>10 DEF TriageFails, LetGo
<1>11. CASE DrainForDecision(c)
  BY <1>11 DEF DrainForDecision, Drain, Know, Emptied, Ends
<1>12. CASE SendDecision(c)
  <2>1. hand[c] \in Seq(Nat) /\ owner[c] \in Shells /\ Write(c, hand[c])
    BY <1>12 DEF SendDecision, Ends
  <2>2. buf' \in [Conns -> Seq(Nat)] /\ lost' \in [Shells -> SUBSET Nat]
    BY <2>1, WriteTypes
  <2>3. hand' \in [Conns -> Seq(Nat)] /\ phase' \in [Conns -> Phase]
    BY <1>12 DEF SendDecision, LetGo
  <2>4. QED
    BY <1>12, <2>2, <2>3 DEF SendDecision
<1>13. QED
  BY <1>1, <1>2, <1>3, <1>4, <1>5, <1>6, <1>7, <1>8, <1>9, <1>10, <1>11, <1>12 DEF Thread

\* So does every step of a client.
LEMMA ClientTypes ==
  ASSUME Types, Ends, NEW c \in Conns, Client(c)
  PROVE  Types'
<1>1. CASE ReadBubble(c)
  BY <1>1 DEF ReadBubble, Types, Ends, registry, server, shell
<1>2. CASE ReadAnswer(c)
  BY <1>2 DEF ReadAnswer, Types, Ends, registry, server, shell
<1>3. CASE HangUp(c)
  <2>1. lost' \in [Shells -> SUBSET Nat]
    BY <1>3, LosesType DEF HangUp, Types, Ends
  <2>2. QED
    BY <1>3, <2>1 DEF HangUp, Types, registry, server, shell
<1>4. ASSUME NEW s \in Shells, Ask(c, s)
      PROVE  Types'
  BY <1>4, ConnectTypes DEF Ask, Types
<1>5. ASSUME NEW s \in Shells, AnswerPoke(c, s)
      PROVE  Types'
  <2>1. poked' \in [Shells -> BOOLEAN]
    BY <1>5 DEF AnswerPoke, Types
  <2>2. QED
    BY <1>5, <2>1, ConnectTypes DEF AnswerPoke
<1>6. QED
  BY <1>1, <1>2, <1>3, <1>4, <1>5 DEF Client

\* So do a delivery and the end of a shell.
LEMMA ShellTypes ==
  ASSUME Types, Ends, NEW s \in Shells, Deliver(s) \/ ShellExits(s)
  PROVE  Types'
<1> USE DEF Types, registry, client, shell, history
<1>1. CASE DeliverSilent(s)
  BY <1>1 DEF DeliverSilent, Post, Loses
<1>2. CASE DeliverLive(s)
  BY <1>2 DEF DeliverLive, Post, Reached
<1>3. CASE DeliverLater(s)
  BY <1>3 DEF DeliverLater, Post, Know, Unsubscribed, LetGo, Pokes
<1>4. CASE ShellExits(s)
  BY <1>4 DEF ShellExits, server
<1>5. QED
  BY <1>1, <1>2, <1>3, <1>4 DEF Deliver

\* So does whatever the daemon does on its own.
LEMMA DaemonTypes ==
  ASSUME Types, Daemon
  PROVE  Types'
<1> USE DEF Types, registry, server, client, shell, history
<1>1. CASE Ping
  BY <1>1 DEF Ping
<1>2. CASE ForgetGone
  <2>1. \A s \in Shells : ToSet(pending[s]) \subseteq Nat
    BY ToSetType
  <2>2. QED
    BY <1>2, <2>1 DEF ForgetGone
<1>3. CASE SetSilent
  BY <1>3 DEF SetSilent
<1>4. CASE Quit
  <2>1. \A s \in Shells : ToSet(pending[s]) \subseteq Nat /\ HeldFor(s) \subseteq Nat
    BY ToSetType DEF HeldFor
  <2>2. lost' \in [Shells -> SUBSET Nat]
    BY <1>4, <2>1 DEF Quit
  <2>3. QED
    BY <1>4, <2>2 DEF Quit
<1>5. QED
  BY <1>1, <1>2, <1>3, <1>4 DEF Daemon

LEMMA StutterTypes ==
  ASSUME Types, UNCHANGED vars
  PROVE  Types'
BY DEF vars, registry, server, client, shell, history, Types

LEMMA TypesStep ==
  ASSUME Types, Ends, [Next]_vars
  PROVE  Types'
<1>1. ASSUME NEW c \in Conns, Thread(c) \/ Client(c)
      PROVE  Types'
  BY <1>1, ThreadTypes, ClientTypes
<1>2. ASSUME NEW s \in Shells, Deliver(s) \/ ShellExits(s)
      PROVE  Types'
  BY <1>2, ShellTypes
<1>3. CASE Daemon
  BY <1>3, DaemonTypes
<1>4. CASE UNCHANGED vars
  BY <1>4, StutterTypes
<1>5. QED
  BY <1>1, <1>2, <1>3, <1>4 DEF Next
-----------------------------------------------------------------------------
(***************************************************************************)
(* The two ends stay where the registry says.                              *)
(***************************************************************************)
LEMMA EndsInit == Init => Ends
BY DEF Init, Ends

LEMMA ConnectEnds ==
  ASSUME Types, Ends, NEW c \in Conns, NEW s \in Shells, NEW request \in Request,
         Connect(c, s, request)
  PROVE  Ends'
BY DEF Types, Ends, Connect, registry, history

LEMMA ThreadEnds ==
  ASSUME Types, Ends, NEW c \in Conns, Thread(c)
  PROVE  Ends'
<1> USE DEF Types, Ends, registry, server, client, shell, history
<1>1. CASE Ack(c)
  BY <1>1 DEF Ack
<1>2. CASE BeginAttach(c)
  BY <1>2 DEF BeginAttach, Free
<1>3. CASE AttachSend(c)
  BY <1>3 DEF AttachSend
<1>4. CASE AttachFail(c)
  BY <1>4 DEF AttachFail, LetGo
<1>5. CASE AttachDone(c)
  <2> DEFINE s == owner[c]
             old == subscriber[s]
  <2>1. s \in Shells /\ phase[c] = "acked" /\ old # c
    BY <1>5 DEF AttachDone
  <2>2. subscriber' = [subscriber EXCEPT ![s] = c] /\ UNCHANGED <<owner, open>> /\ lock' = None
    BY <1>5 DEF AttachDone
  <2>3. \A d \in Conns :
          phase'[d] = IF d = c THEN "live" ELSE IF d = old THEN "idle" ELSE phase[d]
    BY <1>5 DEF AttachDone, LetGo
  <2>4. \A d \in Conns : phase'[d] # "idle" \/ open'[d] => owner'[d] \in Shells
    BY <2>1, <2>2, <2>3
  <2>5. \A t \in Shells : subscriber'[t] # None => owner'[subscriber'[t]] = t
    BY <2>1, <2>2
  <2>6. ASSUME NEW d \in Conns
        PROVE  phase'[d] = "live" <=> \E t \in Shells : subscriber'[t] = d
    <3>1. CASE d = c
      BY <2>1, <2>2, <2>3, <3>1
    <3>2. CASE d # c /\ d = old
      <4>1. phase'[d] = "idle" /\ owner[d] = s
        BY <2>1, <2>3, <3>2
      <4>2. ASSUME NEW t \in Shells PROVE subscriber'[t] # d
        BY <2>1, <2>2, <3>2, <4>1
      <4>3. QED
        BY <4>1, <4>2
    <3>3. CASE d # c /\ d # old
      BY <2>1, <2>2, <2>3, <3>3
    <3>4. QED
      BY <3>1, <3>2, <3>3
  <2>7. QED
    BY <2>2, <2>4, <2>5, <2>6
<1>6. CASE DrainForPoll(c)
  BY <1>6 DEF DrainForPoll, Drain, Free
<1>7. CASE SendBubble(c)
  BY <1>7 DEF SendBubble
<1>8. CASE SendDone(c)
  BY <1>8 DEF SendDone, LetGo
<1>9. CASE RegisterSignal(c)
  BY <1>9 DEF RegisterSignal, Free
<1>10. CASE TriageFails(c)
  BY <1>10 DEF TriageFails, LetGo
<1>11. CASE DrainForDecision(c)
  BY <1>11 DEF DrainForDecision, Drain, Free
<1>12. CASE SendDecision(c)
  BY <1>12 DEF SendDecision, LetGo
<1>13. QED
  BY <1>1, <1>2, <1>3, <1>4, <1>5, <1>6, <1>7, <1>8, <1>9, <1>10, <1>11, <1>12 DEF Thread

LEMMA ClientEnds ==
  ASSUME Types, Ends, NEW c \in Conns, Client(c)
  PROVE  Ends'
<1> USE DEF Types, Ends, registry, server, client, shell, history
<1>1. CASE ReadBubble(c)
  BY <1>1 DEF ReadBubble
<1>2. CASE ReadAnswer(c)
  BY <1>2 DEF ReadAnswer
<1>3. CASE HangUp(c)
  BY <1>3 DEF HangUp
<1>4. ASSUME NEW s \in Shells, Ask(c, s) \/ AnswerPoke(c, s)
      PROVE  Ends'
  BY <1>4, ConnectEnds DEF Ask, AnswerPoke
<1>5. QED
  BY <1>1, <1>2, <1>3, <1>4 DEF Client

LEMMA ShellEnds ==
  ASSUME Types, Ends, NEW s \in Shells, Deliver(s) \/ ShellExits(s)
  PROVE  Ends'
<1> USE DEF Types, Ends, registry, server, client, shell, history
<1>1. CASE DeliverSilent(s)
  BY <1>1 DEF DeliverSilent, Post
<1>2. CASE DeliverLive(s)
  BY <1>2 DEF DeliverLive, Post
<1>3. CASE DeliverLater(s)
  BY <1>3 DEF DeliverLater, Post, Unsubscribed, LetGo, Free
<1>4. CASE ShellExits(s)
  BY <1>4 DEF ShellExits
<1>5. QED
  BY <1>1, <1>2, <1>3, <1>4 DEF Deliver

LEMMA DaemonEnds ==
  ASSUME Types, Ends, Daemon
  PROVE  Ends'
<1> USE DEF Types, Ends, registry, server, client, shell, history
<1>1. CASE Ping
  BY <1>1 DEF Ping, Dead, Free
<1>2. CASE ForgetGone
  BY <1>2 DEF ForgetGone
<1>3. CASE SetSilent
  BY <1>3 DEF SetSilent
<1>4. CASE Quit
  BY <1>4 DEF Quit
<1>5. QED
  BY <1>1, <1>2, <1>3, <1>4 DEF Daemon

LEMMA EndsStep ==
  ASSUME TypeOK, [Next]_vars
  PROVE  Ends'
<1>1. ASSUME NEW c \in Conns, Thread(c) \/ Client(c)
      PROVE  Ends'
  BY <1>1, ThreadEnds, ClientEnds DEF TypeOK
<1>2. ASSUME NEW s \in Shells, Deliver(s) \/ ShellExits(s)
      PROVE  Ends'
  BY <1>2, ShellEnds DEF TypeOK
<1>3. CASE Daemon
  BY <1>3, DaemonEnds DEF TypeOK
<1>4. CASE UNCHANGED vars
  BY <1>4 DEF vars, registry, server, client, shell, history, Ends, TypeOK
<1>5. QED
  BY <1>1, <1>2, <1>3, <1>4 DEF Next

(***************************************************************************)
(* The state is always well formed, and a connection is live exactly while *)
(* the registry holds it as its shell's subscriber: sessions.rs replaces,  *)
(* drops and restores subscribers without ever sharing or leaking one.     *)
(***************************************************************************)
THEOREM TypeCorrect == Spec => []TypeOK
<1>1. Init => TypeOK
  BY TypesInit, EndsInit DEF TypeOK
<1>2. TypeOK /\ [Next]_vars => TypeOK'
  BY TypesStep, EndsStep DEF TypeOK
<1>3. QED
  BY <1>1, <1>2, PTL DEF Spec
-----------------------------------------------------------------------------
(***************************************************************************)
(* No overtaking.  The invariant is inductive given TypeOK: an attach      *)
(* subscribes only once the queue is empty, and a delivery queues only     *)
(* after it dropped the subscriber.                                        *)
(***************************************************************************)
LEMMA ThreadKeepsOrder ==
  ASSUME TypeOK, NothingOvertakes, NEW c \in Conns, Thread(c)
  PROVE  NothingOvertakes'
<1> USE DEF TypeOK, Types, NothingOvertakes, registry, server, client, shell, history
<1>1. CASE Ack(c)
  BY <1>1 DEF Ack
<1>2. CASE BeginAttach(c)
  BY <1>2 DEF BeginAttach
<1>3. CASE AttachSend(c)
  BY <1>3 DEF AttachSend
<1>4. CASE AttachFail(c)
  BY <1>4 DEF AttachFail
<1>5. CASE AttachDone(c)
  BY <1>5 DEF AttachDone
<1>6. CASE DrainForPoll(c)
  BY <1>6 DEF DrainForPoll, Drain, Emptied
<1>7. CASE SendBubble(c)
  BY <1>7 DEF SendBubble
<1>8. CASE SendDone(c)
  BY <1>8 DEF SendDone
<1>9. CASE RegisterSignal(c)
  BY <1>9 DEF RegisterSignal
<1>10. CASE TriageFails(c)
  BY <1>10 DEF TriageFails
<1>11. CASE DrainForDecision(c)
  BY <1>11 DEF DrainForDecision, Drain, Emptied
<1>12. CASE SendDecision(c)
  BY <1>12 DEF SendDecision
<1>13. QED
  BY <1>1, <1>2, <1>3, <1>4, <1>5, <1>6, <1>7, <1>8, <1>9, <1>10, <1>11, <1>12 DEF Thread

LEMMA OthersKeepOrder ==
  ASSUME TypeOK, NothingOvertakes,
         \/ \E c \in Conns : Client(c)
         \/ \E s \in Shells : Deliver(s) \/ ShellExits(s)
         \/ Daemon
         \/ UNCHANGED vars
  PROVE  NothingOvertakes'
<1> USE DEF NothingOvertakes
<1>1. ASSUME NEW c \in Conns, Client(c)
      PROVE  UNCHANGED registry
  BY <1>1 DEF Client, ReadBubble, ReadAnswer, HangUp, Ask, AnswerPoke, Connect
<1>2. ASSUME NEW s \in Shells, DeliverLater(s)
      PROVE  NothingOvertakes'
  BY <1>2 DEF DeliverLater, Unsubscribed, TypeOK, Types
<1>3. ASSUME NEW s \in Shells, DeliverSilent(s) \/ DeliverLive(s) \/ ShellExits(s)
      PROVE  UNCHANGED registry
  BY <1>3 DEF DeliverSilent, DeliverLive, ShellExits
<1>4. CASE Ping
  BY <1>4 DEF Ping
<1>5. CASE ForgetGone
  BY <1>5 DEF ForgetGone
<1>6. CASE SetSilent \/ UNCHANGED vars
  BY <1>6 DEF SetSilent, vars, registry
<1>7. CASE Quit
  BY <1>7 DEF Quit
<1>8. UNCHANGED registry => NothingOvertakes'
  BY DEF registry
<1>9. QED
  BY <1>1, <1>2, <1>3, <1>4, <1>5, <1>6, <1>7, <1>8 DEF Deliver, Daemon

(***************************************************************************)
(* A message delivered live never overtakes one that waits, however many   *)
(* shells, connections and messages there are.                             *)
(***************************************************************************)
THEOREM OrderSafe == Spec => []NothingOvertakes
<1>1. Init => NothingOvertakes
  BY DEF Init, NothingOvertakes
<1>2. TypeOK /\ NothingOvertakes /\ [Next]_vars => NothingOvertakes'
  BY ThreadKeepsOrder, OthersKeepOrder DEF Next
<1>3. QED
  BY <1>1, <1>2, TypeCorrect, PTL DEF Spec
-----------------------------------------------------------------------------
(***************************************************************************)
(* One place for every message.  A message of s waits, or a connection of  *)
(* s holds it in its hand or in its socket, or it is printed, or it is     *)
(* lost: never two of these, never twice, and never before it was posted.  *)
(* It rests on where messages can be at all: only a thread that answers    *)
(* holds some, and only an open connection has some in its socket.         *)
(***************************************************************************)
Carried(c) == ToSet(hand[c]) \union ToSet(buf[c])
Past(s)    == ToSet(shown[s]) \union lost[s]

Holders ==
  \A c \in Conns : /\ hand[c] # << >> => phase[c] \in {"answering", "deciding"}
                   /\ buf[c] # << >> => open[c]

Once ==
  /\ \A s \in Shells : IsInjective(pending[s]) /\ IsInjective(shown[s])
  /\ \A c \in Conns : IsInjective(hand[c]) /\ IsInjective(buf[c])

\* Between the two ends of a connection, two connections of a shell, a
\* connection and its shell, and at the shell.
ApartAtEnds == \A c \in Conns : ToSet(hand[c]) \intersect ToSet(buf[c]) = {}
ApartOnWay  == \A c, d \in Conns :
                 c # d /\ owner[c] = owner[d] => Carried(c) \intersect Carried(d) = {}
ApartFromShell ==
  \A c \in Conns, s \in Shells : owner[c] = s =>
    Carried(c) \intersect (ToSet(pending[s]) \union Past(s)) = {}
ApartAtShell ==
  \A s \in Shells : /\ ToSet(pending[s]) \intersect Past(s) = {}
                    /\ ToSet(shown[s]) \intersect lost[s] = {}

Apart == ApartAtEnds /\ ApartOnWay /\ ApartFromShell /\ ApartAtShell

Numbered ==
  /\ \A s \in Shells : \A m \in ToSet(pending[s]) \union Past(s) : m <= posted[s]
  /\ \A c \in Conns, s \in Shells : owner[c] = s => \A m \in Carried(c) : m <= posted[s]

OnePlace == Holders /\ Once /\ Apart /\ Numbered

\* What the parts of OnePlace other than Holders speak of.
Placed == <<pending, hand, buf, owner, posted, shown, lost>>

LEMMA OnePlaceInit == Init => OnePlace
<1> SUFFICES ASSUME Init PROVE OnePlace
  OBVIOUS
<1>1. /\ \A s \in Shells : ToSet(pending[s]) = {} /\ ToSet(shown[s]) = {} /\ lost[s] = {}
      /\ \A c \in Conns : ToSet(hand[c]) = {} /\ ToSet(buf[c]) = {}
  BY ToSetEmpty DEF Init
<1>2. Holders
  BY DEF Init, Holders
<1>3. Once
  <2>1. IsInjective(<< >>)
    BY DEF IsInjective
  <2> QED BY <2>1 DEF Init, Once
<1>4. Apart /\ Numbered
  BY <1>1 DEF Apart, ApartAtEnds, ApartOnWay, ApartFromShell, ApartAtShell,
                 Numbered, Carried, Past
<1> QED BY <1>2, <1>3, <1>4 DEF OnePlace

LEMMA StillPlaced ==
  ASSUME Once, Apart, Numbered, UNCHANGED Placed
  PROVE  Once' /\ Apart' /\ Numbered'
BY DEF Placed, Once, Apart, ApartAtEnds, ApartOnWay, ApartFromShell, ApartAtShell,
       Numbered, Carried, Past

\* The threads that move no message, and the others that do not.
LEMMA QuietHolders ==
  ASSUME TypeOK, Holders,
         \/ \E c \in Conns : \/ Ack(c) \/ BeginAttach(c) \/ AttachDone(c) \/ AttachFail(c)
                             \/ SendDone(c) \/ RegisterSignal(c) \/ TriageFails(c)
         \/ \E s \in Shells : ShellExits(s)
         \/ Ping \/ SetSilent \/ UNCHANGED vars
  PROVE  Holders'
<1> USE DEF TypeOK, Types, Holders, registry, server, client, shell, history, vars
<1>1. ASSUME NEW c \in Conns, Ack(c) PROVE Holders'
  BY <1>1 DEF Ack
<1>2. ASSUME NEW c \in Conns, BeginAttach(c) PROVE Holders'
  BY <1>2 DEF BeginAttach
<1>3. ASSUME NEW c \in Conns, AttachDone(c) PROVE Holders'
  BY <1>3 DEF AttachDone, LetGo, Ends
<1>4. ASSUME NEW c \in Conns, AttachFail(c) PROVE Holders'
  BY <1>4 DEF AttachFail, LetGo, Ends
<1>5. ASSUME NEW c \in Conns, SendDone(c) PROVE Holders'
  BY <1>5 DEF SendDone, LetGo
<1>6. ASSUME NEW c \in Conns, RegisterSignal(c) PROVE Holders'
  BY <1>6 DEF RegisterSignal
<1>7. ASSUME NEW c \in Conns, TriageFails(c) PROVE Holders'
  BY <1>7 DEF TriageFails, LetGo
<1>8. ASSUME NEW s \in Shells, ShellExits(s) PROVE Holders'
  BY <1>8 DEF ShellExits
<1>9. CASE Ping
  BY <1>9 DEF Ping, Dead, Ends
<1>10. CASE SetSilent \/ UNCHANGED vars
  BY <1>10 DEF SetSilent
<1> QED BY <1>1, <1>2, <1>3, <1>4, <1>5, <1>6, <1>7, <1>8, <1>9, <1>10

LEMMA QuietPlaced ==
  ASSUME TypeOK,
         \/ \E c \in Conns : \/ Ack(c) \/ BeginAttach(c) \/ AttachDone(c) \/ AttachFail(c)
                             \/ SendDone(c) \/ RegisterSignal(c) \/ TriageFails(c)
         \/ \E s \in Shells : ShellExits(s)
         \/ Ping \/ SetSilent \/ UNCHANGED vars
  PROVE  UNCHANGED Placed
<1> USE DEF Placed, registry, server, client, shell, history
<1>1. ASSUME NEW c \in Conns, AttachFail(c) PROVE UNCHANGED Placed
  <2> DEFINE s == owner[c]
  <2>1. s \in Shells /\ pending[s] \in Seq(Nat) /\ pending[s] # << >>
    BY <1>1 DEF AttachFail, TypeOK, Types, Ends
  <2>2. <<Head(pending[s])>> \o Tail(pending[s]) = pending[s]
    BY <2>1
  <2>3. pending' = [pending EXCEPT ![s] = pending[s]]
    BY <1>1, <2>2 DEF AttachFail, PushFront
  <2>4. pending' = pending
    BY <2>3 DEF TypeOK, Types
  <2> QED BY <1>1, <2>4 DEF AttachFail
<1>2. ASSUME NEW c \in Conns,
             \/ Ack(c) \/ BeginAttach(c) \/ AttachDone(c)
             \/ SendDone(c) \/ RegisterSignal(c) \/ TriageFails(c)
      PROVE  UNCHANGED Placed
  BY <1>2 DEF Ack, BeginAttach, AttachDone, SendDone, RegisterSignal, TriageFails
<1>3. ASSUME NEW s \in Shells, ShellExits(s) PROVE UNCHANGED Placed
  BY <1>3 DEF ShellExits
<1>4. CASE Ping \/ SetSilent \/ UNCHANGED vars
  BY <1>4 DEF Ping, SetSilent, vars
<1> QED BY <1>1, <1>2, <1>3, <1>4

\* A new call finds the connection empty: its owner changes, no message does.
LEMMA ConnectKeeps ==
  ASSUME TypeOK, OnePlace, NEW c \in Conns, NEW s \in Shells, NEW request \in Request,
         Connect(c, s, request)
  PROVE  OnePlace'
<1>1. ToSet(hand[c]) = {} /\ ToSet(buf[c]) = {}
  BY ToSetEmpty DEF Connect, OnePlace, Holders
<1>2. /\ UNCHANGED <<pending, hand, buf, posted, shown, lost>>
      /\ owner' = [owner EXCEPT ![c] = s]
  BY DEF Connect, registry, history
<1>3. Holders'
  BY DEF Connect, OnePlace, Holders, TypeOK, Types
<1>4. Once'
  BY <1>2 DEF OnePlace, Once
<1>5. /\ Carried(c) = {}
      /\ \A d \in Conns : Carried(d)' = Carried(d)
      /\ \A d \in Conns \ {c} : owner'[d] = owner[d]
      /\ \A t \in Shells : Past(t)' = Past(t)
  BY <1>1, <1>2 DEF Carried, Past, TypeOK, Types
<1>6. Apart'
  BY <1>2, <1>5 DEF OnePlace, Apart, ApartAtEnds, ApartOnWay, ApartFromShell, ApartAtShell
<1>7. Numbered'
  BY <1>2, <1>5 DEF OnePlace, Numbered
<1> QED BY <1>3, <1>4, <1>6, <1>7 DEF OnePlace
-----------------------------------------------------------------------------
(***************************************************************************)
(* What the steps that move messages do to the sets of messages.           *)
(***************************************************************************)
LEMMA AttachSendDoes ==
  ASSUME TypeOK, OnePlace, NEW c \in Conns, AttachSend(c),
         NEW s, s = owner[c]
  PROVE  /\ s \in Shells /\ pending[s] \in Seq(Nat) /\ pending[s] # << >>
         /\ pending' = [pending EXCEPT ![s] = Tail(pending[s])]
         /\ buf' = [buf EXCEPT ![c] = Append(buf[c], Head(pending[s]))]
         /\ Carried(c)' = Carried(c) \union {Head(pending[s])}
         /\ \A d \in Conns \ {c} : Carried(d)' = Carried(d)
         /\ UNCHANGED <<hand, owner, open, phase, posted, shown, lost>>
<1>1. s \in Shells /\ pending[s] \in Seq(Nat) /\ pending[s] # << >> /\ buf[c] \in Seq(Nat)
  BY DEF AttachSend, TypeOK, Types, Ends
<1>2. /\ pending' = [pending EXCEPT ![s] = Tail(pending[s])]
      /\ buf' = [buf EXCEPT ![c] = Append(buf[c], Head(pending[s]))]
      /\ UNCHANGED <<hand, owner, open, phase, posted, shown, lost>>
  BY <1>1 DEF AttachSend, server, history
<1>3. /\ buf'[c] = Append(buf[c], Head(pending[s]))
      /\ \A d \in Conns \ {c} : buf'[d] = buf[d]
  BY <1>2 DEF TypeOK, Types
<1>4. ToSet(Append(buf[c], Head(pending[s]))) = ToSet(buf[c]) \union {Head(pending[s])}
  BY <1>1, ToSetTail, ToSetAppend
<1> QED BY <1>1, <1>2, <1>3, <1>4 DEF Carried

LEMMA DrainDoes ==
  ASSUME TypeOK, OnePlace, NEW c \in Conns, DrainForPoll(c) \/ DrainForDecision(c),
         NEW s, s = owner[c]
  PROVE  /\ s \in Shells /\ pending[s] \in Seq(Nat)
         /\ hand[c] = << >>
         /\ pending' = [pending EXCEPT ![s] = << >>]
         /\ hand' = [hand EXCEPT ![c] = pending[s]]
         /\ phase'[c] \in {"answering", "deciding"}
         /\ \A d \in Conns \ {c} : phase'[d] = phase[d]
         /\ Carried(c)' = Carried(c) \union ToSet(pending[s])
         /\ \A d \in Conns \ {c} : Carried(d)' = Carried(d)
         /\ UNCHANGED <<buf, owner, open, posted, shown, lost>>
<1>1. phase[c] \in {"pending", "triaged"}
  BY DEF DrainForPoll, DrainForDecision
<1>2. s \in Shells /\ pending[s] \in Seq(Nat) /\ hand[c] = << >>
  BY <1>1 DEF TypeOK, Types, Ends, OnePlace, Holders
<1>3. /\ pending' = [pending EXCEPT ![s] = << >>]
      /\ hand' = [hand EXCEPT ![c] = pending[s]]
      /\ UNCHANGED <<buf, owner, open, posted, shown, lost>>
  BY DEF DrainForPoll, DrainForDecision, Drain, Emptied, client, history
<1>4. /\ phase'[c] \in {"answering", "deciding"}
      /\ \A d \in Conns \ {c} : phase'[d] = phase[d]
  BY DEF DrainForPoll, DrainForDecision, Drain, TypeOK, Types
<1>5. hand'[c] = pending[s] /\ \A d \in Conns \ {c} : hand'[d] = hand[d]
  BY <1>3 DEF TypeOK, Types
<1>6. /\ Carried(c)' = Carried(c) \union ToSet(pending[s])
      /\ \A d \in Conns \ {c} : Carried(d)' = Carried(d)
  BY <1>2, <1>3, <1>5, ToSetEmpty DEF Carried
<1> QED BY <1>2, <1>3, <1>4, <1>6

\* A frame leaves the hand for the socket of a client that is there, or is lost.
LEMMA SendDoes ==
  ASSUME TypeOK, OnePlace, NEW c \in Conns, SendBubble(c) \/ SendDecision(c)
  PROVE  /\ owner[c] \in Shells
         /\ \E p, q \in Seq(Nat) :
              /\ hand[c] = p \o q
              /\ hand' = [hand EXCEPT ![c] = q]
              /\ \/ /\ open[c] /\ lost' = lost
                    /\ buf' = [buf EXCEPT ![c] = buf[c] \o p]
                 \/ /\ buf' = buf
                    /\ lost' = [lost EXCEPT ![owner[c]] = lost[owner[c]] \union ToSet(p)]
              /\ q = << >> \/ phase' = phase
         /\ \A d \in Conns \ {c} : phase'[d] = phase[d]
         /\ UNCHANGED <<pending, owner, open, posted, shown>>
<1>1. owner[c] \in Shells /\ hand[c] \in Seq(Nat)
  BY DEF SendBubble, SendDecision, TypeOK, Types, Ends
<1>2. /\ \A d \in Conns \ {c} : phase'[d] = phase[d]
      /\ UNCHANGED <<pending, owner, open, posted, shown>>
  BY DEF SendBubble, SendDecision, LetGo, registry, TypeOK, Types
<1>3. ASSUME NEW p \in Seq(Nat), Write(c, p)
      PROVE  \/ /\ open[c] /\ lost' = lost
                /\ buf' = [buf EXCEPT ![c] = buf[c] \o p]
             \/ /\ buf' = buf
                /\ lost' = [lost EXCEPT ![owner[c]] = lost[owner[c]] \union ToSet(p)]
  BY <1>3 DEF Write, Loses
<1>4. CASE SendBubble(c)
  <2> DEFINE p == <<Head(hand[c])>>
             q == Tail(hand[c])
  <2>1. p \in Seq(Nat) /\ q \in Seq(Nat) /\ hand[c] = p \o q
    BY <1>1, <1>4, HeadTail DEF SendBubble
  <2>2. Write(c, p) /\ hand' = [hand EXCEPT ![c] = q] /\ phase' = phase
    BY <1>4 DEF SendBubble
  <2>3. QED
    BY <1>1, <1>2, <1>3, <2>1, <2>2
<1>5. CASE SendDecision(c)
  <2>1. << >> \in Seq(Nat) /\ hand[c] = hand[c] \o << >>
    BY <1>1
  <2>2. Write(c, hand[c]) /\ hand' = [hand EXCEPT ![c] = << >>]
    BY <1>5 DEF SendDecision
  <2>3. QED
    BY <1>1, <1>2, <1>3, <2>1, <2>2
<1> QED BY <1>4, <1>5

\* What a client reads is printed.
LEMMA ReadDoes ==
  ASSUME TypeOK, OnePlace, NEW c \in Conns, ReadBubble(c) \/ ReadAnswer(c)
  PROVE  /\ owner[c] \in Shells /\ buf[c] \in Seq(Nat) /\ buf[c] # << >>
         /\ \E p, q \in Seq(Nat) :
              /\ buf[c] = p \o q
              /\ buf' = [buf EXCEPT ![c] = q]
              /\ shown' = [shown EXCEPT ![owner[c]] = shown[owner[c]] \o p]
         /\ UNCHANGED <<pending, hand, owner, open, phase, posted, lost>>
<1>1. owner[c] \in Shells /\ buf[c] \in Seq(Nat) /\ buf[c] # << >> /\ shown[owner[c]] \in Seq(Nat)
  BY DEF ReadBubble, ReadAnswer, TypeOK, Types, Ends
<1>2. UNCHANGED <<pending, hand, owner, open, phase, posted, lost>>
  BY DEF ReadBubble, ReadAnswer, registry, server
<1>3. CASE ReadBubble(c)
  <2>1. Append(shown[owner[c]], Head(buf[c])) = shown[owner[c]] \o <<Head(buf[c])>>
    BY <1>1, HeadTail, AppendOne
  <2>2. <<Head(buf[c])>> \in Seq(Nat) /\ Tail(buf[c]) \in Seq(Nat)
    BY <1>1, HeadTail
  <2>3. /\ buf' = [buf EXCEPT ![c] = Tail(buf[c])]
        /\ shown' = [shown EXCEPT ![owner[c]] = shown[owner[c]] \o <<Head(buf[c])>>]
    BY <1>3, <2>1 DEF ReadBubble
  <2>4. buf[c] = <<Head(buf[c])>> \o Tail(buf[c])
    BY <1>1, HeadTail
  <2> QED BY <1>1, <1>2, <2>2, <2>3, <2>4
<1>4. CASE ReadAnswer(c)
  <2>1. /\ buf' = [buf EXCEPT ![c] = << >>]
        /\ shown' = [shown EXCEPT ![owner[c]] = shown[owner[c]] \o buf[c]]
    BY <1>4 DEF ReadAnswer
  <2>2. << >> \in Seq(Nat) /\ buf[c] = buf[c] \o << >>
    BY <1>1
  <2> QED BY <1>1, <1>2, <2>1, <2>2
<1> QED BY <1>3, <1>4
-----------------------------------------------------------------------------
(***************************************************************************)
(* And that they leave every message in one place.  A step that moves      *)
(* messages of s between a connection c of s and s leaves the others       *)
(* alone, and whatever it puts somewhere was with c or s before, or is     *)
(* new: so the others' messages are still not among them.                  *)
(***************************************************************************)
\* The places of a message of s that c or s have: in the hand, in the socket,
\* waiting, printed, lost.
FiveApart(H, B, Q, S, L) ==
  /\ H \intersect B = {} /\ Q \intersect (S \union L) = {} /\ S \intersect L = {}
  /\ (H \union B) \intersect (Q \union S \union L) = {}

LEMMA FiveOfOne ==
  ASSUME Apart, NEW c \in Conns, owner[c] \in Shells
  PROVE  FiveApart(ToSet(hand[c]), ToSet(buf[c]), ToSet(pending[owner[c]]),
                   ToSet(shown[owner[c]]), lost[owner[c]])
<1>1. /\ ToSet(hand[c]) \intersect ToSet(buf[c]) = {}
      /\ Carried(c) \intersect (ToSet(pending[owner[c]]) \union Past(owner[c])) = {}
      /\ ToSet(pending[owner[c]]) \intersect Past(owner[c]) = {}
      /\ ToSet(shown[owner[c]]) \intersect lost[owner[c]] = {}
  BY DEF Apart, ApartAtEnds, ApartFromShell, ApartAtShell
<1> QED BY <1>1 DEF FiveApart, Carried, Past

LEMMA MovesKeep ==
  ASSUME TypeOK, Apart, Numbered, NEW c \in Conns, NEW s \in Shells, owner[c] = s, owner' = owner,
         posted'[s] \in Nat, posted[s] <= posted'[s],
         \A d \in Conns \ {c} : hand'[d] = hand[d] /\ buf'[d] = buf[d],
         \A t \in Shells \ {s} : /\ pending'[t] = pending[t] /\ shown'[t] = shown[t]
                                 /\ lost'[t] = lost[t] /\ posted'[t] = posted[t],
         FiveApart(ToSet(hand'[c]), ToSet(buf'[c]), ToSet(pending'[s]), ToSet(shown'[s]), lost'[s]),
         \A m \in ToSet(hand'[c]) \union ToSet(buf'[c]) \union ToSet(pending'[s])
                    \union ToSet(shown'[s]) \union lost'[s] :
           \/ m \in Carried(c) \union ToSet(pending[s]) \union Past(s)
           \/ posted[s] < m /\ m <= posted'[s]
  PROVE  Apart' /\ Numbered'
<1> DEFINE Old == Carried(c) \union ToSet(pending[s]) \union Past(s)
           New == Carried(c)' \union ToSet(pending'[s]) \union Past(s)'
<1>1. \A m \in New : m \in Old \/ (posted[s] < m /\ m <= posted'[s])
  BY DEF Carried, Past
<1>2. /\ ToSet(hand'[c]) \intersect ToSet(buf'[c]) = {}
      /\ Carried(c)' \intersect (ToSet(pending'[s]) \union Past(s)') = {}
      /\ ToSet(pending'[s]) \intersect Past(s)' = {}
      /\ ToSet(shown'[s]) \intersect lost'[s] = {}
  BY DEF FiveApart, Carried, Past
<1>3. /\ \A d \in Conns \ {c} : Carried(d)' = Carried(d)
      /\ \A t \in Shells \ {s} : Past(t)' = Past(t) /\ pending'[t] = pending[t]
  BY DEF Carried, Past
<1>4. ASSUME NEW d \in Conns \ {c}, owner[d] = s
      PROVE  Carried(d) \intersect New = {}
  <2>1. Carried(d) \intersect Old = {}
    BY <1>4 DEF Apart, ApartOnWay, ApartFromShell
  <2>2. \A m \in Carried(d) : m <= posted[s] /\ m \in Nat /\ posted[s] \in Nat
    <3>1. ToSet(hand[d]) \subseteq Nat /\ ToSet(buf[d]) \subseteq Nat
      BY ToSetType DEF TypeOK, Types
    <3> QED BY <1>4, <3>1 DEF Numbered, Carried, TypeOK, Types
  <2>3. \A m \in Carried(d) : ~(posted[s] < m)
    BY <2>2
  <2> QED BY <1>1, <2>1, <2>3
<1>5. Apart'
  <2>1. ApartAtEnds'
    <3>1. ASSUME NEW d \in Conns PROVE ToSet(hand'[d]) \intersect ToSet(buf'[d]) = {}
      BY <1>2 DEF Apart, ApartAtEnds
    <3> QED BY <3>1 DEF ApartAtEnds
  <2>2. ApartOnWay'
    <3>1. ASSUME NEW a \in Conns, NEW b \in Conns, a # b, owner[a] = owner[b]
          PROVE  Carried(a)' \intersect Carried(b)' = {}
      <4>1. CASE a # c /\ b # c
        BY <1>3, <3>1, <4>1 DEF Apart, ApartOnWay
      <4>2. CASE a = c
        BY <1>3, <1>4, <3>1, <4>2
      <4>3. CASE b = c
        BY <1>3, <1>4, <3>1, <4>3
      <4> QED BY <4>1, <4>2, <4>3
    <3> QED BY <3>1 DEF ApartOnWay
  <2>3. ApartFromShell'
    <3>1. ASSUME NEW d \in Conns, NEW t \in Shells, owner[d] = t
          PROVE  Carried(d)' \intersect (ToSet(pending'[t]) \union Past(t)') = {}
      <4>1. CASE t # s
        BY <1>3, <3>1, <4>1 DEF Apart, ApartFromShell
      <4>2. CASE t = s /\ d = c
        BY <1>2, <4>2
      <4>3. CASE t = s /\ d # c
        BY <1>3, <1>4, <3>1, <4>3
      <4> QED BY <4>1, <4>2, <4>3
    <3> QED BY <3>1 DEF ApartFromShell
  <2>4. ApartAtShell'
    <3>1. ASSUME NEW t \in Shells
          PROVE  ToSet(pending'[t]) \intersect Past(t)' = {} /\ ToSet(shown'[t]) \intersect lost'[t] = {}
      BY <1>2, <1>3 DEF Apart, ApartAtShell
    <3> QED BY <3>1 DEF ApartAtShell
  <2> QED BY <2>1, <2>2, <2>3, <2>4 DEF Apart
<1>6. Numbered'
  <2>1. \A m \in Old : m \in Nat /\ m <= posted[s] /\ posted[s] \in Nat
    <3>1. /\ ToSet(hand[c]) \subseteq Nat /\ ToSet(buf[c]) \subseteq Nat
          /\ ToSet(pending[s]) \subseteq Nat /\ ToSet(shown[s]) \subseteq Nat /\ lost[s] \subseteq Nat
      BY ToSetType DEF TypeOK, Types
    <3> QED BY <3>1 DEF Numbered, Carried, Past, TypeOK, Types
  <2>2. \A m \in New : m <= posted'[s]
    BY <1>1, <2>1
  <2>3. ASSUME NEW t \in Shells, NEW m \in ToSet(pending'[t]) \union Past(t)' PROVE m <= posted'[t]
    BY <1>3, <2>2, <2>3 DEF Numbered
  <2>4. ASSUME NEW d \in Conns, NEW t \in Shells, owner[d] = t, NEW m \in Carried(d)'
        PROVE  m <= posted'[t]
    <3>1. CASE d = c
      BY <2>2, <2>4, <3>1
    <3>2. CASE d # c
      <4>1. m <= posted[t] /\ m \in Nat
        <5>1. m \in Carried(d) /\ ToSet(hand[d]) \subseteq Nat /\ ToSet(buf[d]) \subseteq Nat
          BY <1>3, <2>4, <3>2, ToSetType DEF TypeOK, Types
        <5> QED BY <2>4, <5>1 DEF Numbered, Carried
      <4>2. posted[t] \in Nat /\ (t = s \/ posted'[t] = posted[t])
        BY DEF TypeOK, Types
      <4> QED BY <4>1, <4>2
    <3> QED BY <3>1, <3>2
  <2> QED BY <2>3, <2>4 DEF Numbered
<1> QED BY <1>5, <1>6

\* When no connection moves any.
LEMMA ShellsKeep ==
  ASSUME TypeOK, Apart, Numbered, UNCHANGED <<hand, buf, owner>>,
         \A s \in Shells :
           /\ posted'[s] \in Nat /\ posted[s] <= posted'[s]
           /\ ToSet(pending'[s]) \intersect Past(s)' = {} /\ ToSet(shown'[s]) \intersect lost'[s] = {}
           /\ \A m \in ToSet(pending'[s]) \union Past(s)' :
                \/ m \in ToSet(pending[s]) \union Past(s)
                \/ posted[s] < m /\ m <= posted'[s]
  PROVE  Apart' /\ Numbered'
<1>1. \A d \in Conns : Carried(d)' = Carried(d)
  BY DEF Carried
<1>2. ASSUME NEW d \in Conns, NEW s \in Shells, owner[d] = s
      PROVE  /\ \A m \in Carried(d) : m <= posted[s] /\ m <= posted'[s] /\ m \in Nat
             /\ Carried(d) \intersect (ToSet(pending'[s]) \union Past(s)') = {}
  <2>1. ToSet(hand[d]) \subseteq Nat /\ ToSet(buf[d]) \subseteq Nat
    BY ToSetType DEF TypeOK, Types
  <2>2. posted[s] \in Nat /\ posted'[s] \in Nat /\ posted[s] <= posted'[s]
    BY DEF TypeOK, Types
  <2>3. \A m \in Carried(d) : m <= posted[s] /\ m \in Nat
    BY <1>2, <2>1 DEF Numbered, Carried
  <2>4. \A m \in Carried(d) : m <= posted'[s] /\ ~(posted[s] < m)
    BY <2>2, <2>3
  <2>5. Carried(d) \intersect (ToSet(pending[s]) \union Past(s)) = {}
    BY <1>2 DEF Apart, ApartFromShell
  <2> QED BY <2>3, <2>4, <2>5
<1>3. ASSUME NEW s \in Shells, NEW m \in ToSet(pending'[s]) \union Past(s)'
      PROVE  m <= posted'[s]
  <2>1. ToSet(pending[s]) \subseteq Nat /\ ToSet(shown[s]) \subseteq Nat /\ lost[s] \subseteq Nat
    BY ToSetType DEF TypeOK, Types
  <2>2. posted[s] \in Nat /\ posted'[s] \in Nat /\ posted[s] <= posted'[s]
    BY DEF TypeOK, Types
  <2>3. m \in ToSet(pending[s]) \union Past(s) => m \in Nat /\ m <= posted[s]
    BY <2>1 DEF Numbered, Past
  <2>4. m \in ToSet(pending[s]) \union Past(s) \/ m <= posted'[s]
    BY <1>3
  <2> QED BY <2>2, <2>3, <2>4
<1>4. Apart'
  <2>1. ApartAtEnds' /\ ApartOnWay'
    BY <1>1 DEF Apart, ApartAtEnds, ApartOnWay
  <2>2. ApartFromShell' /\ ApartAtShell'
    BY <1>1, <1>2 DEF ApartFromShell, ApartAtShell
  <2> QED BY <2>1, <2>2 DEF Apart
<1>5. Numbered'
  BY <1>1, <1>2, <1>3 DEF Numbered
<1> QED BY <1>4, <1>5

LEMMA AttachSendKeeps ==
  ASSUME TypeOK, OnePlace, NEW c \in Conns, AttachSend(c)
  PROVE  OnePlace'
<1> DEFINE s == owner[c]
           m == Head(pending[s])
<1>1. /\ s \in Shells /\ pending[s] \in Seq(Nat) /\ pending[s] # << >>
      /\ pending' = [pending EXCEPT ![s] = Tail(pending[s])]
      /\ buf' = [buf EXCEPT ![c] = Append(buf[c], m)]
      /\ UNCHANGED <<hand, owner, open, phase, posted, shown, lost>>
  BY AttachSendDoes
<1>2. FiveApart(ToSet(hand[c]), ToSet(buf[c]), ToSet(pending[s]), ToSet(shown[s]), lost[s])
  BY <1>1, FiveOfOne DEF OnePlace
<1>3. /\ ToSet(pending[s]) = {m} \union ToSet(Tail(pending[s]))
      /\ m \notin ToSet(Tail(pending[s])) /\ IsInjective(Tail(pending[s]))
      /\ m \in Nat /\ buf[c] \in Seq(Nat)
  BY <1>1, ToSetTail, HeadTail DEF OnePlace, Once, TypeOK, Types
<1>4. m \notin ToSet(buf[c])
  BY <1>2, <1>3 DEF FiveApart
<1>5. /\ ToSet(Append(buf[c], m)) = ToSet(buf[c]) \union {m}
      /\ IsInjective(Append(buf[c], m))
  BY <1>3, <1>4, ToSetAppend DEF OnePlace, Once
<1>6. /\ pending'[s] = Tail(pending[s]) /\ \A t \in Shells \ {s} : pending'[t] = pending[t]
      /\ buf'[c] = Append(buf[c], m) /\ \A d \in Conns \ {c} : buf'[d] = buf[d]
  BY <1>1 DEF TypeOK, Types
<1>7. Holders' /\ Once'
  BY <1>1, <1>3, <1>5, <1>6 DEF OnePlace, Holders, Once, AttachSend
<1>8. FiveApart(ToSet(hand'[c]), ToSet(buf'[c]), ToSet(pending'[s]), ToSet(shown'[s]), lost'[s])
  BY <1>1, <1>2, <1>3, <1>5, <1>6 DEF FiveApart
<1>9. \A n \in ToSet(hand'[c]) \union ToSet(buf'[c]) \union ToSet(pending'[s])
                    \union ToSet(shown'[s]) \union lost'[s] :
           n \in Carried(c) \union ToSet(pending[s]) \union Past(s)
  BY <1>1, <1>3, <1>5, <1>6 DEF Carried, Past
<1>10. posted'[s] \in Nat /\ posted[s] <= posted'[s]
  BY <1>1 DEF TypeOK, Types
<1>11. Apart' /\ Numbered'
  BY <1>1, <1>6, <1>8, <1>9, <1>10, MovesKeep DEF OnePlace
<1> QED BY <1>7, <1>11 DEF OnePlace

LEMMA DrainKeeps ==
  ASSUME TypeOK, OnePlace, NEW c \in Conns, DrainForPoll(c) \/ DrainForDecision(c)
  PROVE  OnePlace'
<1> DEFINE s == owner[c]
<1>1. /\ s \in Shells /\ pending[s] \in Seq(Nat)
      /\ hand[c] = << >>
      /\ pending' = [pending EXCEPT ![s] = << >>]
      /\ hand' = [hand EXCEPT ![c] = pending[s]]
      /\ phase'[c] \in {"answering", "deciding"}
      /\ \A d \in Conns \ {c} : phase'[d] = phase[d]
      /\ UNCHANGED <<buf, owner, open, posted, shown, lost>>
  BY DrainDoes
<1>2. FiveApart(ToSet(hand[c]), ToSet(buf[c]), ToSet(pending[s]), ToSet(shown[s]), lost[s])
  BY <1>1, FiveOfOne DEF OnePlace
<1>3. /\ pending'[s] = << >> /\ \A t \in Shells \ {s} : pending'[t] = pending[t]
      /\ hand'[c] = pending[s] /\ \A d \in Conns \ {c} : hand'[d] = hand[d]
  BY <1>1 DEF TypeOK, Types
<1>4. ToSet(pending'[s]) = {} /\ ToSet(hand[c]) = {} /\ IsInjective(<< >>)
  BY <1>1, <1>3, ToSetEmpty DEF IsInjective
<1>5. Holders' /\ Once'
  BY <1>1, <1>3, <1>4 DEF OnePlace, Holders, Once
<1>6. FiveApart(ToSet(hand'[c]), ToSet(buf'[c]), ToSet(pending'[s]), ToSet(shown'[s]), lost'[s])
  BY <1>1, <1>2, <1>3, <1>4 DEF FiveApart
<1>7. \A n \in ToSet(hand'[c]) \union ToSet(buf'[c]) \union ToSet(pending'[s])
                    \union ToSet(shown'[s]) \union lost'[s] :
           n \in Carried(c) \union ToSet(pending[s]) \union Past(s)
  BY <1>1, <1>3, <1>4 DEF Carried, Past
<1>8. posted'[s] \in Nat /\ posted[s] <= posted'[s]
  BY <1>1 DEF TypeOK, Types
<1>9. Apart' /\ Numbered'
  BY <1>1, <1>3, <1>6, <1>7, <1>8, MovesKeep DEF OnePlace
<1> QED BY <1>5, <1>9 DEF OnePlace

LEMMA SendKeeps ==
  ASSUME TypeOK, OnePlace, NEW c \in Conns, SendBubble(c) \/ SendDecision(c)
  PROVE  OnePlace'
<1> DEFINE s == owner[c]
<1>1. /\ s \in Shells
      /\ \A d \in Conns \ {c} : phase'[d] = phase[d]
      /\ UNCHANGED <<pending, owner, open, posted, shown>>
  BY SendDoes
<1>2. PICK p \in Seq(Nat), q \in Seq(Nat) :
         /\ hand[c] = p \o q
         /\ hand' = [hand EXCEPT ![c] = q]
         /\ \/ /\ open[c] /\ lost' = lost
               /\ buf' = [buf EXCEPT ![c] = buf[c] \o p]
            \/ /\ buf' = buf
               /\ lost' = [lost EXCEPT ![s] = lost[s] \union ToSet(p)]
         /\ q = << >> \/ phase' = phase
  BY SendDoes
<1>3. FiveApart(ToSet(hand[c]), ToSet(buf[c]), ToSet(pending[s]), ToSet(shown[s]), lost[s])
  BY <1>1, FiveOfOne DEF OnePlace
<1>4. /\ ToSet(hand[c]) = ToSet(p) \union ToSet(q)
      /\ IsInjective(p) /\ IsInjective(q) /\ ToSet(p) \intersect ToSet(q) = {}
  <2>1. IsInjective(p \o q)
    BY <1>2 DEF OnePlace, Once
  <2> QED BY <1>2, <2>1, ToSetConcat, Zenon
<1>5. hand'[c] = q /\ \A d \in Conns \ {c} : hand'[d] = hand[d]
  BY <1>2 DEF TypeOK, Types
<1>6. posted'[s] \in Nat /\ posted[s] <= posted'[s]
  BY <1>1 DEF TypeOK, Types
<1>7. CASE open[c] /\ lost' = lost /\ buf' = [buf EXCEPT ![c] = buf[c] \o p]
  <2>1. buf'[c] = buf[c] \o p /\ \A d \in Conns \ {c} : buf'[d] = buf[d]
    BY <1>7 DEF TypeOK, Types
  <2>2. buf[c] \in Seq(Nat) /\ IsInjective(buf[c]) /\ ToSet(buf[c]) \intersect ToSet(p) = {}
    BY <1>3, <1>4 DEF FiveApart, OnePlace, Once, TypeOK, Types
  <2>3. ToSet(buf[c] \o p) = ToSet(buf[c]) \union ToSet(p) /\ IsInjective(buf[c] \o p)
    BY <1>4, <2>2, ToSetConcat, Zenon
  <2>4. Holders'
    BY <1>1, <1>2, <1>5, <1>7, <2>1 DEF OnePlace, Holders
  <2>5. Once'
    BY <1>1, <1>4, <1>5, <2>1, <2>3 DEF OnePlace, Once
  <2>6. FiveApart(ToSet(hand'[c]), ToSet(buf'[c]), ToSet(pending'[s]), ToSet(shown'[s]), lost'[s])
    BY <1>1, <1>3, <1>4, <1>5, <1>7, <2>1, <2>3 DEF FiveApart
  <2>7. \A n \in ToSet(hand'[c]) \union ToSet(buf'[c]) \union ToSet(pending'[s])
                      \union ToSet(shown'[s]) \union lost'[s] :
             n \in Carried(c) \union ToSet(pending[s]) \union Past(s)
    BY <1>1, <1>4, <1>5, <1>7, <2>1, <2>3 DEF Carried, Past
  <2>8. Apart' /\ Numbered'
    BY <1>1, <1>5, <1>6, <1>7, <2>1, <2>6, <2>7, MovesKeep DEF OnePlace
  <2> QED BY <2>4, <2>5, <2>8 DEF OnePlace
<1>8. CASE buf' = buf /\ lost' = [lost EXCEPT ![s] = lost[s] \union ToSet(p)]
  <2>1. lost'[s] = lost[s] \union ToSet(p) /\ \A t \in Shells \ {s} : lost'[t] = lost[t]
    BY <1>1, <1>8 DEF TypeOK, Types
  <2>2. Holders'
    BY <1>1, <1>2, <1>5, <1>8 DEF OnePlace, Holders
  <2>3. Once'
    BY <1>1, <1>4, <1>5, <1>8 DEF OnePlace, Once
  <2>4. FiveApart(ToSet(hand'[c]), ToSet(buf'[c]), ToSet(pending'[s]), ToSet(shown'[s]), lost'[s])
    BY <1>1, <1>3, <1>4, <1>5, <1>8, <2>1 DEF FiveApart
  <2>5. \A n \in ToSet(hand'[c]) \union ToSet(buf'[c]) \union ToSet(pending'[s])
                      \union ToSet(shown'[s]) \union lost'[s] :
             n \in Carried(c) \union ToSet(pending[s]) \union Past(s)
    BY <1>1, <1>4, <1>5, <1>8, <2>1 DEF Carried, Past
  <2>6. Apart' /\ Numbered'
    BY <1>1, <1>5, <1>6, <1>8, <2>1, <2>4, <2>5, MovesKeep DEF OnePlace
  <2> QED BY <2>2, <2>3, <2>6 DEF OnePlace
<1> QED BY <1>2, <1>7, <1>8

LEMMA ReadKeeps ==
  ASSUME TypeOK, OnePlace, NEW c \in Conns, ReadBubble(c) \/ ReadAnswer(c)
  PROVE  OnePlace'
<1> DEFINE s == owner[c]
<1>1. /\ s \in Shells
      /\ UNCHANGED <<pending, hand, owner, open, phase, posted, lost>>
  BY ReadDoes
<1>2. PICK p \in Seq(Nat), q \in Seq(Nat) :
         /\ buf[c] = p \o q
         /\ buf' = [buf EXCEPT ![c] = q]
         /\ shown' = [shown EXCEPT ![s] = shown[s] \o p]
  BY ReadDoes
<1>3. FiveApart(ToSet(hand[c]), ToSet(buf[c]), ToSet(pending[s]), ToSet(shown[s]), lost[s])
  BY <1>1, FiveOfOne DEF OnePlace
<1>4. /\ ToSet(buf[c]) = ToSet(p) \union ToSet(q)
      /\ IsInjective(p) /\ IsInjective(q) /\ ToSet(p) \intersect ToSet(q) = {}
  <2>1. IsInjective(p \o q)
    BY <1>2 DEF OnePlace, Once
  <2> QED BY <1>2, <2>1, ToSetConcat, Zenon
<1>5. /\ buf'[c] = q /\ \A d \in Conns \ {c} : buf'[d] = buf[d]
      /\ shown'[s] = shown[s] \o p /\ \A t \in Shells \ {s} : shown'[t] = shown[t]
  BY <1>1, <1>2 DEF TypeOK, Types
<1>6. shown[s] \in Seq(Nat) /\ IsInjective(shown[s]) /\ ToSet(shown[s]) \intersect ToSet(p) = {}
  BY <1>1, <1>3, <1>4 DEF FiveApart, OnePlace, Once, TypeOK, Types
<1>7. ToSet(shown[s] \o p) = ToSet(shown[s]) \union ToSet(p) /\ IsInjective(shown[s] \o p)
  BY <1>4, <1>6, ToSetConcat, Zenon
<1>8. Holders'
  <2>1. open[c]
    BY DEF ReadBubble, ReadAnswer
  <2> QED BY <1>1, <1>5, <2>1 DEF OnePlace, Holders
<1>9. Once'
  BY <1>1, <1>4, <1>5, <1>7 DEF OnePlace, Once
<1>10. FiveApart(ToSet(hand'[c]), ToSet(buf'[c]), ToSet(pending'[s]), ToSet(shown'[s]), lost'[s])
  BY <1>1, <1>3, <1>4, <1>5, <1>7 DEF FiveApart
<1>11. \A n \in ToSet(hand'[c]) \union ToSet(buf'[c]) \union ToSet(pending'[s])
                    \union ToSet(shown'[s]) \union lost'[s] :
           n \in Carried(c) \union ToSet(pending[s]) \union Past(s)
  BY <1>1, <1>4, <1>5, <1>7 DEF Carried, Past
<1>12. posted'[s] \in Nat /\ posted[s] <= posted'[s]
  BY <1>1 DEF TypeOK, Types
<1>13. Apart' /\ Numbered'
  BY <1>1, <1>5, <1>10, <1>11, <1>12, MovesKeep DEF OnePlace
<1> QED BY <1>8, <1>9, <1>13 DEF OnePlace

LEMMA HangUpKeeps ==
  ASSUME TypeOK, OnePlace, NEW c \in Conns, HangUp(c)
  PROVE  OnePlace'
<1> DEFINE s == owner[c]
<1>1. /\ s \in Shells /\ open[c]
      /\ open' = [open EXCEPT ![c] = FALSE]
      /\ buf' = [buf EXCEPT ![c] = << >>]
      /\ lost' = [lost EXCEPT ![s] = lost[s] \union ToSet(buf[c])]
      /\ UNCHANGED <<pending, hand, owner, phase, posted, shown>>
  BY DEF HangUp, Loses, registry, server, TypeOK, Types, Ends
<1>2. FiveApart(ToSet(hand[c]), ToSet(buf[c]), ToSet(pending[s]), ToSet(shown[s]), lost[s])
  BY <1>1, FiveOfOne DEF OnePlace
<1>3. /\ buf'[c] = << >> /\ \A d \in Conns \ {c} : buf'[d] = buf[d] /\ open'[d] = open[d]
      /\ lost'[s] = lost[s] \union ToSet(buf[c]) /\ \A t \in Shells \ {s} : lost'[t] = lost[t]
      /\ ToSet(buf'[c]) = {} /\ IsInjective(<< >>)
  BY <1>1, ToSetEmpty DEF TypeOK, Types, IsInjective
<1>4. Holders' /\ Once'
  BY <1>1, <1>3 DEF OnePlace, Holders, Once
<1>5. FiveApart(ToSet(hand'[c]), ToSet(buf'[c]), ToSet(pending'[s]), ToSet(shown'[s]), lost'[s])
  BY <1>1, <1>2, <1>3 DEF FiveApart
<1>6. \A n \in ToSet(hand'[c]) \union ToSet(buf'[c]) \union ToSet(pending'[s])
                    \union ToSet(shown'[s]) \union lost'[s] :
           n \in Carried(c) \union ToSet(pending[s]) \union Past(s)
  BY <1>1, <1>3 DEF Carried, Past
<1>7. posted'[s] \in Nat /\ posted[s] <= posted'[s]
  BY <1>1 DEF TypeOK, Types
<1>8. Apart' /\ Numbered'
  BY <1>1, <1>3, <1>5, <1>6, <1>7, MovesKeep DEF OnePlace
<1> QED BY <1>4, <1>8 DEF OnePlace

LEMMA NewIsNowhere ==
  ASSUME TypeOK, OnePlace, NEW s \in Shells
  PROVE  /\ posted[s] + 1 \in Nat /\ posted[s] < posted[s] + 1
         /\ posted[s] + 1 \notin ToSet(pending[s]) \union Past(s)
         /\ \A c \in Conns : owner[c] = s => posted[s] + 1 \notin Carried(c)
<1>1. posted[s] \in Nat
  BY DEF TypeOK, Types
<1>2. ~(posted[s] + 1 <= posted[s]) /\ posted[s] + 1 \in Nat /\ posted[s] < posted[s] + 1
  BY <1>1
<1> QED BY <1>2 DEF OnePlace, Numbered

LEMMA DeliverLiveKeeps ==
  ASSUME TypeOK, OnePlace, NEW s \in Shells, DeliverLive(s)
  PROVE  OnePlace'
<1> DEFINE c == subscriber[s]
           m == posted[s] + 1
<1>1. c \in Conns /\ owner[c] = s /\ open[c]
  BY DEF DeliverLive, Reached, TypeOK, Types, Ends
<1>2. /\ buf' = [buf EXCEPT ![c] = Append(buf[c], m)]
      /\ posted' = [posted EXCEPT ![s] = m]
      /\ UNCHANGED <<pending, hand, owner, open, phase, shown, lost>>
  BY DEF DeliverLive, Post, registry
<1>3. FiveApart(ToSet(hand[c]), ToSet(buf[c]), ToSet(pending[s]), ToSet(shown[s]), lost[s])
  BY <1>1, FiveOfOne DEF OnePlace
<1>4. /\ m \in Nat /\ posted[s] < m /\ posted[s] <= m /\ m <= m
      /\ m \notin ToSet(pending[s]) \union Past(s) /\ m \notin Carried(c)
  BY <1>1, NewIsNowhere DEF TypeOK, Types
<1>5. buf[c] \in Seq(Nat) /\ IsInjective(buf[c]) /\ m \notin ToSet(buf[c])
  BY <1>1, <1>4 DEF OnePlace, Once, TypeOK, Types, Carried
<1>6. ToSet(Append(buf[c], m)) = ToSet(buf[c]) \union {m} /\ IsInjective(Append(buf[c], m))
  BY <1>4, <1>5, ToSetAppend
<1>7. /\ buf'[c] = Append(buf[c], m) /\ \A d \in Conns \ {c} : buf'[d] = buf[d]
      /\ posted'[s] = m /\ \A t \in Shells \ {s} : posted'[t] = posted[t]
  BY <1>1, <1>2 DEF TypeOK, Types
<1>8. Holders' /\ Once'
  BY <1>1, <1>2, <1>6, <1>7 DEF OnePlace, Holders, Once
<1>9. FiveApart(ToSet(hand'[c]), ToSet(buf'[c]), ToSet(pending'[s]), ToSet(shown'[s]), lost'[s])
  BY <1>2, <1>3, <1>4, <1>6, <1>7 DEF FiveApart, Carried, Past
<1>10. \A n \in ToSet(hand'[c]) \union ToSet(buf'[c]) \union ToSet(pending'[s])
                    \union ToSet(shown'[s]) \union lost'[s] :
           \/ n \in Carried(c) \union ToSet(pending[s]) \union Past(s)
           \/ posted[s] < n /\ n <= posted'[s]
  BY <1>2, <1>4, <1>6, <1>7 DEF Carried, Past
<1>11. Apart' /\ Numbered'
  BY <1>1, <1>2, <1>4, <1>7, <1>9, <1>10, MovesKeep DEF OnePlace
<1> QED BY <1>8, <1>11 DEF OnePlace

LEMMA DeliverSilentKeeps ==
  ASSUME TypeOK, OnePlace, NEW s \in Shells, DeliverSilent(s)
  PROVE  OnePlace'
<1> DEFINE m == posted[s] + 1
<1>1. /\ lost' = [lost EXCEPT ![s] = lost[s] \union {m}]
      /\ posted' = [posted EXCEPT ![s] = m]
      /\ UNCHANGED <<pending, hand, buf, owner, open, phase, shown>>
  BY DEF DeliverSilent, Post, Loses, registry
<1>2. /\ m \in Nat /\ posted[s] < m /\ posted[s] <= m /\ m <= m
      /\ m \notin ToSet(pending[s]) \union Past(s)
  BY NewIsNowhere DEF TypeOK, Types
<1>3. /\ lost'[s] = lost[s] \union {m} /\ \A t \in Shells \ {s} : lost'[t] = lost[t]
      /\ posted'[s] = m /\ \A t \in Shells \ {s} : posted'[t] = posted[t]
  BY <1>1 DEF TypeOK, Types
<1>4. Holders' /\ Once'
  BY <1>1 DEF OnePlace, Holders, Once
<1>5. ASSUME NEW t \in Shells
      PROVE  /\ posted'[t] \in Nat /\ posted[t] <= posted'[t]
             /\ ToSet(pending'[t]) \intersect Past(t)' = {} /\ ToSet(shown'[t]) \intersect lost'[t] = {}
             /\ \A n \in ToSet(pending'[t]) \union Past(t)' :
                  \/ n \in ToSet(pending[t]) \union Past(t)
                  \/ posted[t] < n /\ n <= posted'[t]
  <2>1. /\ ToSet(pending[t]) \intersect Past(t) = {} /\ ToSet(shown[t]) \intersect lost[t] = {}
        /\ posted[t] \in Nat /\ posted[t] <= posted[t]
    BY DEF OnePlace, Apart, ApartAtShell, TypeOK, Types
  <2>2. CASE t = s
    BY <1>1, <1>2, <1>3, <2>1, <2>2 DEF Past
  <2>3. CASE t # s
    BY <1>1, <1>3, <2>1, <2>3 DEF Past
  <2> QED BY <2>2, <2>3
<1>6. Apart' /\ Numbered'
  BY <1>1, <1>5, ShellsKeep DEF OnePlace
<1> QED BY <1>4, <1>6 DEF OnePlace

LEMMA DeliverLaterKeeps ==
  ASSUME TypeOK, OnePlace, NEW s \in Shells, DeliverLater(s)
  PROVE  OnePlace'
<1> DEFINE m == posted[s] + 1
<1>1. /\ pending' = [pending EXCEPT ![s] = Append(pending[s], m)]
      /\ posted' = [posted EXCEPT ![s] = m]
      /\ UNCHANGED <<hand, buf, owner, open, shown, lost>>
  BY DEF DeliverLater, Post
<1>2. /\ m \in Nat /\ posted[s] < m /\ posted[s] <= m /\ m <= m
      /\ m \notin ToSet(pending[s]) /\ m \notin Past(s)
  BY NewIsNowhere DEF TypeOK, Types
<1>3. ToSet(Append(pending[s], m)) = ToSet(pending[s]) \union {m} /\ IsInjective(Append(pending[s], m))
  BY <1>2, ToSetAppend DEF OnePlace, Once, TypeOK, Types
<1>4. /\ pending'[s] = Append(pending[s], m) /\ \A t \in Shells \ {s} : pending'[t] = pending[t]
      /\ posted'[s] = m /\ \A t \in Shells \ {s} : posted'[t] = posted[t]
  BY <1>1 DEF TypeOK, Types
<1>5. Holders'
  BY DEF DeliverLater, LetGo, Post, OnePlace, Holders, TypeOK, Types, Ends
<1>6. Once'
  BY <1>1, <1>3, <1>4 DEF OnePlace, Once
<1>7. ASSUME NEW t \in Shells
      PROVE  /\ posted'[t] \in Nat /\ posted[t] <= posted'[t]
             /\ ToSet(pending'[t]) \intersect Past(t)' = {} /\ ToSet(shown'[t]) \intersect lost'[t] = {}
             /\ \A n \in ToSet(pending'[t]) \union Past(t)' :
                  \/ n \in ToSet(pending[t]) \union Past(t)
                  \/ posted[t] < n /\ n <= posted'[t]
  <2>1. /\ ToSet(pending[t]) \intersect Past(t) = {} /\ ToSet(shown[t]) \intersect lost[t] = {}
        /\ posted[t] \in Nat /\ posted[t] <= posted[t] /\ Past(t)' = Past(t)
    BY <1>1 DEF OnePlace, Apart, ApartAtShell, TypeOK, Types, Past
  <2>2. CASE t = s
    BY <1>1, <1>2, <1>3, <1>4, <2>1, <2>2
  <2>3. CASE t # s
    BY <1>1, <1>4, <2>1, <2>3
  <2> QED BY <2>2, <2>3
<1>8. Apart' /\ Numbered'
  BY <1>1, <1>7, ShellsKeep DEF OnePlace
<1> QED BY <1>5, <1>6, <1>8 DEF OnePlace

LEMMA ForgetGoneKeeps ==
  ASSUME TypeOK, OnePlace, ForgetGone
  PROVE  OnePlace'
<1>1. /\ pending' = [t \in Shells |-> IF Gone(t) THEN << >> ELSE pending[t]]
      /\ lost' = [t \in Shells |-> IF Gone(t) THEN lost[t] \union ToSet(pending[t]) ELSE lost[t]]
      /\ UNCHANGED <<hand, buf, owner, open, phase, posted, shown>>
  BY DEF ForgetGone, server, client
<1>2. ToSet(<< >>) = {} /\ IsInjective(<< >>)
  BY ToSetEmpty DEF IsInjective
<1>3. Holders' /\ Once'
  BY <1>1, <1>2 DEF OnePlace, Holders, Once
<1>4. ASSUME NEW t \in Shells
      PROVE  /\ posted'[t] \in Nat /\ posted[t] <= posted'[t]
             /\ ToSet(pending'[t]) \intersect Past(t)' = {} /\ ToSet(shown'[t]) \intersect lost'[t] = {}
             /\ \A n \in ToSet(pending'[t]) \union Past(t)' :
                  \/ n \in ToSet(pending[t]) \union Past(t)
                  \/ posted[t] < n /\ n <= posted'[t]
  <2>1. /\ ToSet(pending[t]) \intersect Past(t) = {} /\ ToSet(shown[t]) \intersect lost[t] = {}
        /\ posted[t] \in Nat /\ posted[t] <= posted[t]
    BY DEF OnePlace, Apart, ApartAtShell, TypeOK, Types
  <2>2. CASE Gone(t)
    <3>1. pending'[t] = << >> /\ lost'[t] = lost[t] \union ToSet(pending[t]) /\ shown'[t] = shown[t]
      BY <1>1, <2>2
    <3> QED BY <1>1, <1>2, <2>1, <3>1 DEF Past
  <2>3. CASE ~Gone(t)
    <3>1. pending'[t] = pending[t] /\ lost'[t] = lost[t] /\ shown'[t] = shown[t]
      BY <1>1, <2>3
    <3> QED BY <1>1, <2>1, <3>1 DEF Past
  <2> QED BY <2>2, <2>3
<1>5. Apart' /\ Numbered'
  BY <1>1, <1>4, ShellsKeep DEF OnePlace
<1> QED BY <1>3, <1>5 DEF OnePlace

LEMMA QuitKeeps ==
  ASSUME TypeOK, OnePlace, Quit
  PROVE  OnePlace'
<1>1. /\ pending' = [s \in Shells |-> << >>]
      /\ hand' = [c \in Conns |-> << >>]
      /\ lost' = [s \in Shells |-> lost[s] \union ToSet(pending[s]) \union HeldFor(s)]
      /\ UNCHANGED <<buf, owner, open, posted, shown>>
  BY DEF Quit, client
<1>2. ToSet(<< >>) = {} /\ IsInjective(<< >>)
  BY ToSetEmpty DEF IsInjective
<1>3. Holders' /\ Once'
  BY <1>1, <1>2 DEF OnePlace, Holders, Once
<1>4. /\ \A d \in Conns : Carried(d)' = ToSet(buf[d]) /\ ToSet(buf[d]) \subseteq Carried(d)
      /\ \A t \in Shells : Past(t)' = Past(t) \union ToSet(pending[t]) \union HeldFor(t)
      /\ \A t \in Shells : ToSet(pending'[t]) = {}
  BY <1>1, <1>2 DEF Carried, Past
<1>5. ASSUME NEW t \in Shells, NEW m \in HeldFor(t)
      PROVE  \E e \in Conns : owner[e] = t /\ m \in ToSet(hand[e]) /\ m \in Carried(e)
  BY <1>5 DEF HeldFor, Carried
<1>6. ASSUME NEW d \in Conns, NEW t \in Shells, owner[d] = t
      PROVE  ToSet(buf[d]) \intersect HeldFor(t) = {}
  <2>1. SUFFICES ASSUME NEW m \in HeldFor(t), m \in ToSet(buf[d]) PROVE FALSE
    OBVIOUS
  <2>2. PICK e \in Conns : owner[e] = t /\ m \in ToSet(hand[e]) /\ m \in Carried(e)
    BY <1>5, <2>1
  <2>3. CASE e = d
    BY <2>1, <2>2, <2>3 DEF OnePlace, Apart, ApartAtEnds
  <2>4. CASE e # d
    BY <1>4, <1>6, <2>1, <2>2, <2>4 DEF OnePlace, Apart, ApartOnWay
  <2> QED BY <2>3, <2>4
<1>7. ASSUME NEW t \in Shells
      PROVE  HeldFor(t) \intersect ToSet(shown[t]) = {}
  BY <1>5 DEF OnePlace, Apart, ApartFromShell, Past
<1>8. Apart'
  <2>1. ApartAtEnds'
    BY <1>1, <1>2 DEF ApartAtEnds
  <2>2. ApartOnWay'
    BY <1>1, <1>4 DEF OnePlace, Apart, ApartOnWay
  <2>3. ApartFromShell'
    <3>1. ASSUME NEW d \in Conns, NEW t \in Shells, owner[d] = t
          PROVE  Carried(d)' \intersect (ToSet(pending'[t]) \union Past(t)') = {}
      <4>1. Carried(d) \intersect (ToSet(pending[t]) \union Past(t)) = {}
        BY <3>1 DEF OnePlace, Apart, ApartFromShell
      <4> QED BY <1>4, <1>6, <3>1, <4>1
    <3> QED BY <1>1, <3>1 DEF ApartFromShell
  <2>4. ApartAtShell'
    <3>1. ASSUME NEW t \in Shells
          PROVE  ToSet(pending'[t]) \intersect Past(t)' = {} /\ ToSet(shown'[t]) \intersect lost'[t] = {}
      <4>1. ToSet(pending[t]) \intersect ToSet(shown[t]) = {} /\ ToSet(shown[t]) \intersect lost[t] = {}
        BY DEF OnePlace, Apart, ApartAtShell, Past
      <4> QED BY <1>1, <1>4, <1>7, <4>1
    <3> QED BY <3>1 DEF ApartAtShell
  <2> QED BY <2>1, <2>2, <2>3, <2>4 DEF Apart
<1>9. Numbered'
  <2>1. ASSUME NEW t \in Shells, NEW m \in ToSet(pending'[t]) \union Past(t)' PROVE m <= posted[t]
    BY <1>4, <1>5, <2>1 DEF OnePlace, Numbered
  <2>2. ASSUME NEW d \in Conns, NEW t \in Shells, owner[d] = t, NEW m \in Carried(d)' PROVE m <= posted[t]
    BY <1>4, <2>2 DEF OnePlace, Numbered
  <2> QED BY <1>1, <2>1, <2>2 DEF Numbered
<1> QED BY <1>3, <1>8, <1>9 DEF OnePlace

LEMMA OnePlaceStep ==
  ASSUME TypeOK, OnePlace, [Next]_vars
  PROVE  OnePlace'
<1>1. ASSUME \/ \E c \in Conns : \/ Ack(c) \/ BeginAttach(c) \/ AttachDone(c) \/ AttachFail(c)
                                 \/ SendDone(c) \/ RegisterSignal(c) \/ TriageFails(c)
             \/ \E s \in Shells : ShellExits(s)
             \/ Ping \/ SetSilent \/ UNCHANGED vars
      PROVE  OnePlace'
  BY <1>1, QuietHolders, QuietPlaced, StillPlaced DEF OnePlace
<1>2. ASSUME NEW c \in Conns, Thread(c)
      PROVE  OnePlace'
  BY <1>1, <1>2, AttachSendKeeps, DrainKeeps, SendKeeps DEF Thread
<1>3. ASSUME NEW c \in Conns, Client(c)
      PROVE  OnePlace'
  <2>1. ASSUME NEW s \in Shells, Ask(c, s) \/ AnswerPoke(c, s)
        PROVE  \E request \in Request : Connect(c, s, request)
    BY <2>1 DEF Ask, AnswerPoke
  <2> QED BY <1>3, <2>1, ReadKeeps, HangUpKeeps, ConnectKeeps DEF Client
<1>4. ASSUME NEW s \in Shells, Deliver(s)
      PROVE  OnePlace'
  BY <1>4, DeliverSilentKeeps, DeliverLiveKeeps, DeliverLaterKeeps DEF Deliver
<1>5. CASE Daemon
  BY <1>1, <1>5, ForgetGoneKeeps, QuitKeeps DEF Daemon
<1> QED BY <1>1, <1>2, <1>3, <1>4, <1>5 DEF Next

(***************************************************************************)
(* No message is printed twice, and none is printed that was given up.     *)
(***************************************************************************)
NeverTwice ==
  \A s \in Shells : IsInjective(shown[s]) /\ ToSet(shown[s]) \intersect lost[s] = {}

LEMMA OnePlaceAlways == Spec => []OnePlace
<1>1. OnePlace /\ TypeOK /\ [Next]_vars => OnePlace'
  BY OnePlaceStep
<1>2. QED
  BY <1>1, OnePlaceInit, TypeCorrect, PTL DEF Spec

(***************************************************************************)
(* Whatever subscribes, polls, hangs up, fails or restarts, a shell prints *)
(* a message at most once: drain, attach and deliver in sessions.rs hand   *)
(* each message to one thread, and what a thread could not write comes     *)
(* back only where nobody has seen it.                                     *)
(***************************************************************************)
THEOREM PrintedOnce == Spec => []NeverTwice
<1>1. OnePlace => NeverTwice
  BY DEF OnePlace, Once, Apart, ApartAtShell, NeverTwice
<1>2. QED
  BY <1>1, OnePlaceAlways, PTL
-----------------------------------------------------------------------------
(***************************************************************************)
(* The refinement: under the mapping of Promise every step of the registry *)
(* is a step of Post, or changes nothing Post speaks of.                   *)
(***************************************************************************)
LEMMA InFlightIs ==
  ASSUME NEW s
  PROVE  /\ InFlight(s) = UNION {Carried(c) : c \in ConnsOf(s)}
         /\ InFlight(s)' = UNION {Carried(c)' : c \in ConnsOf(s)'}
BY DEF InFlight, HeldFor, ConnsOf, Carried

\* One connection gains messages, or lets go of some of its own.
LEMMA Gains ==
  ASSUME NEW c \in Conns, NEW s \in Shells, owner[c] = s, owner' = owner, NEW M,
         \A d \in Conns \ {c} : Carried(d)' = Carried(d),
         Carried(c)' = Carried(c) \union M
  PROVE  /\ InFlight(s)' = InFlight(s) \union M
         /\ \A t \in Shells \ {s} : InFlight(t)' = InFlight(t)
<1>1. \A t \in Shells : ConnsOf(t)' = ConnsOf(t)
  BY DEF ConnsOf
<1>2. c \in ConnsOf(s) /\ \A t \in Shells \ {s} : c \notin ConnsOf(t)
  BY DEF ConnsOf
<1>3. \A t \in Shells : ConnsOf(t) \subseteq Conns
  BY DEF ConnsOf
<1>4. InFlight(s)' = InFlight(s) \union M
  BY <1>1, <1>2, <1>3, InFlightIs
<1>5. ASSUME NEW t \in Shells \ {s} PROVE InFlight(t)' = InFlight(t)
  <2>1. \A d \in ConnsOf(t) : Carried(d)' = Carried(d)
    BY <1>2, <1>3
  <2>2. UNION {Carried(d)' : d \in ConnsOf(t)'} = UNION {Carried(d) : d \in ConnsOf(t)}
    BY <1>1, <2>1
  <2> QED BY <2>2, InFlightIs
<1> QED BY <1>4, <1>5

LEMMA LetsGo ==
  ASSUME OnePlace, NEW c \in Conns, NEW s \in Shells, owner[c] = s, owner' = owner, NEW M,
         M \subseteq Carried(c),
         \A d \in Conns \ {c} : Carried(d)' = Carried(d),
         Carried(c)' = Carried(c) \ M
  PROVE  /\ M \subseteq InFlight(s)
         /\ InFlight(s)' = InFlight(s) \ M
         /\ \A t \in Shells \ {s} : InFlight(t)' = InFlight(t)
<1>1. \A t \in Shells : ConnsOf(t)' = ConnsOf(t)
  BY DEF ConnsOf
<1>2. c \in ConnsOf(s) /\ \A t \in Shells \ {s} : c \notin ConnsOf(t)
  BY DEF ConnsOf
<1>3. \A t \in Shells : ConnsOf(t) \subseteq Conns
  BY DEF ConnsOf
<1>4. \A d \in ConnsOf(s) \ {c} : Carried(d) \intersect M = {}
  BY DEF OnePlace, Apart, ApartOnWay, ConnsOf
<1>5. M \subseteq InFlight(s)
  BY <1>2, InFlightIs
<1>6. InFlight(s)' = InFlight(s) \ M
  BY <1>1, <1>2, <1>3, <1>4, InFlightIs
<1>7. ASSUME NEW t \in Shells \ {s} PROVE InFlight(t)' = InFlight(t)
  <2>1. \A d \in ConnsOf(t) : Carried(d)' = Carried(d)
    BY <1>2, <1>3
  <2>2. UNION {Carried(d)' : d \in ConnsOf(t)'} = UNION {Carried(d) : d \in ConnsOf(t)}
    BY <1>1, <2>1
  <2> QED BY <2>2, InFlightIs
<1> QED BY <1>5, <1>6, <1>7

\* What the promise makes of one shell's messages, for the mapping.
LEMMA FlightChanges ==
  ASSUME NEW s \in Shells, NEW S, InFlight(s)' = S,
         \A t \in Shells \ {s} : InFlight(t)' = InFlight(t)
  PROVE  [t \in Shells |-> InFlight(t)]' = [[t \in Shells |-> InFlight(t)] EXCEPT ![s] = S]
OBVIOUS

LEMMA FlightStays ==
  ASSUME \A t \in Shells : InFlight(t)' = InFlight(t)
  PROVE  [t \in Shells |-> InFlight(t)]' = [t \in Shells |-> InFlight(t)]
OBVIOUS

LEMMA ShownChanges ==
  ASSUME TypeOK, NEW s \in Shells, NEW S, ToSet(shown'[s]) = S,
         \A t \in Shells \ {s} : shown'[t] = shown[t]
  PROVE  [t \in Shells |-> ToSet(shown[t])]' = [[t \in Shells |-> ToSet(shown[t])] EXCEPT ![s] = S]
OBVIOUS

LEMMA SameToSet ==
  ASSUME NEW q
  PROVE  Promise!ToSet(q) = ToSet(q)
BY DEF Promise!ToSet, ToSet

LEMMA PromiseInit == Init => Promise!Init
<1> SUFFICES ASSUME Init PROVE Promise!Init
  OBVIOUS
<1>1. \A s \in Shells : InFlight(s) = {} /\ ToSet(shown[s]) = {}
  BY ToSetEmpty DEF Init, InFlight, HeldFor, ConnsOf
<1> QED BY <1>1 DEF Init, Promise!Init

\* The oldest message, or all of them, leave the queue.
LEMMA TakesOneOrAll ==
  ASSUME TypeOK, OnePlace, NEW c \in Conns, NEW s \in Shells, owner[c] = s,
         AttachSend(c) \/ DrainForPoll(c) \/ DrainForDecision(c)
  PROVE  Promise!Take(s) \/ UNCHANGED Promise!vars
<1>1. s \in Shells /\ pending[s] \in Seq(Nat) /\ UNCHANGED <<owner, posted, shown, lost>>
  BY AttachSendDoes, DrainDoes
<1>2. CASE AttachSend(c)
  <2>1. /\ pending[s] # << >>
        /\ pending' = [pending EXCEPT ![s] = Tail(pending[s])]
        /\ Carried(c)' = Carried(c) \union {Head(pending[s])}
        /\ \A d \in Conns \ {c} : Carried(d)' = Carried(d)
    BY <1>2, AttachSendDoes
  <2>2. /\ 1 \in 1 .. Len(pending[s])
        /\ ToSet(SubSeq(pending[s], 1, 1)) = {Head(pending[s])}
        /\ SubSeq(pending[s], 1 + 1, Len(pending[s])) = Tail(pending[s])
    BY <1>1, <2>1, TakeOne
  <2>3. /\ InFlight(s)' = InFlight(s) \union ToSet(SubSeq(pending[s], 1, 1))
        /\ \A t \in Shells \ {s} : InFlight(t)' = InFlight(t)
    BY <1>1, <2>1, <2>2, Gains
  <2>4. [t \in Shells |-> InFlight(t)]'
          = [[t \in Shells |-> InFlight(t)] EXCEPT ![s] = InFlight(s) \union ToSet(SubSeq(pending[s], 1, 1))]
    BY <1>1, <2>3, FlightChanges
  <2>5. pending' = [pending EXCEPT ![s] = SubSeq(pending[s], 1 + 1, Len(pending[s]))]
    BY <2>1, <2>2
  <2>6. Promise!Take(s)
    BY <1>1, <2>2, <2>4, <2>5, SameToSet DEF Promise!Take
  <2> QED BY <2>6
<1>3. CASE DrainForPoll(c) \/ DrainForDecision(c)
  <2>1. /\ pending' = [pending EXCEPT ![s] = << >>]
        /\ Carried(c)' = Carried(c) \union ToSet(pending[s])
        /\ \A d \in Conns \ {c} : Carried(d)' = Carried(d)
    BY <1>3, DrainDoes
  <2>2. /\ InFlight(s)' = InFlight(s) \union ToSet(pending[s])
        /\ \A t \in Shells \ {s} : InFlight(t)' = InFlight(t)
    BY <1>1, <2>1, Gains
  <2>3. CASE pending[s] = << >>
    <3>1. pending' = pending
      BY <1>1, <2>1, <2>3 DEF TypeOK, Types
    <3>2. \A t \in Shells : InFlight(t)' = InFlight(t)
      BY <2>2, <2>3, ToSetEmpty
    <3> QED BY <1>1, <3>1, <3>2, FlightStays DEF Promise!vars
  <2>4. CASE pending[s] # << >>
    <3> DEFINE n == Len(pending[s])
    <3>1. /\ n \in 1 .. Len(pending[s])
          /\ SubSeq(pending[s], 1, n) = pending[s]
          /\ SubSeq(pending[s], n + 1, Len(pending[s])) = << >>
      BY <1>1, <2>4, TakeAll
    <3>2. [t \in Shells |-> InFlight(t)]'
            = [[t \in Shells |-> InFlight(t)] EXCEPT ![s] = InFlight(s) \union ToSet(SubSeq(pending[s], 1, n))]
      BY <1>1, <2>2, <3>1, FlightChanges
    <3>3. pending' = [pending EXCEPT ![s] = SubSeq(pending[s], n + 1, Len(pending[s]))]
      BY <2>1, <3>1
    <3>4. Promise!Take(s)
      BY <1>1, <3>1, <3>2, <3>3, SameToSet DEF Promise!Take
    <3> QED BY <3>4
  <2> QED BY <2>3, <2>4
<1> QED BY <1>2, <1>3

\* A frame changes hands, or is lost.
LEMMA SendsOrLoses ==
  ASSUME TypeOK, OnePlace, NEW c \in Conns, NEW s \in Shells, owner[c] = s,
         SendBubble(c) \/ SendDecision(c)
  PROVE  Promise!Lose(s) \/ UNCHANGED Promise!vars
<1>1. s \in Shells /\ UNCHANGED <<pending, owner, posted, shown>>
  BY SendDoes
<1>2. PICK p \in Seq(Nat), q \in Seq(Nat) :
         /\ hand[c] = p \o q
         /\ hand' = [hand EXCEPT ![c] = q]
         /\ \/ lost' = lost /\ buf' = [buf EXCEPT ![c] = buf[c] \o p]
            \/ buf' = buf /\ lost' = [lost EXCEPT ![s] = lost[s] \union ToSet(p)]
  BY SendDoes
<1>3. /\ ToSet(hand[c]) = ToSet(p) \union ToSet(q)
      /\ ToSet(p) \intersect ToSet(q) = {} /\ ToSet(hand[c]) \intersect ToSet(buf[c]) = {}
  <2>1. IsInjective(p \o q)
    BY <1>2 DEF OnePlace, Once
  <2> QED BY <1>2, <2>1, ToSetConcat, Zenon DEF OnePlace, Apart, ApartAtEnds
<1>4. hand'[c] = q /\ \A d \in Conns \ {c} : hand'[d] = hand[d]
  BY <1>2 DEF TypeOK, Types
<1>5. CASE lost' = lost /\ buf' = [buf EXCEPT ![c] = buf[c] \o p]
  <2>1. buf'[c] = buf[c] \o p /\ \A d \in Conns \ {c} : buf'[d] = buf[d]
    BY <1>5 DEF TypeOK, Types
  <2>2. ToSet(buf[c] \o p) = ToSet(buf[c]) \union ToSet(p)
    BY ToSetConcat DEF TypeOK, Types
  <2>3. /\ Carried(c)' = Carried(c) \union {}
        /\ \A d \in Conns \ {c} : Carried(d)' = Carried(d)
    BY <1>3, <1>4, <2>1, <2>2 DEF Carried
  <2>4. \A t \in Shells : InFlight(t)' = InFlight(t)
    <3>1. InFlight(s)' = InFlight(s) \union {} /\ \A t \in Shells \ {s} : InFlight(t)' = InFlight(t)
      BY <1>1, <2>3, Gains
    <3> QED BY <3>1
  <2> QED BY <1>1, <1>5, <2>4, FlightStays DEF Promise!vars
<1>6. CASE buf' = buf /\ lost' = [lost EXCEPT ![s] = lost[s] \union ToSet(p)]
  <2>1. /\ ToSet(p) \subseteq Carried(c)
        /\ Carried(c)' = Carried(c) \ ToSet(p)
        /\ \A d \in Conns \ {c} : Carried(d)' = Carried(d)
    BY <1>3, <1>4, <1>6 DEF Carried
  <2>2. /\ ToSet(p) \subseteq InFlight(s)
        /\ InFlight(s)' = InFlight(s) \ ToSet(p)
        /\ \A t \in Shells \ {s} : InFlight(t)' = InFlight(t)
    BY <1>1, <2>1, LetsGo
  <2>3. [t \in Shells |-> InFlight(t)]'
          = [[t \in Shells |-> InFlight(t)] EXCEPT ![s] = InFlight(s) \ ToSet(p)]
    BY <1>1, <2>2, FlightChanges
  <2>4. Promise!Lose(s)
    BY <1>1, <1>6, <2>2, <2>3 DEF Promise!Lose
  <2> QED BY <2>4
<1> QED BY <1>2, <1>5, <1>6

LEMMA ReadsShow ==
  ASSUME TypeOK, OnePlace, NEW c \in Conns, NEW s \in Shells, owner[c] = s,
         ReadBubble(c) \/ ReadAnswer(c)
  PROVE  Promise!Show(s)
<1>1. s \in Shells /\ UNCHANGED <<pending, hand, owner, posted, lost>>
  BY ReadDoes
<1>2. PICK p \in Seq(Nat), q \in Seq(Nat) :
         /\ buf[c] = p \o q
         /\ buf' = [buf EXCEPT ![c] = q]
         /\ shown' = [shown EXCEPT ![s] = shown[s] \o p]
  BY ReadDoes
<1>3. /\ ToSet(buf[c]) = ToSet(p) \union ToSet(q)
      /\ ToSet(p) \intersect ToSet(q) = {} /\ ToSet(hand[c]) \intersect ToSet(buf[c]) = {}
  <2>1. IsInjective(p \o q)
    BY <1>2 DEF OnePlace, Once
  <2> QED BY <1>2, <2>1, ToSetConcat, Zenon DEF OnePlace, Apart, ApartAtEnds
<1>4. buf'[c] = q /\ \A d \in Conns \ {c} : buf'[d] = buf[d]
  BY <1>2 DEF TypeOK, Types
<1>5. /\ ToSet(p) \subseteq Carried(c)
      /\ Carried(c)' = Carried(c) \ ToSet(p)
      /\ \A d \in Conns \ {c} : Carried(d)' = Carried(d)
  BY <1>1, <1>3, <1>4 DEF Carried
<1>6. /\ ToSet(p) \subseteq InFlight(s)
      /\ InFlight(s)' = InFlight(s) \ ToSet(p)
      /\ \A t \in Shells \ {s} : InFlight(t)' = InFlight(t)
  BY <1>1, <1>5, LetsGo
<1>7. [t \in Shells |-> InFlight(t)]'
        = [[t \in Shells |-> InFlight(t)] EXCEPT ![s] = InFlight(s) \ ToSet(p)]
  BY <1>1, <1>6, FlightChanges
<1>8. /\ ToSet(shown'[s]) = ToSet(shown[s]) \union ToSet(p)
      /\ \A t \in Shells \ {s} : shown'[t] = shown[t]
  BY <1>2, ToSetConcat DEF TypeOK, Types
<1>9. [t \in Shells |-> ToSet(shown[t])]'
        = [[t \in Shells |-> ToSet(shown[t])] EXCEPT ![s] = ToSet(shown[s]) \union ToSet(p)]
  BY <1>8, ShownChanges
<1> QED BY <1>1, <1>6, <1>7, <1>9 DEF Promise!Show

LEMMA HangUpLoses ==
  ASSUME TypeOK, OnePlace, NEW c \in Conns, NEW s \in Shells, owner[c] = s,
         HangUp(c)
  PROVE  Promise!Lose(s)
<1> DEFINE M == ToSet(buf[c])
<1>1. /\ s \in Shells
      /\ buf' = [buf EXCEPT ![c] = << >>]
      /\ lost' = [lost EXCEPT ![s] = lost[s] \union M]
      /\ UNCHANGED <<pending, hand, owner, posted, shown>>
  BY DEF HangUp, Loses, registry, server, TypeOK, Types, Ends
<1>2. buf'[c] = << >> /\ ToSet(buf'[c]) = {} /\ \A d \in Conns \ {c} : buf'[d] = buf[d]
  BY <1>1, ToSetEmpty DEF TypeOK, Types
<1>3. /\ M \subseteq Carried(c)
      /\ Carried(c)' = Carried(c) \ M
      /\ \A d \in Conns \ {c} : Carried(d)' = Carried(d)
  BY <1>1, <1>2 DEF Carried, OnePlace, Apart, ApartAtEnds
<1>4. /\ M \subseteq InFlight(s)
      /\ InFlight(s)' = InFlight(s) \ M
      /\ \A t \in Shells \ {s} : InFlight(t)' = InFlight(t)
  BY <1>1, <1>3, LetsGo
<1>5. [t \in Shells |-> InFlight(t)]'
        = [[t \in Shells |-> InFlight(t)] EXCEPT ![s] = InFlight(s) \ M]
  BY <1>1, <1>4, FlightChanges
<1> QED BY <1>1, <1>4, <1>5 DEF Promise!Lose

\* A delivery waits, is carried at once, or is refused.
LEMMA DeliveryPosts ==
  ASSUME TypeOK, OnePlace, NothingOvertakes, NEW s \in Shells, Deliver(s)
  PROVE  Promise!Wait(s) \/ Promise!CarryAtOnce(s) \/ Promise!Refuse(s)
<1>1. posted' = [posted EXCEPT ![s] = posted[s] + 1] /\ UNCHANGED <<owner, hand, shown>>
  BY DEF Deliver, DeliverSilent, DeliverLive, DeliverLater, Post
<1>2. UNCHANGED buf => \A t \in Shells : InFlight(t)' = InFlight(t)
  BY <1>1 DEF InFlight, HeldFor, ConnsOf
<1>3. CASE DeliverSilent(s)
  <2>1. lost' = [lost EXCEPT ![s] = lost[s] \union {posted[s] + 1}] /\ UNCHANGED <<buf, pending>>
    BY <1>3 DEF DeliverSilent, Loses, registry
  <2> QED BY <1>1, <1>2, <2>1, FlightStays DEF Promise!Refuse, Promise!Fresh
<1>4. CASE DeliverLater(s)
  <2>1. pending' = [pending EXCEPT ![s] = Append(pending[s], posted[s] + 1)] /\ UNCHANGED <<buf, lost>>
    BY <1>4 DEF DeliverLater
  <2> QED BY <1>1, <1>2, <2>1, FlightStays DEF Promise!Wait, Promise!Fresh
<1>5. CASE DeliverLive(s)
  <2>1. PICK c \in Conns : c = subscriber[s]
    BY <1>5 DEF DeliverLive, Reached, TypeOK, Types
  <2>2. owner[c] = s /\ pending[s] = << >>
    BY <2>1 DEF TypeOK, Ends, NothingOvertakes
  <2>3. buf' = [buf EXCEPT ![c] = Append(buf[c], posted[s] + 1)] /\ UNCHANGED <<pending, lost>>
    BY <1>5, <2>1 DEF DeliverLive, registry
  <2>4. /\ buf'[c] = Append(buf[c], posted[s] + 1) /\ \A d \in Conns \ {c} : buf'[d] = buf[d]
        /\ buf[c] \in Seq(Nat) /\ posted[s] + 1 \in Nat
    BY <2>3 DEF TypeOK, Types
  <2>5. ToSet(buf'[c]) = ToSet(buf[c]) \union {posted[s] + 1}
    BY <2>4, ToSetAppend
  <2>6. /\ Carried(c)' = Carried(c) \union {posted[s] + 1}
        /\ \A d \in Conns \ {c} : Carried(d)' = Carried(d)
    BY <1>1, <2>4, <2>5 DEF Carried
  <2>7. /\ InFlight(s)' = InFlight(s) \union {posted[s] + 1}
        /\ \A t \in Shells \ {s} : InFlight(t)' = InFlight(t)
    BY <1>1, <2>2, <2>6, Gains
  <2>8. [t \in Shells |-> InFlight(t)]'
          = [[t \in Shells |-> InFlight(t)] EXCEPT ![s] = InFlight(s) \union {posted[s] + 1}]
    BY <2>7, FlightChanges
  <2> QED BY <1>1, <2>2, <2>3, <2>8 DEF Promise!CarryAtOnce, Promise!Fresh
<1> QED BY <1>3, <1>4, <1>5 DEF Deliver

LEMMA ForgetGoneForgets ==
  ASSUME TypeOK, ForgetGone
  PROVE  Promise!Forget
<1>1. PICK S \in SUBSET Shells : S = {s \in Shells : Gone(s)}
  OBVIOUS
<1>2. /\ pending' = [t \in Shells |-> IF t \in S THEN << >> ELSE pending[t]]
      /\ lost' = [t \in Shells |-> IF t \in S THEN lost[t] \union ToSet(pending[t]) ELSE lost[t]]
      /\ UNCHANGED <<hand, buf, owner, posted, shown>>
  BY <1>1 DEF ForgetGone, server, client
<1>3. \A t \in Shells : InFlight(t)' = InFlight(t)
  BY <1>2 DEF InFlight, HeldFor, ConnsOf
<1>4. [t \in Shells |-> InFlight(t)]' = [t \in Shells |-> InFlight(t)]
  BY <1>3, FlightStays
<1> QED BY <1>2, <1>4, SameToSet DEF Promise!Forget

LEMMA QuitStops ==
  ASSUME TypeOK, OnePlace, Quit
  PROVE  Promise!Stop
<1>1. /\ pending' = [s \in Shells |-> << >>]
      /\ hand' = [c \in Conns |-> << >>]
      /\ lost' = [s \in Shells |-> lost[s] \union ToSet(pending[s]) \union HeldFor(s)]
      /\ UNCHANGED <<buf, owner, posted, shown>>
  BY DEF Quit, client
<1>2. \A s \in Shells : HeldFor(s) \subseteq InFlight(s)
  BY DEF InFlight
<1>3. ASSUME NEW s \in Shells PROVE InFlight(s)' = InFlight(s) \ HeldFor(s)
  <2>1. \A c \in Conns : ToSet(hand'[c]) = {}
    BY <1>1, ToSetEmpty
  <2>2. InFlight(s)' = UNION {ToSet(buf[c]) : c \in ConnsOf(s)}
    BY <1>1, <2>1 DEF InFlight, HeldFor, ConnsOf
  <2>3. ASSUME NEW c \in Conns, NEW d \in Conns, owner[c] = s, owner[d] = s
        PROVE  ToSet(buf[c]) \intersect ToSet(hand[d]) = {}
    BY <2>3 DEF OnePlace, Apart, ApartAtEnds, ApartOnWay, Carried
  <2>4. (UNION {ToSet(buf[c]) : c \in ConnsOf(s)}) \intersect HeldFor(s) = {}
    BY <2>3 DEF HeldFor, ConnsOf
  <2> QED BY <2>2, <2>4 DEF InFlight
<1>4. PICK held : held = [s \in Shells |-> HeldFor(s)]
  OBVIOUS
<1>5. held \in [Shells -> SUBSET UNION {[s \in Shells |-> InFlight(s)][t] : t \in Shells}]
  BY <1>2, <1>4
<1>6. [s \in Shells |-> InFlight(s)]' = [s \in Shells |-> [t \in Shells |-> InFlight(t)][s] \ held[s]]
  BY <1>3, <1>4
<1>7. lost' = [s \in Shells |-> lost[s] \union ToSet(pending[s])
                                 \union ([t \in Shells |-> InFlight(t)][s] \intersect held[s])]
  BY <1>1, <1>2, <1>4
<1> QED BY <1>1, <1>5, <1>6, <1>7, SameToSet DEF Promise!Stop

LEMMA PromiseStep ==
  ASSUME TypeOK, OnePlace, NothingOvertakes, [Next]_vars
  PROVE  [Promise!Next]_(Promise!vars)
<1>1. ASSUME \/ \E c \in Conns : \/ Ack(c) \/ BeginAttach(c) \/ AttachDone(c) \/ AttachFail(c)
                                 \/ SendDone(c) \/ RegisterSignal(c) \/ TriageFails(c)
             \/ \E s \in Shells : ShellExits(s)
             \/ Ping \/ SetSilent \/ UNCHANGED vars
      PROVE  UNCHANGED Promise!vars
  <2>1. UNCHANGED Placed
    BY <1>1, QuietPlaced
  <2>2. \A t \in Shells : InFlight(t)' = InFlight(t)
    BY <2>1 DEF Placed, InFlight, HeldFor, ConnsOf
  <2> QED BY <2>1, <2>2, FlightStays DEF Placed, Promise!vars
<1>2. ASSUME NEW c \in Conns, AttachSend(c) \/ DrainForPoll(c) \/ DrainForDecision(c)
      PROVE  Promise!Next \/ UNCHANGED Promise!vars
  <2>1. PICK s \in Shells : owner[c] = s
    BY <1>2, AttachSendDoes, DrainDoes
  <2> QED BY <1>2, <2>1, TakesOneOrAll DEF Promise!Next, Promise!Step
<1>3. ASSUME NEW c \in Conns, SendBubble(c) \/ SendDecision(c)
      PROVE  Promise!Next \/ UNCHANGED Promise!vars
  <2>1. PICK s \in Shells : owner[c] = s
    BY <1>3, SendDoes
  <2> QED BY <1>3, <2>1, SendsOrLoses DEF Promise!Next, Promise!Step
<1>4. ASSUME NEW c \in Conns, ReadBubble(c) \/ ReadAnswer(c) \/ HangUp(c)
      PROVE  Promise!Next
  <2>1. owner[c] \in Shells
    BY <1>4, ReadDoes DEF HangUp, TypeOK, Ends
  <2>2. PICK s \in Shells : owner[c] = s
    BY <2>1
  <2> QED BY <1>4, <2>2, ReadsShow, HangUpLoses DEF Promise!Next, Promise!Step
<1>5. ASSUME NEW c \in Conns, NEW s \in Shells, Ask(c, s) \/ AnswerPoke(c, s)
      PROVE  UNCHANGED Promise!vars
  <2>1. PICK request \in Request : Connect(c, s, request)
    BY <1>5 DEF Ask, AnswerPoke
  <2>2. /\ UNCHANGED <<pending, hand, buf, posted, shown, lost>>
        /\ owner' = [owner EXCEPT ![c] = s]
    BY <2>1 DEF Connect, registry, history
  <2>3. Carried(c) = {} /\ \A d \in Conns : Carried(d)' = Carried(d)
    BY <2>1, <2>2, ToSetEmpty DEF Connect, OnePlace, Holders, Carried
  <2>4. \A d \in Conns \ {c} : owner'[d] = owner[d]
    BY <2>2 DEF TypeOK, Types
  <2>5. ASSUME NEW t \in Shells PROVE InFlight(t)' = InFlight(t)
    <3>1. ConnsOf(t)' \ {c} = ConnsOf(t) \ {c} /\ ConnsOf(t) \subseteq Conns /\ ConnsOf(t)' \subseteq Conns
      BY <2>4 DEF ConnsOf
    <3>2. UNION {Carried(d)' : d \in ConnsOf(t)'} = UNION {Carried(d) : d \in ConnsOf(t)}
      BY <2>3, <3>1
    <3> QED BY <3>2, InFlightIs
  <2> QED BY <2>2, <2>5, FlightStays DEF Promise!vars
<1>6. ASSUME NEW s \in Shells, Deliver(s)
      PROVE  Promise!Next
  BY <1>6, DeliveryPosts DEF Promise!Next, Promise!Step
<1>7. CASE Daemon
  BY <1>1, <1>7, ForgetGoneForgets, QuitStops DEF Daemon, Promise!Next
<1> QED
  <2>1. ASSUME NEW c \in Conns, Thread(c) \/ Client(c)
        PROVE  Promise!Next \/ UNCHANGED Promise!vars
    BY <1>1, <1>2, <1>3, <1>4, <1>5, <2>1 DEF Thread, Client
  <2> QED BY <1>1, <1>6, <1>7, <2>1 DEF Next

(***************************************************************************)
(* The registry keeps what Post promises: nothing overtakes, nothing comes *)
(* back, and what is neither waiting nor on its way was printed once or is *)
(* lost with whoever carried it.                                           *)
(***************************************************************************)
THEOREM KeepsPromise == Spec => PostSpec
<1>1. TypeOK /\ OnePlace /\ NothingOvertakes /\ [Next]_vars => [Promise!Next]_(Promise!vars)
  BY PromiseStep
<1>2. QED
  BY <1>1, PromiseInit, TypeCorrect, OnePlaceAlways, OrderSafe, PTL
  DEF Spec, PostSpec, Promise!Spec
=============================================================================
