-------------------------- MODULE GameServerProofs --------------------------
(***************************************************************************)
(* What the packet handlers promise, for any number of clients, whatever   *)
(* keys they have, whatever they ask and whenever they ask it.             *)
(*                                                                         *)
(* Understood and KnowsWhom are not inductive: that a client has seen the  *)
(* answer to its key check has to say something about the server, which is *)
(* what Inv adds. That answer goes to a client whose key was right         *)
(* (AnswerMeans); whose key was right is remembered with the user, unless  *)
(* the check was repeated (Trusted); requests wait on the channel of their *)
(* handler (Waiting); the first key check is ahead of the repeated ones,    *)
(* and the client is not checked as long as it waits (Once); and on the    *)
(* other channels only clients that are checked have requests in turn      *)
(* (Expected).                                                             *)
(***************************************************************************)
EXTENDS GameServer, SequenceTheorems, TLAPS

Trusted ==
  \A c \in keyChecked :
    /\ c \notin OtherKey
    /\ userId[c] = c \/ (userId[c] = Garbled /\ CheckAgain \in asked[c])

AnswerMeans == \A c \in Clients : \A m \in got[c] : m.kind = "KeyCheck" => c \in keyChecked

Waiting ==
  \A c \in Clients, ch \in Channels : \A i \in 1 .. Len(inbox[c][ch]) :
    inbox[c][ch][i] \in asked[c] /\ ChannelOf(inbox[c][ch][i].cmd) = ch

Once ==
  \A c \in Clients :
    /\ \A i \in 1 .. Len(inbox[c]["HANDSHAKE"]) :
         inbox[c]["HANDSHAKE"][i].inTurn => i = 1 /\ c \notin keyChecked
    /\ FirstCheck \notin asked[c] => inbox[c]["HANDSHAKE"] = <<>> /\ c \notin keyChecked

Expected ==
  \A c \in Clients, ch \in Channels \ {"HANDSHAKE"} : \A i \in 1 .. Len(inbox[c][ch]) :
    inbox[c][ch][i].inTurn => c \in keyChecked

Inv == TypeOK /\ Trusted /\ AnswerMeans /\ Waiting /\ Once /\ Expected /\ KnowsWhom

\* The key check, and nothing else, has the handshake channel.
LEMMA Handshake == ASSUME NEW r PROVE ChannelOf(r) = "HANDSHAKE" <=> r = "KeyCheck"
BY DEF ChannelOf

\* A key check of a client that was not checked, and any other request of one
\* that was, is read as it was meant.
LEMMA ReadAsMeant ==
  ASSUME Trusted, NEW c \in Clients, NEW r \in Uses, r = "KeyCheck" <=> c \notin keyChecked
  PROVE  Readings(c, r) = {r}
<1>1. CASE r = "KeyCheck"
  BY <1>1 DEF Readings, Decrypts, Encrypts, Short
<1>2. CASE r # "KeyCheck"
  <2>1. c \in keyChecked /\ c \notin OtherKey
    BY <1>2 DEF Trusted
  <2> QED
    BY <1>2, <2>1 DEF Readings, Decrypts, Encrypts
<1> QED
  BY <1>1, <1>2

\* A request in turn is the key check of a client that was not checked, or another
\* request of one that was.
LEMMA InTurnMeans ==
  ASSUME TypeOK, Waiting, Once, Expected, NEW c \in Clients, NEW ch \in Channels,
         NEW i \in 1 .. Len(inbox[c][ch]), inbox[c][ch][i].inTurn
  PROVE  inbox[c][ch][i].cmd = "KeyCheck" <=> c \notin keyChecked
<1>1. ch = "HANDSHAKE" <=> inbox[c][ch][i].cmd = "KeyCheck"
  BY Handshake DEF Waiting
<1> QED
  BY <1>1 DEF Once, Expected

\* In a state that satisfies Inv, every request in turn is understood.
LEMMA InvUnderstood == Inv => Understood
<1> SUFFICES ASSUME Inv, NEW c \in Clients, NEW ch \in Channels,
                    NEW i \in DOMAIN inbox[c][ch], inbox[c][ch][i].inTurn
             PROVE  Readings(c, inbox[c][ch][i].cmd) = {inbox[c][ch][i].cmd}
  BY DEF Understood
<1>1. inbox[c][ch] \in Seq(Asked)
  BY DEF Inv, TypeOK
<1>2. i \in 1 .. Len(inbox[c][ch])
  BY <1>1
<1>3. inbox[c][ch][i].cmd \in Uses
  <2>1. inbox[c][ch][i] \in Asked
    BY <1>1, <1>2
  <2> QED
    BY <2>1 DEF Asked
<1>4. inbox[c][ch][i].cmd = "KeyCheck" <=> c \notin keyChecked
  BY <1>2, InTurnMeans DEF Inv
<1> QED
  BY <1>3, <1>4, ReadAsMeant DEF Inv

\* What the handlers other than that of the key check send is of no kind but theirs,
\* and names the user remembered for the sender, or nobody.
LEMMA WhatIsSent ==
  ASSUME TypeOK, NEW c \in Clients, NEW r, NEW of \in Clients \cup {Nobody},
         NEW m \in Messages(c, Answers(r), of) \cup Messages(c, Broadcasts(r), of)
  PROVE  m \in Message /\ m.kind # "KeyCheck" /\ m.of = of /\ m.about \in {userId[c], Nobody}
<1>1. PICK k \in Answers(r) \cup Broadcasts(r) :
        m = [kind |-> k, about |-> IF k \in CarriesUser THEN userId[c] ELSE Nobody, of |-> of]
  BY DEF Messages
<1>2. k \in Kinds \ {"KeyCheck"}
  BY <1>1 DEF Answers, Broadcasts, Kinds
<1>3. userId[c] \in Clients \cup {Unset, Garbled}
  BY DEF TypeOK
<1> QED
  BY <1>1, <1>2, <1>3 DEF Message

\* Nobody is connected at first.
LEMMA InitInv == Init => Inv
<1> SUFFICES ASSUME Init PROVE Inv
  OBVIOUS
<1>1. TypeOK /\ Trusted /\ AnswerMeans /\ KnowsWhom
  BY DEF Init, TypeOK, Trusted, AnswerMeans, KnowsWhom
<1>2. Waiting /\ Once /\ Expected
  BY DEF Init, Waiting, Once, Expected, Channels
<1> QED
  BY <1>1, <1>2 DEF Inv

\* A new connection knows nothing of an earlier one.
LEMMA ConnectInv ==
  ASSUME Inv, NEW c \in Clients, Connect(c)
  PROVE  Inv'
BY DEF Inv, TypeOK, Trusted, AnswerMeans, Waiting, Once, Expected, KnowsWhom, Connect

\* A connection that ends takes with it what the server knew.
LEMMA DisconnectInv ==
  ASSUME Inv, NEW c \in Clients, Disconnect(c)
  PROVE  Inv'
<1> USE DEF Inv
<1>1. TypeOK'
  BY DEF TypeOK, Disconnect, Forget
<1>2. Trusted' /\ AnswerMeans' /\ KnowsWhom'
  BY DEF TypeOK, Trusted, AnswerMeans, KnowsWhom, Disconnect, Forget
<1>3. /\ inbox'[c] = [ch \in Channels |-> <<>>]
      /\ \A d \in Clients \ {c} : inbox'[d] = inbox[d] /\ asked'[d] = asked[d]
      /\ keyChecked' = keyChecked \ {c}
  BY DEF TypeOK, Disconnect, Forget
<1>4. Waiting' /\ Once' /\ Expected'
  BY <1>3 DEF Waiting, Once, Expected, Channels
<1> QED
  BY <1>1, <1>2, <1>4

\* A client may ask for anything; only what it asks in turn says something.
LEMMA AskInv ==
  ASSUME Inv, NEW c \in Clients, NEW r \in Uses, Ask(c, r)
  PROVE  Inv'
<1> USE DEF Inv
<1> DEFINE own == ChannelOf(r)
           queue == inbox[c][own]
           q == [cmd |-> r, inTurn |-> InTurn(c, r)]
<1>1. own \in Channels /\ queue \in Seq(Asked)
  BY DEF TypeOK, ChannelOf, Channels
<1>2. InTurn(c, r) \in BOOLEAN
  BY DEF InTurn, Answered
<1>3. q \in Asked
  BY <1>2 DEF Asked
<1>4. /\ inbox' = [inbox EXCEPT ![c] = [inbox[c] EXCEPT ![own] = Append(queue, q)]]
      /\ asked' = [asked EXCEPT ![c] = asked[c] \cup {q}]
      /\ UNCHANGED <<open, keyChecked, userId, got>>
  BY <1>1 DEF Ask, TypeOK, infoVars
<1>5. r # "KeyCheck" /\ q.inTurn => c \in keyChecked
  BY DEF InTurn, Answered, AnswerMeans
<1>6. r = "KeyCheck" /\ q.inTurn => FirstCheck \notin asked[c]
  BY DEF InTurn
<1>7. r = "KeyCheck" => FirstCheck \in asked[c] \cup {q}
  BY <1>2 DEF InTurn, FirstCheck
<1> HIDE DEF own, q
<1>8. /\ Append(queue, q) \in Seq(Asked) /\ Len(Append(queue, q)) = Len(queue) + 1
      /\ \A i \in 1 .. Len(queue) + 1 :
           Append(queue, q)[i] = IF i = Len(queue) + 1 THEN q ELSE queue[i]
  BY <1>1, <1>3, AppendProperties
<1>9. TypeOK'
  BY <1>1, <1>3, <1>4, <1>8 DEF TypeOK
<1>10. Trusted' /\ AnswerMeans' /\ KnowsWhom'
  <2>1. \A d \in Clients : asked[d] \subseteq asked'[d]
    BY <1>4 DEF TypeOK
  <2> QED
    BY <1>4, <2>1 DEF Trusted, AnswerMeans, KnowsWhom, TypeOK
<1>11. inbox'[c][own] = Append(queue, q)
  BY <1>1, <1>4 DEF TypeOK
<1>12. \A d \in Clients, ch \in Channels : d # c \/ ch # own => inbox'[d][ch] = inbox[d][ch]
  BY <1>1, <1>4 DEF TypeOK
<1>13. q.cmd = r /\ ChannelOf(r) = own
  BY DEF q, own
<1>14. Len(queue) \in Nat
  BY <1>1
<1>15. Waiting'
  <2> SUFFICES ASSUME NEW d \in Clients, NEW ch \in Channels, NEW i \in 1 .. Len(inbox'[d][ch])
               PROVE  inbox'[d][ch][i] \in asked'[d] /\ ChannelOf(inbox'[d][ch][i].cmd) = ch
    BY DEF Waiting
  <2>1. CASE d = c /\ ch = own
    BY <1>4, <1>8, <1>11, <1>13, <1>14, <2>1 DEF Waiting, TypeOK
  <2>2. CASE ~(d = c /\ ch = own)
    <3>1. asked[d] \subseteq asked'[d]
      BY <1>4 DEF TypeOK
    <3> QED
      BY <1>12, <2>2, <3>1 DEF Waiting
  <2> QED
    BY <2>1, <2>2
<1>16. Once'
  <2> SUFFICES ASSUME NEW d \in Clients
               PROVE  /\ \A i \in 1 .. Len(inbox'[d]["HANDSHAKE"]) :
                           inbox'[d]["HANDSHAKE"][i].inTurn => i = 1 /\ d \notin keyChecked'
                      /\ FirstCheck \notin asked'[d] =>
                           inbox'[d]["HANDSHAKE"] = <<>> /\ d \notin keyChecked'
    BY DEF Once
  <2>1. CASE d = c /\ own = "HANDSHAKE"
    <3>1. r = "KeyCheck" /\ FirstCheck \in asked'[c]
      BY <1>4, <1>7, <1>13, <2>1, Handshake DEF TypeOK
    <3>2. q.inTurn => queue = <<>> /\ c \notin keyChecked
      BY <1>6, <2>1, <3>1 DEF Once
    <3>3. ASSUME NEW i \in 1 .. Len(queue) + 1, Append(queue, q)[i].inTurn
          PROVE  i = 1 /\ c \notin keyChecked
      <4>1. CASE i = Len(queue) + 1
        <5>1. q.inTurn
          BY <1>8, <3>3, <4>1
        <5>2. Len(queue) = 0
          BY <3>2, <5>1
        <5> QED
          BY <3>2, <4>1, <5>1, <5>2
      <4>2. CASE i # Len(queue) + 1
        <5>1. i \in 1 .. Len(queue) /\ queue[i].inTurn
          BY <1>8, <1>14, <3>3, <4>2
        <5> QED
          BY <2>1, <5>1 DEF Once
      <4> QED
        BY <4>1, <4>2
    <3> QED
      BY <1>4, <1>8, <1>11, <2>1, <3>1, <3>3
  <2>2. CASE ~(d = c /\ own = "HANDSHAKE")
    <3>1. inbox'[d]["HANDSHAKE"] = inbox[d]["HANDSHAKE"]
      BY <1>12, <2>2 DEF Channels
    <3>2. asked[d] \subseteq asked'[d]
      BY <1>4 DEF TypeOK
    <3> QED
      BY <1>4, <3>1, <3>2 DEF Once
  <2> QED
    BY <2>1, <2>2
<1>17. Expected'
  <2> SUFFICES ASSUME NEW d \in Clients, NEW ch \in Channels \ {"HANDSHAKE"},
                      NEW i \in 1 .. Len(inbox'[d][ch]), inbox'[d][ch][i].inTurn
               PROVE  d \in keyChecked'
    BY DEF Expected
  <2>1. CASE d = c /\ ch = own
    <3>1. r # "KeyCheck"
      BY <1>13, <2>1, Handshake
    <3> QED
      BY <1>4, <1>5, <1>8, <1>11, <1>14, <2>1, <3>1 DEF Expected
  <2>2. CASE ~(d = c /\ ch = own)
    BY <1>4, <1>12, <2>2 DEF Expected
  <2> QED
    BY <2>1, <2>2
<1> QED
  BY <1>9, <1>10, <1>15, <1>16, <1>17

\* The oldest request of a channel leaves it, whatever the server takes it for.
LEMMA HandleInv ==
  ASSUME Inv, NEW c \in Clients, NEW ch \in Channels, Handle(c, ch)
  PROVE  Inv'
<1> USE DEF Inv
<1> DEFINE queue == inbox[c][ch]
           q == Head(queue)
           of == For(c, q)
<1>1. /\ queue \in Seq(Asked) /\ queue # <<>> /\ q \in Asked /\ c \in open
      /\ inbox' = [inbox EXCEPT ![c] = [inbox[c] EXCEPT ![ch] = Tail(queue)]]
      /\ asked' = asked
  BY HeadTailProperties DEF TypeOK, Handle
<1>2. /\ 1 \in 1 .. Len(queue) /\ q = queue[1]
      /\ Tail(queue) \in Seq(Asked) /\ Len(Tail(queue)) = Len(queue) - 1 /\ Len(queue) \in Nat
      /\ \A i \in 1 .. Len(Tail(queue)) :
           i + 1 \in 1 .. Len(queue) /\ i + 1 # 1 /\ Tail(queue)[i] = queue[i + 1]
  BY <1>1, HeadTailProperties
<1>3. PICK taken \in Readings(c, q.cmd) :
        IF taken = "KeyCheck" THEN KeyCheck(c, of)
                              ELSE Deliver(c, taken, of) /\ UNCHANGED infoVars
  BY DEF Handle
<1>4. q.cmd \in Uses /\ q \in asked[c] /\ ChannelOf(q.cmd) = ch
  BY <1>1, <1>2 DEF Asked, Waiting
<1>5. taken = "KeyCheck" => ch = "HANDSHAKE"
  <2>1. taken = q.cmd \/ ChannelOf(taken) = ChannelOf(q.cmd) \/ taken = Unknown
    BY <1>3 DEF Readings
  <2> QED
    BY <1>4, <2>1, Handshake DEF Unknown
<1>6. of \in Clients \cup {Nobody}
  BY DEF For
<1>7. of # Nobody => of = c /\ q.inTurn /\ CheckAgain \notin asked[c]
  BY DEF For
<1>8. of # Nobody => /\ (taken = "KeyCheck" <=> c \notin keyChecked)
                     /\ (c \in keyChecked => userId[c] = c)
  <2> SUFFICES ASSUME of # Nobody
               PROVE  /\ (taken = "KeyCheck" <=> c \notin keyChecked)
                      /\ (c \in keyChecked => userId[c] = c)
    OBVIOUS
  <2>1. q.cmd = "KeyCheck" <=> c \notin keyChecked
    BY <1>2, <1>7, InTurnMeans
  <2>2. taken = q.cmd
    BY <1>3, <1>4, <2>1, ReadAsMeant
  <2> QED
    BY <1>7, <2>1, <2>2 DEF Trusted
<1>9. /\ inbox' \in [Clients -> [Channels -> Seq(Asked)]]
      /\ inbox'[c][ch] = Tail(queue)
      /\ \A d \in Clients, k \in Channels : d # c \/ k # ch => inbox'[d][k] = inbox[d][k]
  BY <1>1, <1>2 DEF TypeOK
<1> HIDE DEF q, of
<1>10. Waiting'
  <2> SUFFICES ASSUME NEW d \in Clients, NEW k \in Channels, NEW i \in 1 .. Len(inbox'[d][k])
               PROVE  inbox'[d][k][i] \in asked'[d] /\ ChannelOf(inbox'[d][k][i].cmd) = k
    BY DEF Waiting
  <2>1. CASE d = c /\ k = ch
    BY <1>1, <1>2, <1>9, <2>1 DEF Waiting
  <2>2. CASE ~(d = c /\ k = ch)
    BY <1>1, <1>9, <2>2 DEF Waiting
  <2> QED
    BY <2>1, <2>2
<1>11. ASSUME keyChecked \subseteq keyChecked', keyChecked' \subseteq keyChecked \cup {c},
              taken # "KeyCheck" => keyChecked' = keyChecked
       PROVE  Once' /\ Expected'
  <2>1. Once'
    <3> SUFFICES ASSUME NEW d \in Clients
                 PROVE  /\ \A i \in 1 .. Len(inbox'[d]["HANDSHAKE"]) :
                             inbox'[d]["HANDSHAKE"][i].inTurn => i = 1 /\ d \notin keyChecked'
                        /\ FirstCheck \notin asked'[d] =>
                             inbox'[d]["HANDSHAKE"] = <<>> /\ d \notin keyChecked'
      BY DEF Once
    <3>1. CASE d = c /\ ch = "HANDSHAKE"
      <4>1. FirstCheck \in asked'[d]
        BY <1>1, <3>1 DEF Once
      <4>2. \A i \in 1 .. Len(Tail(queue)) : ~Tail(queue)[i].inTurn
        BY <1>2, <3>1 DEF Once
      <4> QED
        BY <1>9, <3>1, <4>1, <4>2
    <3>2. CASE ~(d = c /\ ch = "HANDSHAKE")
      <4>1. inbox'[d]["HANDSHAKE"] = inbox[d]["HANDSHAKE"]
        BY <1>9, <3>2 DEF Channels
      <4>2. d \in keyChecked' <=> d \in keyChecked
        BY <1>5, <1>11, <3>2
      <4> QED
        BY <1>1, <4>1, <4>2 DEF Once
    <3> QED
      BY <3>1, <3>2
  <2>2. Expected'
    <3> SUFFICES ASSUME NEW d \in Clients, NEW k \in Channels \ {"HANDSHAKE"},
                        NEW i \in 1 .. Len(inbox'[d][k]), inbox'[d][k][i].inTurn
                 PROVE  d \in keyChecked'
      BY DEF Expected
    <3>1. CASE d = c /\ k = ch
      <4>1. i \in 1 .. Len(Tail(queue)) /\ queue[i + 1].inTurn
        BY <1>2, <1>9, <3>1
      <4>2. ch \in Channels \ {"HANDSHAKE"} /\ i + 1 \in 1 .. Len(queue)
        BY <1>2, <3>1, <4>1
      <4>3. c \in keyChecked
        BY <4>1, <4>2 DEF Expected
      <4> QED
        BY <1>11, <3>1, <4>3
    <3>2. CASE ~(d = c /\ k = ch)
      BY <1>9, <1>11, <3>2 DEF Expected
    <3> QED
      BY <3>1, <3>2
  <2> QED
    BY <2>1, <2>2
<1>12. CASE taken = "KeyCheck" /\ UNCHANGED <<infoVars, got>>
  <2>1. UNCHANGED <<open, keyChecked, userId, got>>
    BY <1>12 DEF infoVars
  <2>2. Once' /\ Expected'
    BY <1>11, <2>1
  <2> QED
    BY <1>1, <1>9, <1>10, <2>1, <2>2 DEF TypeOK, Trusted, AnswerMeans, KnowsWhom
<1>13. CASE taken = "KeyCheck" /\ ~ UNCHANGED <<infoVars, got>>
  <2>1. PICK user \in FoundIn(c) :
          /\ keyChecked' = keyChecked \cup {c}
          /\ userId' = [userId EXCEPT ![c] = user]
          /\ got' = [got EXCEPT ![c] = got[c] \cup {KeyReply(user, of)}]
          /\ open' = open
    BY <1>3, <1>13 DEF KeyCheck
  <2>2. /\ c \in keyChecked => user = Garbled
        /\ c \notin keyChecked => user = c /\ c \notin OtherKey
        /\ user \in Clients \cup {Garbled}
    BY DEF FoundIn
  <2>3. Once' /\ Expected'
    BY <1>11, <1>13, <2>1
  <2>4. KeyReply(user, of) \in Message /\ KeyReply(user, of).of = of
        /\ KeyReply(user, of).about = user
    BY <1>6, <2>2 DEF KeyReply, Message, Kinds
  <2>5. TypeOK'
    BY <1>1, <1>9, <2>1, <2>2, <2>4 DEF TypeOK
  <2>6. ch = "HANDSHAKE" /\ FirstCheck \in asked[c]
    BY <1>1, <1>5, <1>13 DEF Once
  <2>7. c \in keyChecked => CheckAgain \in asked[c]
    <3> SUFFICES ASSUME c \in keyChecked PROVE CheckAgain \in asked[c]
      OBVIOUS
    <3>1. ~q.inTurn /\ q.cmd = "KeyCheck"
      BY <1>2, <1>4, <2>6, Handshake DEF Once
    <3>2. q = CheckAgain
      BY <1>1, <3>1 DEF Asked, CheckAgain
    <3> QED
      BY <1>4, <3>2
  <2>8. Trusted'
    BY <1>1, <2>1, <2>2, <2>7 DEF Trusted, TypeOK
  <2>9. AnswerMeans'
    BY <2>1 DEF AnswerMeans, TypeOK
  <2>10. KnowsWhom'
    <3>1. of # Nobody => user = of
      BY <1>7, <1>8, <1>13, <2>2
    <3> QED
      BY <2>1, <2>4, <3>1 DEF KnowsWhom, TypeOK
  <2> QED
    BY <1>10, <2>3, <2>5, <2>8, <2>9, <2>10
<1>14. CASE taken # "KeyCheck"
  <2>1. UNCHANGED <<open, keyChecked, userId>> /\ Deliver(c, taken, of)
    BY <1>3, <1>14 DEF infoVars
  <2>2. Once' /\ Expected'
    BY <1>11, <2>1
  <2> DEFINE sent == Messages(c, Answers(taken), of) \cup Messages(c, Broadcasts(taken), of)
  <2>3. \A m \in sent : /\ m \in Message /\ m.kind # "KeyCheck"
                        /\ m.of = of /\ m.about \in {userId[c], Nobody}
    BY <1>6, WhatIsSent
  <2>4. /\ DOMAIN got' = Clients /\ got' = [d \in Clients |-> got'[d]]
        /\ \A d \in Clients : \A m \in got'[d] : m \in got[d] \/ m \in sent
    BY <2>1 DEF Deliver
  <2> HIDE DEF sent
  <2>5. TypeOK'
    <3>1. \A d \in Clients : got'[d] \in SUBSET Message
      BY <2>3, <2>4 DEF TypeOK
    <3>2. got' \in [Clients -> SUBSET Message]
      BY <2>4, <3>1
    <3> QED
      BY <1>1, <1>9, <2>1, <3>2 DEF TypeOK
  <2>6. Trusted'
    BY <1>1, <2>1 DEF Trusted
  <2>7. AnswerMeans'
    BY <2>1, <2>3, <2>4 DEF AnswerMeans
  <2>8. KnowsWhom'
    <3>1. of # Nobody => userId[c] = of
      BY <1>7, <1>8, <1>14
    <3> QED
      BY <2>3, <2>4, <3>1 DEF KnowsWhom
  <2> QED
    BY <1>10, <2>2, <2>5, <2>6, <2>7, <2>8
<1> QED
  BY <1>12, <1>13, <1>14

\* Every step keeps Inv.
LEMMA NextInv == Inv /\ [Next]_vars => Inv'
<1> SUFFICES ASSUME Inv, [Next]_vars PROVE Inv'
  OBVIOUS
<1>1. CASE UNCHANGED vars
  <2> USE <1>1 DEF vars, Inv
  <2>1. TypeOK'
    BY DEF TypeOK
  <2>2. Trusted' /\ AnswerMeans' /\ KnowsWhom'
    BY DEF Trusted, AnswerMeans, KnowsWhom
  <2>3. Waiting'
    BY DEF Waiting
  <2>4. Once' /\ Expected'
    BY DEF Once, Expected
  <2> QED
    BY <2>1, <2>2, <2>3, <2>4
<1>2. CASE Next
  <2>1. ASSUME NEW c \in Clients, Connect(c) PROVE Inv'
    BY <2>1, ConnectInv
  <2>2. ASSUME NEW c \in Clients, Disconnect(c) PROVE Inv'
    BY <2>2, DisconnectInv
  <2>3. ASSUME NEW c \in Clients, NEW r \in Uses, Ask(c, r) PROVE Inv'
    BY <2>3, AskInv
  <2>4. ASSUME NEW c \in Clients, NEW ch \in Channels, Handle(c, ch) PROVE Inv'
    BY <2>4, HandleInv
  <2> QED
    BY <1>2, <2>1, <2>2, <2>3, <2>4 DEF Next
<1> QED
  BY <1>1, <1>2

LEMMA InvAlways == Spec => []Inv
BY InitInv, NextInv, PTL DEF Spec

\* The server's view of its clients has its type, for any clients, keys and requests.
THEOREM HandlersTypeCorrect == Spec => []TypeOK
<1>1. Inv => TypeOK
  BY DEF Inv
<1> QED
  BY <1>1, InvAlways, PTL

\* handlePacket() misreads no request that was made in turn: for any clients, some of
\* them with other keys, whatever they and this client ask out of turn.
THEOREM UnderstoodTheorem == Spec => []Understood
BY InvUnderstood, InvAlways, PTL

\* No message for a request made in turn carries another user ID than that of its
\* client, neither the one the constructor of ClientInfo leaves unset nor the one that
\* a repeated key check leaves behind.
THEOREM KnowsWhomTheorem == Spec => []KnowsWhom
<1>1. Inv => KnowsWhom
  BY DEF Inv
<1> QED
  BY <1>1, InvAlways, PTL

=============================================================================
