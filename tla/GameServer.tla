----------------------------- MODULE GameServer -----------------------------
(***************************************************************************)
(* The packet handlers of gamed, and the clients that make requests.       *)
(*                                                                         *)
(* ENet keeps the order of one channel and none between channels, so a     *)
(* request is handled when it is the oldest of its channel. What the       *)
(* server can make of it depends on the key check: packets of eight bytes  *)
(* and more are encrypted by the client, all but the key check itself,     *)
(* and decrypted by the server once the key check of the client was right. *)
(* The server does not ask in which order a client proceeds: it may ask    *)
(* for anything before its key check was answered, and repeat the check.   *)
(*                                                                         *)
(* A message of the server is its kind and the user ID it carries; the     *)
(* contents that are the same for everybody are left out. The calls of     *)
(* NetworkListener::netLoop() and the lifetime of ClientInfo are the       *)
(* subject of NetworkListener.                                             *)
(***************************************************************************)
EXTENDS Naturals, Sequences, FiniteSets

CONSTANTS
  Clients,    \* the players
  OtherKey,   \* those of them that were given another key than the server
  Uses,       \* the requests the clients make, and may be understood to make
  MaxStrays   \* bound: requests out of turn on the connections there are

VARIABLES
  open,        \* clients with a connection
  keyChecked,  \* ClientInfo::keyChecked
  userId,      \* ClientInfo::userId
  inbox,       \* the requests of a client by channel that are to be handled
  asked,       \* requests a client has made on this connection
  got          \* messages that were queued for a client on this connection

infoVars == <<open, keyChecked, userId>>
vars == <<open, keyChecked, userId, inbox, asked, got>>

\* The channels on which requests come, of enum Channel.
Channels == {"HANDSHAKE", "C2S", "COMMUNICATION", "LOADING_SCREEN"}

Requests ==
  {"KeyCheck", "GameNumberReq", "QueryStatusReq", "SynchVersion", "Ping_Load_Info", "CharLoaded",
   "ClientReady", "Loaded", "ViewReq", "AttentionPing", "MoveReq", "SkillUp", "Exit", "Click",
   "ChatBoxMessage", "OddChatMessage"}

\* The handler table: the channel for which the handler of a request is
\* registered, which is the one the client uses. An OddChatMessage is a chat
\* message that is neither to all nor to the team.
ChannelOf(r) ==
  CASE r = "KeyCheck"    -> "HANDSHAKE"
    [] r = "ClientReady" -> "LOADING_SCREEN"
    [] r \in {"ChatBoxMessage", "OddChatMessage"} -> "COMMUNICATION"
    [] OTHER -> "C2S"

\* The requests of less than eight bytes, which nobody encrypts.
Short == {"GameNumberReq", "QueryStatusReq", "CharLoaded", "SkillUp", "Exit"}

\* userId as the constructor of ClientInfo leaves it, whatever was in the memory;
\* an ID that is decrypted once too often; a command nobody handles; what a message
\* carries that is about nobody.
Unset == "unset"
Garbled == "garbled"
Unknown == "unknown"
Nobody == "nobody"

\* The messages of the server, by kind.
Kinds ==
  {"KeyCheck", "SendGameNumber", "QueryStatusAns", "SynchVersionAns", "LoadScreenInfo", "LoadName",
   "LoadHero", "HeroSpawn", "Bounds", "Turrets", "Init", "ViewAns", "ChatBoxMessage", "Lights",
   "SkillUp", "Ping_Load_Info", "AttentionPing"}

ASSUME ClientsAssumption ==
  /\ OtherKey \subseteq Clients
  /\ Uses \subseteq Requests /\ "KeyCheck" \in Uses
  /\ {Unset, Garbled, Nobody} \cap Clients = {}
  /\ MaxStrays \in Nat

\* inTurn: the client asks when the captures have it ask.
Asked == [cmd : Uses, inTurn : BOOLEAN]

\* of: the client to whose request, made in turn, this is a message; else Nobody.
Message ==
  [kind : Kinds, about : Clients \cup {Unset, Garbled, Nobody}, of : Clients \cup {Nobody}]

TypeOK ==
  /\ open \subseteq Clients
  /\ keyChecked \subseteq open
  /\ userId \in [Clients -> Clients \cup {Unset, Garbled}]
  /\ inbox \in [Clients -> [Channels -> Seq(Asked)]]
  /\ asked \in [Clients -> SUBSET Asked]
  /\ got \in [Clients -> SUBSET Message]

Init ==
  /\ open = {} /\ keyChecked = {}
  /\ userId = [c \in Clients |-> Unset]
  /\ inbox = [c \in Clients |-> [ch \in Channels |-> <<>>]]
  /\ asked = [c \in Clients |-> {}]
  /\ got = [c \in Clients |-> {}]

-----------------------------------------------------------------------------
(***************************************************************************)
(* The clients. The captures show that the key check goes first, once, and *)
(* the rest when it was answered. Nothing in the server makes a client     *)
(* keep to that, so that every request may also be made out of turn.       *)
(***************************************************************************)

FirstCheck == [cmd |-> "KeyCheck", inTurn |-> TRUE]
CheckAgain == [cmd |-> "KeyCheck", inTurn |-> FALSE]

Answered(c) == \E m \in got[c] : m.kind = "KeyCheck"

InTurn(c, r) == IF r = "KeyCheck" THEN FirstCheck \notin asked[c] ELSE Answered(c)

\* The requests out of turn that were made on the connections there are.
Strays == {s \in open \X Asked : s[2] \in asked[s[1]] /\ ~s[2].inTurn}

\* A connection sees each request once in turn and once out of turn.
Ask(c, r) ==
  LET q == [cmd |-> r, inTurn |-> InTurn(c, r)]
  IN  /\ c \in open /\ q \notin asked[c]
      /\ q.inTurn \/ Cardinality(Strays) < MaxStrays
      /\ asked' = [asked EXCEPT ![c] = @ \cup {q}]
      /\ inbox' = [inbox EXCEPT ![c][ChannelOf(r)] = Append(@, q)]
      /\ UNCHANGED <<infoVars, got>>

\* A CONNECT event: new ClientInfo(), with a name and a type and nothing else.
Connect(c) ==
  /\ c \notin open
  /\ open' = open \cup {c}
  /\ UNCHANGED <<keyChecked, userId, inbox, asked, got>>

\* The ClientInfo is deleted, with what was still to be handled or on its way.
Forget(c) ==
  /\ userId' = [userId EXCEPT ![c] = Unset]
  /\ inbox' = [inbox EXCEPT ![c] = [ch \in Channels |-> <<>>]]
  /\ asked' = [asked EXCEPT ![c] = {}]
  /\ got' = [got EXCEPT ![c] = {}]

\* Fault: that the key was right outlives the connection.
DisconnectRemembering(c) ==
  /\ c \in open
  /\ open' = open \ {c}
  /\ Forget(c)
  /\ UNCHANGED keyChecked

\* A DISCONNECT event.
Disconnect(c) ==
  /\ c \in open
  /\ open' = open \ {c}
  /\ keyChecked' = keyChecked \ {c}
  /\ Forget(c)

-----------------------------------------------------------------------------
(***************************************************************************)
(* The server reads a request.                                             *)
(***************************************************************************)

\* Fault: everything that is long enough is decrypted.
DecryptsAll(c, r) == r \notin Short

Decrypts(c, r) == r \notin Short /\ c \in keyChecked

Encrypts(r) == r \notin Short /\ r # "KeyCheck"

\* What the server may take the request for: anything, if it decrypts what is
\* not encrypted, or does not what is, or does so with another key.
Readings(c, r) ==
  IF Decrypts(c, r) = Encrypts(r) /\ (Encrypts(r) => c \notin OtherKey)
    THEN {r}
    ELSE {s \in Uses : ChannelOf(s) = ChannelOf(r)} \cup {Unknown}

-----------------------------------------------------------------------------
(***************************************************************************)
(* The handlers. Each says what is queued for the client that asked, by    *)
(* request, and the user ID that is in it.                                 *)
(***************************************************************************)

\* The messages a request gets its sender. handleMap() sends three, all about the
\* client itself; handleSpawn() the hero, the bounds and four lists of turrets.
Answers(r) ==
  CASE r = "GameNumberReq"  -> {"SendGameNumber"}
    [] r = "QueryStatusReq" -> {"QueryStatusAns"}
    [] r = "SynchVersion"   -> {"SynchVersionAns"}
    [] r = "ClientReady"    -> {"LoadScreenInfo", "LoadName", "LoadHero"}
    [] r = "CharLoaded"     -> {"HeroSpawn", "Bounds", "Turrets"}
    [] r = "Loaded"         -> {"Init"}
    [] r = "ViewReq"        -> {"ViewAns"}
    [] r = "ChatBoxMessage" -> {"ChatBoxMessage"}
    [] r = "SkillUp"        -> {"Lights", "SkillUp"}
    [] OTHER                -> {}

\* The messages a request gets everybody with a connection.
Broadcasts(r) ==
  IF r \in {"Ping_Load_Info", "AttentionPing"} THEN {r} ELSE {}

\* Those in which the handler copies userId.
CarriesUser == {"SynchVersionAns", "LoadScreenInfo", "LoadName", "LoadHero", "Ping_Load_Info"}

Messages(c, kinds, of) ==
  {[kind |-> k, about |-> IF k \in CarriesUser THEN userId[c] ELSE Nobody, of |-> of] : k \in kinds}

\* Fault: what is for everybody goes to the others only.
DeliverToOthers(c, r, of) ==
  got' = [d \in Clients |-> got[d] \cup IF d = c THEN Messages(c, Answers(r), of)
                                        ELSE IF d \in open THEN Messages(c, Broadcasts(r), of)
                                        ELSE {}]

\* What request r of c brings about, asked for by `of' in turn.
Deliver(c, r, of) ==
  got' = [d \in Clients |->
            got[d] \cup (IF d \in open THEN Messages(c, Broadcasts(r), of) ELSE {})
                   \cup (IF d = c THEN Messages(c, Answers(r), of) ELSE {})]

KeyReply(user, of) == [kind |-> "KeyCheck", about |-> user, of |-> of]

\* The user that a key check is found to be of. A check that was decrypted without
\* need is as good as before, since ID and encrypted ID are: its ID is nobody's.
FoundIn(c) == IF c \in keyChecked THEN {Garbled} ELSE {c} \ OtherKey

\* Fault: the user is not remembered.
KeyCheckForgetful(c, of) ==
  /\ \E user \in FoundIn(c) :
       /\ keyChecked' = keyChecked \cup {c}
       /\ got' = [got EXCEPT ![c] = @ \cup {KeyReply(user, of)}]
  /\ UNCHANGED <<open, userId>>

\* handleKeyCheck(): with a key that is wrong there is no answer, and nothing
\* else; the client stays connected.
KeyCheck(c, of) ==
  \/ /\ FoundIn(c) = {}
     /\ UNCHANGED <<infoVars, got>>
  \/ \E user \in FoundIn(c) :
       /\ keyChecked' = keyChecked \cup {c}
       /\ userId' = [userId EXCEPT ![c] = user]
       /\ got' = [got EXCEPT ![c] = @ \cup {KeyReply(user, of)}]
       /\ UNCHANGED open

\* Of a client that has repeated its key check nothing is expected any more.
For(c, q) == IF q.inTurn /\ CheckAgain \notin asked[c] THEN c ELSE Nobody

\* handlePacket() with the oldest request of a channel, and its handler.
Handle(c, ch) ==
  /\ c \in open /\ inbox[c][ch] # <<>>
  /\ inbox' = [inbox EXCEPT ![c][ch] = Tail(@)]
  /\ LET q == Head(inbox[c][ch])
     IN \E taken \in Readings(c, q.cmd) :
          IF taken = "KeyCheck" THEN KeyCheck(c, For(c, q))
                                ELSE Deliver(c, taken, For(c, q)) /\ UNCHANGED infoVars
  /\ UNCHANGED asked

Next ==
  \/ \E c \in Clients :
       \/ Connect(c) \/ Disconnect(c)
       \/ \E r \in Uses : Ask(c, r)
       \/ \E ch \in Channels : Handle(c, ch)

Spec == Init /\ [][Next]_vars

\* netLoop() hands over what has arrived; clients make their requests and
\* leave when they like.
FairSpec == Spec /\ \A c \in Clients : WF_vars(\E ch \in Channels : Handle(c, ch))

-----------------------------------------------------------------------------
(***************************************************************************)
(* Properties.                                                             *)
(***************************************************************************)

\* handlePacket() takes what is asked in turn for what the client meant, although the
\* key check and the rest come on different channels, and whatever else this client and
\* others have asked out of turn before, between and after it: nothing is decrypted that
\* was not encrypted, and nothing that was is left as it is. Only a request that did not
\* wait for the answer, or a key check that is repeated, may be misread.
Understood ==
  \A c \in Clients, ch \in Channels : \A i \in DOMAIN inbox[c][ch] :
    LET q == inbox[c][ch][i] IN q.inTurn => Readings(c, q.cmd) = {q.cmd}

\* A message for a request that was made in turn carries the user ID of the client that
\* made it, if any, to whomever it is sent. The ID that the constructor leaves unset, and
\* that of a repeated key check, go out only on behalf of clients that asked too early or
\* checked twice, on the first connection or on a later one.
KnowsWhom ==
  \A c \in Clients : \A m \in got[c] : m.of # Nobody => m.about \in {m.of, Nobody}

\* The messages that a client waits for, by the names of PacketCmd.
Replies(r) == IF r = "KeyCheck" THEN {"KeyCheck"} ELSE Answers(r) \cup Broadcasts(r)

\* A client whose key is right gets every message it waits for, if it asks in turn and
\* checks its key once, unless its connection ends: no request is taken for another one
\* on the way, and none is kept back by those of clients that are not served.
Served ==
  \A c \in Clients \ OtherKey, r \in Uses :
    []<>(\/ c \notin open \/ CheckAgain \in asked[c]
         \/ [cmd |-> r, inTurn |-> TRUE] \in asked[c] =>
              \A k \in Replies(r) : \E m \in got[c] : m.kind = k /\ m.of = c)

=============================================================================
