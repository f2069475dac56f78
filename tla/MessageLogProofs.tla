-------------------------- MODULE MessageLogProofs --------------------------
(***************************************************************************)
(* Theorems about MessageLog, for any channels, peers, clients, backlog,   *)
(* limit of the poll and number of messages.                               *)
(***************************************************************************)
EXTENDS MessageLog, MessagePagesProofs

-----------------------------------------------------------------------------
(* The lists.                                                              *)

(* The lists have their type, and an id names one place of one list.       *)
LogInv ==
    /\ counter \in 0..MaxId
    /\ DOMAIN log \subseteq Keys
    /\ \A k \in DOMAIN log : log[k] \in Seq(Message) /\ Len(log[k]) <= Backlog
    /\ \A k \in DOMAIN log : \A i \in DOMAIN log[k] : log[k][i].id <= counter
    /\ \A j, k \in DOMAIN log : \A a \in DOMAIN log[j], b \in DOMAIN log[k] :
          log[j][a].id = log[k][b].id => j = k /\ a = b

(* What a step does to the lists: messages go, and those that come are new.*)
OnlyNewOnes ==
    /\ counter <= counter'
    /\ \A k \in Keys : \A m \in Range(Stored(k))' :
          m \in Range(Stored(k)) \/ m.id > counter

(* A message has a number for an id.                                       *)
LEMMA MessageIs ==
    /\ MaxId \in Nat /\ Backlog \in Nat \ {0}
    /\ \A m \in Message : m.id \in Nat /\ m.id \in Ids /\ m.meta \in BOOLEAN
BY LogAssumption DEF Message, Ids

(* What is stored under a key, if anything.                                *)
LEMMA StoredIs ==
    ASSUME LogInv, NEW k
    PROVE  /\ Stored(k) \in Seq(Message) /\ Len(Stored(k)) <= Backlog
           /\ \A i \in DOMAIN Stored(k) : Stored(k)[i].id <= counter
           /\ k \notin DOMAIN log => Stored(k) = <<>>
<1>1. CASE k \in DOMAIN log
  BY <1>1 DEF LogInv, Stored
<1>2. CASE k \notin DOMAIN log
  <2>1. Stored(k) = <<>>
    BY <1>2 DEF Stored
  <2>2. <<>> \in Seq(Message) /\ Len(<<>>) = 0 /\ DOMAIN <<>> = {}
    OBVIOUS
  <2> QED
    BY <1>2, <2>1, <2>2, MessageIs
<1> QED
  BY <1>1, <1>2

(* The view of a conversation holds its messages and the notes of the      *)
(* network, in the order of their ids.                                     *)
LEMMA ViewIs ==
    ASSUME LogInv, NEW t
    PROVE  /\ View(t) \in Seq(Message) /\ Ordered(View(t))
           /\ Range(View(t)) = Range(Stored(t)) \cup Range(Stored(Meta))
           /\ IdsIn(View(t)) =
                 {m.id : m \in Range(Stored(t)) \cup Range(Stored(Meta))}
           /\ \A id \in IdsIn(View(t)) : id \in Ids /\ id <= counter
<1> DEFINE all == Range(Stored(t)) \cup Range(Stored(Meta))
<1>1. /\ Stored(t) \in Seq(Message) /\ Stored(Meta) \in Seq(Message)
      /\ \A i \in DOMAIN Stored(t) : Stored(t)[i].id <= counter
      /\ \A i \in DOMAIN Stored(Meta) : Stored(Meta)[i].id <= counter
  BY StoredIs
<1>2. all \subseteq Message /\ \A m \in all : m.id <= counter
  BY <1>1 DEF Range
<1>3. Identified(all)
  <2>1. ASSUME NEW m \in all, NEW n \in all, m.id = n.id
        PROVE  m = n
    <3>1. PICK j \in {t, Meta} : \E a \in DOMAIN Stored(j) : m = Stored(j)[a]
      BY DEF Range
    <3>2. PICK k \in {t, Meta} : \E b \in DOMAIN Stored(k) : n = Stored(k)[b]
      BY DEF Range
    <3>3. /\ j \in DOMAIN log /\ Stored(j) = log[j]
          /\ k \in DOMAIN log /\ Stored(k) = log[k]
      <4>1. DOMAIN <<>> = {}
        OBVIOUS
      <4> QED
        BY <3>1, <3>2, <4>1 DEF Stored
    <3> QED
      BY <2>1, <3>1, <3>2, <3>3 DEF LogInv
  <2> HIDE DEF all
  <2> QED
    BY <1>2, <2>1, MessageIs DEF Identified
<1>4. /\ View(t) \in Seq(all) /\ Range(View(t)) = all /\ Ordered(View(t))
  BY <1>1, <1>3, MergedIs DEF View
<1> HIDE DEF all
<1>5. View(t) \in Seq(Message)
  BY <1>2, <1>4
<1>6. IdsIn(View(t)) = {m.id : m \in all}
  BY <1>4 DEF IdsIn, Range
<1> QED
  BY <1>2, <1>4, <1>5, <1>6, MessageIs DEF all

(* Steps that store nothing: lists are created empty, or removed.          *)
LEMMA NothingStored ==
    ASSUME LogInv, counter' = counter, DOMAIN log' \subseteq Keys,
           \A k \in DOMAIN log' : log'[k] = Stored(k)
    PROVE  LogInv' /\ OnlyNewOnes
<1>1. \A k \in DOMAIN log' :
          /\ Stored(k) \in Seq(Message) /\ Len(Stored(k)) <= Backlog
          /\ \A i \in DOMAIN Stored(k) : Stored(k)[i].id <= counter
          /\ k \notin DOMAIN log => Stored(k) = <<>>
  BY StoredIs
<1>2. DOMAIN <<>> = {}
  OBVIOUS
<1>3. ASSUME NEW j \in DOMAIN log', NEW k \in DOMAIN log',
             NEW a \in DOMAIN log'[j], NEW b \in DOMAIN log'[k],
             log'[j][a].id = log'[k][b].id
      PROVE  j = k /\ a = b
  <2>1. /\ j \in DOMAIN log /\ log'[j] = log[j]
        /\ k \in DOMAIN log /\ log'[k] = log[k]
    BY <1>1, <1>2 DEF Stored
  <2> QED
    BY <1>3, <2>1 DEF LogInv
<1>4. LogInv'
  BY <1>1, <1>3 DEF LogInv
<1>5. ASSUME NEW k \in Keys
      PROVE  Range(Stored(k))' \subseteq Range(Stored(k))
  BY <1>2 DEF Stored, Range
<1>6. counter <= counter'
  BY DEF LogInv
<1> QED
  BY <1>4, <1>5, <1>6 DEF OnlyNewOnes

(* A list that gets a message keeps some of its newest ones.               *)
LEMMA AppendedIs ==
    ASSUME NEW msgs \in Seq(Message), NEW m \in Message
    PROVE  /\ Appended(msgs, m) \in Seq(Message)
           /\ Len(Appended(msgs, m)) <= Backlog
           /\ \E cut \in Nat :
                 /\ Len(Appended(msgs, m)) = Len(msgs) + 1 - cut
                 /\ \A i \in DOMAIN Appended(msgs, m) :
                       \/ /\ cut + i \in DOMAIN msgs
                          /\ Appended(msgs, m)[i] = msgs[cut + i]
                       \/ /\ cut + i = Len(msgs) + 1
                          /\ Appended(msgs, m)[i] = m
<1> DEFINE all == Append(msgs, m)
           cut == IF Len(all) > Backlog THEN Len(all) - Backlog ELSE 0
           new == Appended(msgs, m)
<1>1. /\ all \in Seq(Message) /\ Len(all) = Len(msgs) + 1
      /\ Len(msgs) \in Nat /\ DOMAIN msgs = 1..Len(msgs)
      /\ \A i \in DOMAIN msgs : all[i] = msgs[i]
      /\ all[Len(msgs) + 1] = m
  BY AppendProperties
<1>2. Backlog \in Nat
  BY MessageIs
<1> HIDE DEF all
<1>3. /\ new \in Seq(Message) /\ Len(new) = Len(all) - cut
      /\ \A i \in 1..(Len(all) - cut) : new[i] = all[cut + i]
  BY <1>1, <1>2, NewestIs DEF Appended, all
<1>4. cut \in Nat /\ cut <= Len(all) /\ Len(all) - cut <= Backlog
  BY <1>1, <1>2
<1> HIDE DEF cut, new
<1>5. ASSUME NEW i \in DOMAIN new
      PROVE  \/ cut + i \in DOMAIN msgs /\ new[i] = msgs[cut + i]
             \/ cut + i = Len(msgs) + 1 /\ new[i] = m
  <2>1. i \in 1..(Len(all) - cut)
    BY <1>3
  <2>2. cut + i \in 1..(Len(msgs) + 1) /\ new[i] = all[cut + i]
    BY <1>1, <1>3, <1>4, <2>1
  <2>3. cut + i \in DOMAIN msgs \/ cut + i = Len(msgs) + 1
    BY <1>1, <1>4, <2>2
  <2> QED
    BY <1>1, <2>2, <2>3
<1>6. Len(new) = Len(msgs) + 1 - cut
  <2>1. Len(new) = Len(all) - cut /\ Len(all) = Len(msgs) + 1
    BY <1>1, <1>3
  <2> QED
    BY <1>1, <1>4, <2>1
<1> QED
  BY <1>3, <1>4, <1>5, <1>6 DEF new

(* A message that is stored has an id that no list has.                    *)
LEMMA StoreIs ==
    ASSUME LogInv, NEW k \in Keys, NEW meta \in BOOLEAN, NEW hit \in BOOLEAN,
           Store(k, meta, hit)
    PROVE  LogInv' /\ OnlyNewOnes /\ counter' = counter + 1
<1> DEFINE m == [id |-> counter + 1, meta |-> meta, hit |-> hit]
           new == Appended(Stored(k), m)
<1>1. /\ counter \in Nat /\ counter + 1 \in 0..MaxId /\ counter + 1 \in Ids
      /\ counter' = counter + 1
  BY MessageIs DEF Store, LogInv, Ids
<1>2. m \in Message /\ m.id = counter + 1
  BY <1>1 DEF Message
<1>3. log' = [j \in DOMAIN log \cup {k} |-> IF j = k THEN new ELSE log[j]]
  BY <1>1 DEF Store
<1> HIDE DEF m
<1>4. /\ Stored(k) \in Seq(Message)
      /\ \A i \in DOMAIN Stored(k) : Stored(k)[i].id <= counter
      /\ k \notin DOMAIN log => Stored(k) = <<>>
  BY StoredIs
<1>5. /\ new \in Seq(Message) /\ Len(new) <= Backlog
      /\ \E cut \in Nat : \A i \in DOMAIN new :
            \/ cut + i \in DOMAIN Stored(k) /\ new[i] = Stored(k)[cut + i]
            \/ cut + i = Len(Stored(k)) + 1 /\ new[i] = m
  BY <1>2, <1>4, AppendedIs
<1> HIDE DEF new
<1>6. PICK cut \in Nat : \A i \in DOMAIN new :
          \/ cut + i \in DOMAIN Stored(k) /\ new[i] = Stored(k)[cut + i]
          \/ cut + i = Len(Stored(k)) + 1 /\ new[i] = m
  BY <1>5
<1>7. /\ DOMAIN log' = DOMAIN log \cup {k} /\ log'[k] = new
      /\ \A j \in DOMAIN log \ {k} : log'[j] = log[j]
  BY <1>3
<1>8. k \in DOMAIN log => Stored(k) = log[k]
  BY DEF Stored
<1>9. DOMAIN <<>> = {}
  OBVIOUS
<1>10. \A i \in DOMAIN new : i \in Nat
  BY <1>5
(* Every message is the new one, or was there and has moved forward.       *)
<1>11. ASSUME NEW j \in DOMAIN log', NEW a \in DOMAIN log'[j]
       PROVE  \/ /\ j \in DOMAIN log
                 /\ IF j = k THEN cut + a \in DOMAIN log[j]
                                  /\ log'[j][a] = log[j][cut + a]
                    ELSE a \in DOMAIN log[j] /\ log'[j][a] = log[j][a]
              \/ j = k /\ cut + a = Len(Stored(k)) + 1 /\ log'[j][a] = m
  BY <1>4, <1>6, <1>7, <1>8, <1>9
<1>12. \A j \in DOMAIN log : \A i \in DOMAIN log[j] :
           log[j][i].id \in Nat /\ log[j][i].id <= counter
  BY MessageIs DEF LogInv
<1>13. LogInv'
  <2>1. DOMAIN log' \subseteq Keys
    BY <1>7 DEF LogInv
  <2>2. \A j \in DOMAIN log' :
            log'[j] \in Seq(Message) /\ Len(log'[j]) <= Backlog
    BY <1>5, <1>7 DEF LogInv
  <2>3. \A j \in DOMAIN log' : \A i \in DOMAIN log'[j] :
            log'[j][i].id <= counter'
    BY <1>1, <1>2, <1>11, <1>12
  <2>4. ASSUME NEW i \in DOMAIN log', NEW j \in DOMAIN log',
               NEW a \in DOMAIN log'[i], NEW b \in DOMAIN log'[j],
               log'[i][a].id = log'[j][b].id
        PROVE  i = j /\ a = b
    <3>1. a \in Nat /\ b \in Nat
      BY <2>2
    <3>2. CASE log'[i][a] = m
      <4>1. log'[j][b].id = counter + 1
        BY <1>2, <2>4, <3>2
      <4>2. \A l \in DOMAIN log : \A c \in DOMAIN log[l] :
                log[l][c].id # counter + 1
        BY <1>1, <1>12
      <4>3. /\ i = k /\ cut + a = Len(Stored(k)) + 1
            /\ j = k /\ cut + b = Len(Stored(k)) + 1
        BY <1>2, <1>11, <2>4, <3>2, <4>1, <4>2
      <4>4. a = b
        BY <3>1, <4>3
      <4> QED
        BY <4>3, <4>4
    <3>3. CASE log'[j][b] = m
      <4>1. log'[i][a].id = counter + 1
        BY <1>2, <2>4, <3>3
      <4>2. \A l \in DOMAIN log : \A c \in DOMAIN log[l] :
                log[l][c].id # counter + 1
        BY <1>1, <1>12
      <4>3. log'[i][a] = m
        BY <1>11, <4>1, <4>2
      <4> QED
        BY <3>2, <4>3
    <3>4. CASE log'[i][a] # m /\ log'[j][b] # m
      <4>1. /\ i \in DOMAIN log
            /\ IF i = k THEN cut + a \in DOMAIN log[i]
                             /\ log'[i][a] = log[i][cut + a]
               ELSE a \in DOMAIN log[i] /\ log'[i][a] = log[i][a]
        BY <1>11, <3>4
      <4>2. /\ j \in DOMAIN log
            /\ IF j = k THEN cut + b \in DOMAIN log[j]
                             /\ log'[j][b] = log[j][cut + b]
               ELSE b \in DOMAIN log[j] /\ log'[j][b] = log[j][b]
        BY <1>11, <3>4
      <4>3. i = j /\ (a = b \/ cut + a = cut + b)
        BY <2>4, <4>1, <4>2 DEF LogInv
      <4> QED
        BY <3>1, <4>3
    <3> QED
      BY <3>2, <3>3, <3>4
  <2> QED
    BY <1>1, <2>1, <2>2, <2>3, <2>4 DEF LogInv
<1>14. ASSUME NEW j \in Keys, NEW x \in Range(Stored(j))'
       PROVE  x \in Range(Stored(j)) \/ x.id > counter
  <2>1. PICK a \in DOMAIN Stored(j)' : x = Stored(j)'[a]
    BY DEF Range
  <2>2. j \in DOMAIN log' /\ a \in DOMAIN log'[j] /\ x = log'[j][a]
    BY <2>1, <1>9 DEF Stored
  <2>3. CASE x = m
    BY <1>1, <1>2, <2>3
  <2>4. CASE x # m
    <3>1. /\ j \in DOMAIN log
          /\ \E c \in DOMAIN log[j] : x = log[j][c]
      BY <1>11, <2>2, <2>4
    <3> QED
      BY <3>1 DEF Stored, Range
  <2> QED
    BY <2>3, <2>4
<1> QED
  BY <1>1, <1>13, <1>14 DEF OnlyNewOnes

(* A step stores one message, or creates and removes lists.                *)
StoresOne ==
    \E k \in Keys, meta \in BOOLEAN, hit \in BOOLEAN : Store(k, meta, hit)

StoresNone ==
    /\ counter' = counter /\ DOMAIN log' \subseteq Keys
    /\ \A k \in DOMAIN log' : log'[k] = Stored(k)

(* What is known of the messages that are on their way.                     *)
SendingOK ==
    /\ DOMAIN sending \subseteq Senders
    /\ \A s \in DOMAIN sending : sending[s] \in [to : Targets, current : BOOLEAN]

(* Whoever stores a message, it is one in one of the lists.                *)
LEMMA StoreMessageIs ==
    ASSUME SendingOK, StoreMessage
    PROVE  /\ StoresOne
           /\ UNCHANGED <<exists, clientVars, reader>>
<1>1. /\ Targets \subseteq Keys /\ Meta \in Keys /\ Channels \subseteq Targets
      /\ TRUE \in BOOLEAN /\ FALSE \in BOOLEAN
  BY DEF Keys, Targets
<1>2. \A s \in DOMAIN sending : sending[s].to \in Targets
  BY DEF SendingOK
<1>3. PICK k \in Keys, meta \in BOOLEAN, hit \in BOOLEAN : Store(k, meta, hit)
  BY <1>1, <1>2
     DEF StoreMessage, SendStores, MessageArrives, EventStores, NetworkNote,
         ChannelNote, OwnJoin, OwnPart, OwnKick
<1> QED
  BY <1>3 DEF StoresOne, Store

(* A request that begins or fails to send changes nothing but itself.      *)
LEMMA SendRequestIs ==
    ASSUME NEW s \in Senders,
           SendFails(s) \/ \E t \in Targets : SendBegins(s, t)
    PROVE  UNCHANGED <<counter, exists, channels, log, clientVars, reader>>
BY DEF SendFails, SendBegins

(* The messages on their way keep their type.                              *)
LEMMA SendingStep ==
    ASSUME SendingOK, [Next]_vars
    PROVE  SendingOK'
<1>1. ASSUME UNCHANGED sending
      PROVE  SendingOK'
  BY <1>1 DEF SendingOK
<1>2. ASSUME NEW s, SendEnds(s)
      PROVE  SendingOK'
  <2>1. /\ DOMAIN sending' = DOMAIN sending \ {s}
        /\ \A r \in DOMAIN sending' : sending'[r] = sending[r]
    BY <1>2 DEF SendEnds
  <2> QED
    BY <2>1 DEF SendingOK
<1>3. ASSUME NEW s \in Senders, NEW t \in Targets, SendBegins(s, t)
      PROVE  SendingOK'
  <2>1. /\ DOMAIN sending' = DOMAIN sending \cup {s}
        /\ \A r \in DOMAIN sending' :
              sending'[r] = IF r = s THEN [to |-> t, current |-> TRUE]
                            ELSE sending[r]
    BY <1>3 DEF SendBegins
  <2>2. [to |-> t, current |-> TRUE] \in [to : Targets, current : BOOLEAN]
    OBVIOUS
  <2> QED
    BY <2>1, <2>2 DEF SendingOK
<1>4. CASE DeleteNetwork
  <2>1. /\ DOMAIN sending' = DOMAIN sending
        /\ \A r \in DOMAIN sending' :
              sending'[r] = [sending[r] EXCEPT !.current = FALSE]
    BY <1>4 DEF DeleteNetwork
  <2> QED
    BY <2>1 DEF SendingOK
<1>5. CASE StoreMessage
  BY <1>1, <1>2, <1>5
     DEF StoreMessage, SendStores, MessageArrives, EventStores, NetworkNote,
         ChannelNote, OwnJoin, OwnPart, OwnKick
<1>6. CASE ClientRequest
  BY <1>1, <1>2, <1>3, <1>6
     DEF ClientRequest, SendFails, CloseQuery, OpenConversation, GetSession,
         PutSession, Poll, CatchUp, NextPage, StopReading, storeVars
<1> QED
  BY <1>1, <1>4, <1>5, <1>6 DEF Next, CreateNetwork, vars

(* Every step does one or the other.                                       *)
LEMMA StepStores ==
    ASSUME TypeOK, LogInv, [Next]_vars
    PROVE  StoresOne \/ StoresNone
<1> DEFINE Good == StoresOne \/ StoresNone
<1>1. DOMAIN log \subseteq Keys /\ Meta \in Keys /\ Targets \subseteq Keys
      /\ Channels \subseteq Targets /\ Peers \subseteq Targets
  BY DEF LogInv, Keys, Targets
<1>2. ASSUME UNCHANGED <<counter, log>>
      PROVE  Good
  <2>1. \A k \in DOMAIN log' : log'[k] = Stored(k)
    BY <1>2 DEF Stored
  <2> QED
    BY <1>1, <1>2, <2>1 DEF StoresNone
<1>3. ASSUME counter' = counter, NEW t \in Targets, log' = Touched(t)
      PROVE  Good
  <2>1. /\ DOMAIN log' = DOMAIN log \cup {t, Meta}
        /\ \A k \in DOMAIN log' : log'[k] = Stored(k)
    BY <1>3 DEF Touched
  <2> QED
    BY <1>1, <1>3, <2>1 DEF StoresNone
<1>4. CASE DeleteNetwork
  <2>1. counter' = counter /\ DOMAIN log' = {}
    BY <1>4 DEF DeleteNetwork
  <2> QED
    BY <2>1 DEF StoresNone
<1>5. ASSUME NEW p \in Peers, CloseQuery(p)
      PROVE  Good
  <2>1. counter' = counter /\ log' = [k \in DOMAIN log \ {p} |-> log[k]]
    BY <1>5 DEF CloseQuery
  <2>2. /\ DOMAIN log' \subseteq Keys
        /\ \A k \in DOMAIN log' : log'[k] = Stored(k)
    BY <1>1, <2>1 DEF Stored
  <2> QED
    BY <2>1, <2>2 DEF StoresNone
<1>6. ASSUME NEW u \in Clients, Poll(u)
      PROVE  Good
  <2>1. /\ counter' = counter
        /\ log' = [k \in DOMAIN log \cup (Polled \cap Channels) |-> Stored(k)]
    BY <1>6 DEF Poll
  <2>2. /\ DOMAIN log' \subseteq Keys
        /\ \A k \in DOMAIN log' : log'[k] = Stored(k)
    BY <1>1, <2>1
  <2> QED
    BY <2>1, <2>2 DEF StoresNone
<1>7. CASE StoreMessage
  <2>1. SendingOK
    BY DEF TypeOK, SendingOK
  <2> QED
    BY <1>7, <2>1, StoreMessageIs
<1>8. ASSUME NEW u \in Clients, NEW t \in Targets, OpenConversation(u, t)
      PROVE  Good
  BY <1>3, <1>8 DEF OpenConversation
<1>9. ASSUME NEW t \in Targets, NEW limit, NEW last, CatchUp(t, limit, last)
      PROVE  Good
  BY <1>3, <1>9 DEF CatchUp
<1>10. CASE NextPage
  <2>1. reader.pc = "reading" /\ log' = Touched(reader.target)
        /\ counter' = counter
    BY <1>10 DEF NextPage
  <2>2. reader.target \in Targets
    BY <2>1 DEF TypeOK, Readers, NobodyReads
  <2> QED
    BY <1>3, <2>1, <2>2
<1>11. ASSUME \/ CreateNetwork \/ StopReading \/ UNCHANGED vars
              \/ \E u \in Clients : GetSession(u) \/ PutSession(u)
              \/ \E s \in Senders :
                    SendFails(s) \/ \E t \in Targets : SendBegins(s, t)
       PROVE  Good
  BY <1>2, <1>11, SendRequestIs
     DEF CreateNetwork, StopReading, vars, storeVars, clientVars, GetSession,
         PutSession
<1> QED
  BY <1>4, <1>5, <1>6, <1>7, <1>8, <1>9, <1>10, <1>11
     DEF Next, ClientRequest

(* No step changes the type of the lists, and only new messages come.      *)
LEMMA ListsStep ==
    ASSUME TypeOK, LogInv, [Next]_vars
    PROVE  LogInv' /\ OnlyNewOnes
<1>1. CASE StoresNone
  BY <1>1, NothingStored DEF StoresNone
<1>2. CASE StoresOne
  BY <1>2, StoreIs DEF StoresOne
<1> QED
  BY <1>1, <1>2, StepStores

-----------------------------------------------------------------------------
(* Catching up.                                                            *)

(* A client that receives a page has all that was due from the first       *)
(* message of the page on, if it had all from the end of the page on; and  *)
(* when there is no more it has all that was due.                          *)
LEMMA ReceivedIs ==
    ASSUME LogInv, NEW t, NEW r \in Readers, NEW before \in Nat
    PROVE  LET new == Received(Page(View(t), r.limit, before, r.last), r)
               due == r.due \cap IdsIn(View(t))
           IN  /\ new \in Readers
               /\ new.target = r.target /\ new.last = r.last
               /\ new.due = r.due
               /\ /\ \A id \in due : id > r.last
                  /\ before # 0 =>
                        \A id \in due : id >= before => id \in r.got
                  => \A id \in due :
                        new.pc = "done" \/ id >= new.oldest => id \in new.got
<1> DEFINE page == Page(View(t), r.limit, before, r.last)
           new == Received(page, r)
           due == r.due \cap IdsIn(View(t))
           all == View(t)
<1>1. /\ all \in Seq(Message) /\ Ordered(all)
      /\ \A id \in IdsIn(all) : id \in Ids
  BY ViewIs
<1>2. r.limit \in Nat \ {0} /\ r.last \in Nat
  <2>1. r.limit \in PageLimits /\ r.last \in Ids
    BY DEF Readers
  <2>2. r.limit \in Nat \ {0}
    BY <2>1, LogAssumption
  <2>3. r.last \in Nat
    BY <2>1, MessageIs DEF Ids
  <2> QED
    BY <2>2, <2>3
<1>3. /\ Len(all) \in Nat /\ DOMAIN all = 1..Len(all)
      /\ \A i \in 1..Len(all) : all[i].id \in Nat /\ all[i].id \in Ids
      /\ \A m \in Message : m.id \in Nat
      /\ 0 \notin Ids /\ \A id \in Ids : id \in Nat
  BY <1>1, MessageIs DEF Ids
<1> HIDE DEF all
<1>4. PICK lo, hi \in 0..Len(all) :
          /\ lo <= hi
          /\ page.messages \in Seq(Message)
          /\ Len(page.messages) = hi - lo
          /\ \A i \in 1..(hi - lo) : page.messages[i] = all[lo + i]
          /\ page.has_more \in BOOLEAN
          /\ page.has_more => lo < hi
          /\ \A i \in (hi + 1)..Len(all) :
                /\ all[i].id >= before
                /\ \E j \in DOMAIN all : all[j].id = before
          /\ ~page.has_more => \A i \in 1..lo : all[i].id <= r.last
  <2> DEFINE limit == r.limit
             last == r.last
  <2>1. page = Page(all, limit, before, last) /\ last = r.last
    BY DEF all
  <2>2. limit \in Nat \ {0} /\ last \in Nat
    BY <1>2
  <2> HIDE DEF page, limit, last
  <2>3. all \in Seq(Message) /\ Ordered(all) /\ \A m \in Message : m.id \in Nat
    BY <1>1, MessageIs
  <2>4. IsPage(page, Message, all, before, last)
    BY <2>1, <2>2, <2>3, PageIs
  <2> QED
    BY <2>1, <2>4 DEF IsPage
<1> HIDE DEF page
<1> DEFINE pc == IF page.has_more THEN "reading" ELSE "done"
           oldest == IF page.messages = <<>> THEN r.oldest
                     ELSE Head(page.messages).id
           got == r.got \cup IdsIn(page.messages)
<1>5. new = [r EXCEPT !.pc = pc, !.oldest = oldest, !.got = got]
  BY DEF Received
<1>6. \A id \in IdsIn(page.messages) : id \in Ids
  BY <1>4, MessageIs DEF IdsIn
<1>7. page.messages # <<>> =>
         /\ lo < hi /\ oldest = all[lo + 1].id /\ oldest \in Ids
  <2> SUFFICES ASSUME page.messages # <<>>
               PROVE  lo < hi /\ oldest = all[lo + 1].id /\ oldest \in Ids
    OBVIOUS
  <2>1. Len(page.messages) # 0 /\ Head(page.messages) = page.messages[1]
    BY <1>4
  <2>2. lo < hi /\ 1 \in 1..(hi - lo) /\ lo + 1 \in 1..Len(all)
    BY <1>3, <1>4, <2>1
  <2>3. oldest = all[lo + 1].id
    BY <1>4, <2>1, <2>2
  <2> QED
    BY <1>3, <2>2, <2>3
<1>8. /\ pc \in {"reading", "done"} /\ oldest \in Ids \cup {0}
      /\ got \in SUBSET Ids
  BY <1>6, <1>7 DEF Readers
<1> HIDE DEF pc, oldest, got, new
<1>9. /\ new \in Readers /\ new.pc = pc /\ new.oldest = oldest
      /\ new.got = got /\ new.target = r.target /\ new.last = r.last
      /\ new.due = r.due
  BY <1>5, <1>8 DEF Readers
<1>10. ASSUME \A id \in due : id > r.last,
              before # 0 => \A id \in due : id >= before => id \in r.got,
              NEW id \in due, pc = "done" \/ id >= oldest
       PROVE  id \in got
  <2>1. PICK i \in DOMAIN all : all[i].id = id
    BY DEF IdsIn, all
  <2>2. CASE i > hi
    <3>1. i \in (hi + 1)..Len(all)
      BY <1>3, <1>4, <2>1, <2>2
    <3>2. id >= before /\ before # 0
      BY <1>3, <1>4, <2>1, <3>1
    <3> QED
      BY <1>10, <3>2 DEF got
  <2>3. CASE i > lo /\ i <= hi
    <3>1. i - lo \in 1..(hi - lo) /\ lo + (i - lo) = i
      BY <1>3, <1>4, <2>1, <2>3
    <3>2. page.messages[i - lo] = all[i] /\ i - lo \in DOMAIN page.messages
      BY <1>4, <3>1
    <3> QED
      BY <2>1, <3>2 DEF got, IdsIn
  <2>4. CASE i <= lo
    <3>1. i \in 1..lo /\ id \in Nat
      BY <1>3, <1>4, <2>1, <2>4
    <3>2. page.has_more
      BY <1>2, <1>4, <1>10, <2>1, <3>1
    <3>3. lo < hi /\ page.messages # <<>> /\ pc = "reading"
      BY <1>4, <3>2 DEF pc
    <3>4. lo + 1 \in DOMAIN all /\ i < lo + 1
      BY <1>3, <1>4, <3>1, <3>3
    <3>5. id < oldest
      BY <1>1, <1>7, <2>1, <3>3, <3>4 DEF Ordered
    <3>6. oldest \in Nat
      BY <1>3, <1>7, <3>3
    <3> QED
      BY <1>10, <3>1, <3>3, <3>5, <3>6
  <2>5. i \in Nat /\ lo \in Nat /\ hi \in Nat
    BY <1>3, <1>4
  <2> QED
    BY <2>2, <2>3, <2>4, <2>5
<1>11. /\ new \in Readers /\ new.target = r.target /\ new.last = r.last
       /\ new.due = r.due
       /\ /\ \A id \in due : id > r.last
          /\ before # 0 => \A id \in due : id >= before => id \in r.got
          => \A id \in due :
                new.pc = "done" \/ id >= new.oldest => id \in new.got
  BY <1>9, <1>10
<1> QED
  BY <1>11 DEF new, page

-----------------------------------------------------------------------------
(* Types.                                                                  *)

(* The joins, parts and kicks leave flags of channels.                     *)
ChannelsOK ==
    /\ DOMAIN channels \subseteq Channels
    /\ \A c \in DOMAIN channels : channels[c] \in BOOLEAN

(* The ids of the items that the poll has for a conversation.              *)
ItemIds(items, t) == {x.id : x \in {y \in items : y.target = t}}

(* An item of the poll is a message of a conversation that was polled.     *)
LEMMA ItemIs ==
    ASSUME NEW p, NEW x \in PollItems(p)
    PROVE  /\ x.target \in Polled /\ p[x.target] # 0
           /\ \E m \in Range(Stored(x.target)) : x.id = m.id
<1>1. PICK t \in Polled :
          x \in {[target |-> t, id |-> m.id] : m \in Since(Stored(t), p[t])}
  BY DEF PollItems, FirstItems
<1>2. PICK m \in Since(Stored(t), p[t]) : x = [target |-> t, id |-> m.id]
  BY <1>1
<1>3. x.target = t /\ x.id = m.id
  BY <1>2
<1>4. p[t] # 0 /\ m \in Range(Stored(t))
  BY <1>2 DEF Since
<1> QED
  BY <1>1, <1>3, <1>4

(* The ids that are stored, and those of the items, are ids.               *)
LEMMA IdsAreIds ==
    ASSUME LogInv
    PROVE  /\ \A k : \A m \in Range(Stored(k)) :
                 m \in Message /\ m.id \in Ids /\ m.id <= counter
           /\ \A k : IdsIn(Stored(k)) \subseteq Ids
           /\ \A p : \A x \in PollItems(p) : x.id \in Ids /\ x.id <= counter
<1>1. ASSUME NEW k, NEW i \in DOMAIN Stored(k)
      PROVE  /\ Stored(k)[i] \in Message /\ Stored(k)[i].id \in Ids
             /\ Stored(k)[i].id <= counter
  BY StoredIs, MessageIs
<1>2. \A k : \A m \in Range(Stored(k)) :
          m \in Message /\ m.id \in Ids /\ m.id <= counter
  BY <1>1 DEF Range
<1>3. \A k : IdsIn(Stored(k)) \subseteq Ids
  BY <1>1 DEF IdsIn
<1>4. \A p : \A x \in PollItems(p) : x.id \in Ids /\ x.id <= counter
  BY <1>2, ItemIs
<1> QED
  BY <1>2, <1>3, <1>4

(* Where the poll moves a pointer to: the last item of the conversation.   *)
LEMMA AdvancedIs ==
    ASSUME LogInv, NEW p, NEW t, ItemIds(PollItems(p), t) # {}
    PROVE  /\ Max(ItemIds(PollItems(p), t)) \in ItemIds(PollItems(p), t)
           /\ Max(ItemIds(PollItems(p), t)) \in Ids
           /\ Max(ItemIds(PollItems(p), t)) <= counter
<1> DEFINE S == ItemIds(PollItems(p), t)
<1>1. \A x \in S : x \in Ids /\ x <= counter
  BY IdsAreIds DEF ItemIds
<1>2. S \in SUBSET Nat /\ counter \in Nat
  BY <1>1 DEF Ids, LogInv
<1>3. S # {}
  OBVIOUS
<1> HIDE DEF S
<1>4. Max(S) \in S
  BY <1>1, <1>2, <1>3, MaxIs
<1> QED
  BY <1>1, <1>4 DEF S

(* The channels keep their type when a message is stored.                  *)
LEMMA ChannelsStep ==
    ASSUME ChannelsOK, SendingOK, [Next]_vars
    PROVE  ChannelsOK'
<1>1. ASSUME UNCHANGED channels
      PROVE  ChannelsOK'
  BY <1>1 DEF ChannelsOK
<1>2. ASSUME channels' = <<>>
      PROVE  ChannelsOK'
  <2>1. DOMAIN <<>> = {}
    OBVIOUS
  <2> QED
    BY <1>2, <2>1 DEF ChannelsOK
<1>3. ASSUME NEW c \in Channels, NEW joined \in BOOLEAN,
             channels' = WithChannel(c, joined)
      PROVE  ChannelsOK'
  <2>1. /\ DOMAIN channels' = DOMAIN channels \cup {c}
        /\ \A d \in DOMAIN channels' :
              channels'[d] = IF d = c THEN joined ELSE channels[d]
    BY <1>3 DEF WithChannel
  <2> QED
    BY <2>1 DEF ChannelsOK
<1>4. CASE StoreMessage
  <2>1. ASSUME NEW c \in Channels, OwnKick(c)
        PROVE  ChannelsOK'
    BY <2>1 DEF OwnKick, ChannelsOK
  <2>2. ASSUME NEW t \in Targets, channels' = ChannelsWith(t)
        PROVE  ChannelsOK'
    <3>1. t \in Peers \/ t \in Channels
      BY DEF Targets
    <3> QED
      BY <1>1, <1>3, <2>2, <3>1 DEF ChannelsWith
  <2>3. \A s \in DOMAIN sending : sending[s].to \in Targets
    BY DEF SendingOK
  <2>4. ASSUME NEW s \in Senders, NEW hit \in BOOLEAN, SendStores(s, hit)
        PROVE  ChannelsOK'
    BY <1>1, <2>2, <2>3, <2>4 DEF SendStores
  <2> QED
    BY <1>1, <1>3, <1>4, <2>1, <2>2, <2>4
       DEF StoreMessage, MessageArrives, NetworkNote, ChannelNote, OwnJoin,
           OwnPart
<1> QED
  BY <1>1, <1>2, <1>4, SendRequestIs
     DEF Next, CreateNetwork, DeleteNetwork, ClientRequest, CloseQuery,
         OpenConversation, GetSession, PutSession, Poll, CatchUp, NextPage,
         StopReading, storeVars, vars

(* What the steps do to the clients that read a conversation page by page. *)
FirstReader(t, limit, last) ==
    [pc |-> "reading", target |-> t, limit |-> limit, last |-> last,
     oldest |-> 0, got |-> {}, due |-> {id \in IdsIn(View(t)) : id > last}]

(* A client begins to read as one of the readers.                          *)
LEMMA FirstReaderIs ==
    ASSUME LogInv, NEW t \in Targets, NEW limit \in PageLimits,
           NEW last \in Ids
    PROVE  /\ FirstReader(t, limit, last) \in Readers
           /\ FirstReader(t, limit, last).target = t
           /\ FirstReader(t, limit, last).limit = limit
           /\ FirstReader(t, limit, last).last = last
           /\ FirstReader(t, limit, last).due =
                 {id \in IdsIn(View(t)) : id > last}
<1>1. {id \in IdsIn(View(t)) : id > last} \subseteq Ids
  BY ViewIs
<1> QED
  BY <1>1 DEF FirstReader, Readers

(* Every step keeps the types.                                             *)
LEMMA TypeStep ==
    ASSUME TypeOK, LogInv, [Next]_vars
    PROVE  TypeOK'
<1> DEFINE Pointers == [Targets -> 0..MaxId]
<1>0. SendingOK
  BY DEF TypeOK, SendingOK
<1>1. LogInv' /\ ChannelsOK' /\ SendingOK'
  <2>1. ChannelsOK
    BY DEF TypeOK, ChannelsOK
  <2> QED
    BY <1>0, <2>1, ListsStep, ChannelsStep, SendingStep
<1>2. exists' \in BOOLEAN
  BY <1>0, StoreMessageIs, SendRequestIs
     DEF TypeOK, Next, CreateNetwork, DeleteNetwork, ClientRequest,
         CloseQuery, OpenConversation, GetSession, PutSession, Poll, CatchUp,
         NextPage, StopReading, storeVars, vars
<1>3. Ids \subseteq 0..MaxId
  BY DEF Ids
<1>4. /\ pointers \in Pointers /\ local \in [Clients -> Pointers]
      /\ shown \subseteq Ids /\ reader \in Readers \cup {NobodyReads}
  BY DEF TypeOK
<1> DEFINE Good == /\ pointers' \in Pointers
                   /\ local' \in [Clients -> Pointers]
                   /\ shown' \subseteq Ids
                   /\ reader' \in Readers \cup {NobodyReads}
<1>5. ASSUME UNCHANGED <<pointers, local, shown, reader>>
      PROVE  Good
  BY <1>4, <1>5
<1>6. ASSUME NEW u \in Clients, NEW t \in Targets, OpenConversation(u, t)
      PROVE  Good
  <2>1. View(t) # <<>> => Last(View(t)).id \in Ids
    <3>1. View(t) \in Seq(Message)
      BY ViewIs
    <3>2. View(t) # <<>> => Last(View(t)) \in Message
      BY <3>1 DEF Last
    <3> QED
      BY <3>2, MessageIs
  <2>2. IdsIn(Stored(t)) \subseteq Ids
    BY IdsAreIds
  <2>3. local' \in [Clients -> Pointers]
    BY <1>3, <1>4, <1>6, <2>1 DEF OpenConversation
  <2> QED
    BY <1>4, <1>6, <2>2, <2>3 DEF OpenConversation
<1>7. ASSUME NEW u \in Clients, GetSession(u)
      PROVE  Good
  BY <1>4, <1>7 DEF GetSession
<1>8. ASSUME NEW u \in Clients, PutSession(u)
      PROVE  Good
  BY <1>4, <1>8 DEF PutSession
<1>9. ASSUME NEW u \in Clients, Poll(u)
      PROVE  Good
  <2> DEFINE items == PollItems(local[u])
             moved == [t \in Targets |-> IF ItemIds(items, t) = {}
                                         THEN local[u][t]
                                         ELSE Max(ItemIds(items, t))]
  <2>1. moved \in Pointers
    <3>1. \A t \in Targets : ItemIds(items, t) # {} =>
              Max(ItemIds(items, t)) \in Ids
      BY AdvancedIs
    <3> QED
      BY <1>3, <1>4, <3>1
  <2>2. /\ local' = [local EXCEPT ![u] = moved]
        /\ shown' = shown \cup {x.id : x \in items}
        /\ UNCHANGED <<pointers, reader>>
    BY <1>9 DEF Poll, ItemIds
  <2>3. {x.id : x \in items} \subseteq Ids
    BY IdsAreIds
  <2> HIDE DEF moved, items
  <2> QED
    BY <1>4, <2>1, <2>2, <2>3
<1>10. ASSUME NEW t \in Targets, NEW limit \in PageLimits, NEW last \in Ids,
              CatchUp(t, limit, last)
       PROVE  Good
  <2> DEFINE first == FirstReader(t, limit, last)
  <2>1. /\ reader' = Received(Page(View(t), limit, 0, last), first)
        /\ UNCHANGED <<pointers, local, shown>>
    BY <1>10 DEF CatchUp, FirstReader, clientVars
  <2>2. first \in Readers /\ first.limit = limit /\ first.last = last
    BY FirstReaderIs
  <2> HIDE DEF first
  <2>3. Received(Page(View(t), first.limit, 0, first.last), first) \in Readers
    BY <2>2, ReceivedIs
  <2> QED
    BY <1>4, <2>1, <2>2, <2>3
<1>11. ASSUME NextPage
       PROVE  Good
  <2>1. /\ reader.pc = "reading"
        /\ reader' = Received(Page(View(reader.target), reader.limit,
                                   reader.oldest, reader.last), reader)
        /\ UNCHANGED <<pointers, local, shown>>
    BY <1>11 DEF NextPage, clientVars
  <2>2. reader \in Readers
    BY <1>4, <2>1 DEF NobodyReads
  <2>3. reader.oldest \in Nat
    BY <2>2 DEF Readers, Ids
  <2>4. reader' \in Readers
    BY <2>1, <2>2, <2>3, ReceivedIs
  <2> QED
    BY <1>4, <2>1, <2>4
<1>12. ASSUME StopReading
       PROVE  Good
  BY <1>4, <1>12 DEF StopReading, clientVars
<1>13. Good
  BY <1>0, <1>5, <1>6, <1>7, <1>8, <1>9, <1>10, <1>11, <1>12,
     StoreMessageIs, SendRequestIs
     DEF Next, CreateNetwork, DeleteNetwork, ClientRequest, CloseQuery,
         clientVars, vars
<1> QED
  BY <1>1, <1>2, <1>13 DEF TypeOK, LogInv, ChannelsOK, SendingOK

(* The empty store has its type.                                           *)
LEMMA InitTyped ==
    ASSUME Init
    PROVE  TypeOK /\ LogInv
<1>1. DOMAIN <<>> = {}
  OBVIOUS
<1>2. 0 \in 0..MaxId
  BY MessageIs
<1>3. LogInv
  BY <1>1, <1>2 DEF Init, LogInv
<1>4. NoPointers \in [Targets -> 0..MaxId]
  BY <1>2 DEF NoPointers
<1> QED
  BY <1>1, <1>2, <1>3, <1>4 DEF Init, TypeOK

(***************************************************************************)
(* Every variable keeps its type: no list is longer than the backlog, and  *)
(* a client's pointers and pages hold ids of messages that were stored.    *)
(***************************************************************************)
THEOREM TypeCorrect == Spec => []TypeOK
<1>1. Init => TypeOK /\ LogInv
  BY InitTyped
<1>2. TypeOK /\ LogInv /\ [Next]_vars => TypeOK' /\ LogInv'
  BY TypeStep, ListsStep
<1> QED
  BY <1>1, <1>2, PTL DEF Spec

-----------------------------------------------------------------------------
(* Catching up is complete.                                                *)

(* What a reader of a conversation sees: its ids and those of the notes.   *)
Visible(t) == {m.id : m \in Range(Stored(t)) \cup Range(Stored(Meta))}

(* A client has all that was due and is visible from its oldest message on.*)
ReadInv ==
    reader # NobodyReads =>
        /\ \A id \in reader.due : id > reader.last /\ id <= counter
        /\ \A id \in reader.due \cap Visible(reader.target) :
              reader.pc = "done" \/ id >= reader.oldest => id \in reader.got

(* What has been stored before stays as it is or becomes invisible.        *)
LEMMA VisibleStep ==
    ASSUME LogInv, OnlyNewOnes, NEW t \in Targets, NEW id \in Visible(t)'
    PROVE  id \in Visible(t) \/ id > counter
<1>1. t \in Keys /\ Meta \in Keys
  BY DEF Keys
<1>2. PICK k \in {t, Meta} : \E m \in Range(Stored(k))' : id = m.id
  BY DEF Visible
<1>3. PICK m \in Range(Stored(k))' : id = m.id
  BY <1>2
<1>4. m \in Range(Stored(k)) \/ m.id > counter
  BY <1>1, <1>2, <1>3 DEF OnlyNewOnes
<1> QED
  BY <1>2, <1>3, <1>4 DEF Visible

(* Storing, forgetting and deleting between two requests, and every page,  *)
(* keep it so.                                                             *)
LEMMA ReadStep ==
    ASSUME TypeOK, LogInv, ReadInv, [Next]_vars
    PROVE  ReadInv'
<1>1. OnlyNewOnes /\ counter' >= counter /\ counter \in Nat /\ counter' \in Nat
  BY ListsStep DEF OnlyNewOnes, LogInv
<1>2. reader \in Readers \cup {NobodyReads}
  BY DEF TypeOK
<1>3. ASSUME NEW r \in Readers, reader' = r,
             \A id \in r.due : id > r.last /\ id <= counter,
             \A id \in r.due \cap Visible(r.target) :
                r.pc = "done" \/ id >= r.oldest => id \in r.got
      PROVE  ReadInv'
  <2>1. r.target \in Targets /\ \A id \in r.due : id \in Nat
    BY DEF Readers, Ids
  <2>2. \A id \in r.due : id > r.last /\ id <= counter'
    BY <1>1, <1>3, <2>1
  <2>3. ASSUME NEW id \in r.due, id \in Visible(r.target)'
        PROVE  id \in Visible(r.target)
    BY <1>1, <1>3, <2>1, <2>3, VisibleStep
  <2>4. \A id \in r.due : id \in Visible(r.target)' =>
            (r.pc = "done" \/ id >= r.oldest => id \in r.got)
    BY <1>3, <2>3
  <2>5. Visible(reader.target)' = Visible(r.target)'
    BY <1>3 DEF Visible
  <2> QED
    BY <1>3, <2>2, <2>4, <2>5 DEF ReadInv
<1>4. ASSUME UNCHANGED reader
      PROVE  ReadInv'
  <2>1. CASE reader = NobodyReads
    BY <1>4, <2>1 DEF ReadInv
  <2>2. CASE reader # NobodyReads
    <3>1. reader \in Readers
      BY <1>2, <2>2
    <3> QED
      BY <1>3, <1>4, <2>2, <3>1 DEF ReadInv
  <2> QED
    BY <2>1, <2>2
<1>5. ASSUME NEW t \in Targets, NEW limit \in PageLimits, NEW last \in Ids,
             CatchUp(t, limit, last)
      PROVE  ReadInv'
  <2> DEFINE first == FirstReader(t, limit, last)
             r == Received(Page(View(t), limit, 0, last), first)
  <2>1. reader' = r
    BY <1>5 DEF CatchUp, FirstReader
  <2>2. /\ first \in Readers /\ first.target = t
        /\ first.limit = limit /\ first.last = last
        /\ first.due = {id \in IdsIn(View(t)) : id > last}
    BY FirstReaderIs
  <2>3. IdsIn(View(t)) = Visible(t) /\ \A id \in IdsIn(View(t)) : id <= counter
    BY ViewIs DEF Visible
  <2> HIDE DEF first
  <2> DEFINE due == first.due \cap IdsIn(View(t))
             new == Received(Page(View(t), first.limit, 0, first.last), first)
  <2>4. /\ new \in Readers /\ new.target = first.target
        /\ new.last = first.last /\ new.due = first.due
        /\ /\ \A id \in due : id > first.last
           /\ 0 # 0 => \A id \in due : id >= 0 => id \in first.got
           => \A id \in due :
                 new.pc = "done" \/ id >= new.oldest => id \in new.got
    BY <2>2, ReceivedIs
  <2>5. r = new
    BY <2>2
  <2> HIDE DEF r, new
  <2>6. \A id \in due : new.pc = "done" \/ id >= new.oldest => id \in new.got
    BY <2>2, <2>4
  <2>7. \A id \in new.due : id > new.last /\ id <= counter
    BY <2>2, <2>3, <2>4
  <2> QED
    BY <1>3, <2>1, <2>2, <2>3, <2>4, <2>5, <2>6, <2>7
<1>6. CASE NextPage
  <2> DEFINE new == Received(Page(View(reader.target), reader.limit,
                                  reader.oldest, reader.last), reader)
             due == reader.due \cap IdsIn(View(reader.target))
  <2>1. /\ reader.pc = "reading" /\ reader' = new
    BY <1>6 DEF NextPage
  <2>2. reader \in Readers /\ reader # NobodyReads
    BY <1>2, <2>1 DEF NobodyReads
  <2>3. reader.oldest \in Nat
    BY <2>2 DEF Readers, Ids
  <2>4. IdsIn(View(reader.target)) = Visible(reader.target)
    BY ViewIs DEF Visible
  <2>5. /\ new \in Readers /\ new.target = reader.target
        /\ new.last = reader.last /\ new.due = reader.due
        /\ /\ \A id \in due : id > reader.last
           /\ reader.oldest # 0 =>
                 \A id \in due : id >= reader.oldest => id \in reader.got
           => \A id \in due :
                 new.pc = "done" \/ id >= new.oldest => id \in new.got
    BY <2>2, <2>3, ReceivedIs
  <2> HIDE DEF new
  <2>6. /\ \A id \in reader.due : id > reader.last /\ id <= counter
        /\ \A id \in due : id >= reader.oldest => id \in reader.got
    BY <2>2, <2>4 DEF ReadInv
  <2>7. \A id \in due : new.pc = "done" \/ id >= new.oldest => id \in new.got
    BY <2>5, <2>6
  <2> QED
    BY <1>3, <2>1, <2>4, <2>5, <2>6, <2>7
<1>7. CASE StopReading
  BY <1>7 DEF StopReading, ReadInv
<1>8. SendingOK
  BY DEF TypeOK, SendingOK
<1> QED
  BY <1>4, <1>5, <1>6, <1>7, <1>8, StoreMessageIs, SendRequestIs
     DEF Next, CreateNetwork, DeleteNetwork, ClientRequest, CloseQuery, OpenConversation, GetSession,
         PutSession, Poll, vars

(***************************************************************************)
(* A client that pages backwards until there is no more has got every      *)
(* message that was due and is not forgotten, however many messages are    *)
(* stored and forgotten between its requests                              *)
(* (routes.py, _paginate_messages).                                        *)
(***************************************************************************)
THEOREM CatchUpCorrect == Spec => []CatchUpIsComplete
<1>1. Init => TypeOK /\ LogInv /\ ReadInv
  BY InitTyped DEF Init, ReadInv
<1>2. TypeOK /\ LogInv /\ ReadInv /\ [Next]_vars
          => TypeOK' /\ LogInv' /\ ReadInv'
  BY TypeStep, ListsStep, ReadStep
<1>3. TypeOK /\ LogInv /\ ReadInv => CatchUpIsComplete
  <2> SUFFICES ASSUME TypeOK, LogInv, ReadInv, reader.pc = "done"
               PROVE  reader.due \cap IdsIn(View(reader.target))
                          \subseteq reader.got
    BY DEF CatchUpIsComplete
  <2>1. reader # NobodyReads
    BY DEF NobodyReads
  <2>2. IdsIn(View(reader.target)) = Visible(reader.target)
    BY ViewIs DEF Visible
  <2> QED
    BY <2>1, <2>2 DEF ReadInv
<1> QED
  BY <1>1, <1>2, <1>3, PTL DEF Spec

-----------------------------------------------------------------------------
(* The poll skips nothing.                                                 *)

(* No pointer is ahead of the store, and what lies behind it was shown.    *)
Fits(p, lists, n, seen) ==
    \A t \in Targets :
        /\ p[t] <= n
        /\ \A m \in lists[t] : m.id <= p[t] /\ ~m.meta => m.id \in seen

Lists == [t \in Targets |-> Range(Stored(t))]

PollInv ==
    /\ Fits(pointers, Lists, counter, shown)
    /\ \A u \in Clients : Fits(local[u], Lists, counter, shown)

(* What is stored later lies ahead of every pointer.                       *)
LEMMA StillFits ==
    ASSUME LogInv, LogInv', OnlyNewOnes, shown \subseteq shown',
           NEW p \in [Targets -> 0..MaxId], Fits(p, Lists, counter, shown)
    PROVE  Fits(p, Lists', counter', shown')
<1>1. counter \in Nat /\ counter' \in Nat /\ counter <= counter'
  BY DEF LogInv, OnlyNewOnes
<1>2. ASSUME NEW t \in Targets
      PROVE  /\ p[t] <= counter'
             /\ \A m \in Lists'[t] : m.id <= p[t] /\ ~m.meta => m.id \in shown'
  <2>1. p[t] \in Nat /\ p[t] <= counter
    BY DEF Fits
  <2>2. ASSUME NEW m \in Lists'[t], m.id <= p[t], ~m.meta
        PROVE  m.id \in shown'
    <3>1. m \in Range(Stored(t))' /\ t \in Keys
      BY DEF Lists, Keys
    <3>2. m.id \in Nat
      <4>1. PICK i \in DOMAIN Stored(t)' : m = Stored(t)'[i]
        BY <3>1 DEF Range
      <4>2. Stored(t)' = log'[t] /\ t \in DOMAIN log'
        <5>1. DOMAIN <<>> = {}
          OBVIOUS
        <5> QED
          BY <4>1, <5>1 DEF Stored
      <4> QED
        BY <4>1, <4>2, MessageIs DEF LogInv
    <3>3. m \in Range(Stored(t)) \/ m.id > counter
      BY <3>1 DEF OnlyNewOnes
    <3>4. m \in Lists[t]
      BY <1>1, <2>1, <2>2, <3>2, <3>3 DEF Lists
    <3> QED
      BY <2>2, <3>4 DEF Fits
  <2> QED
    BY <1>1, <2>1, <2>2
<1> QED
  BY <1>2 DEF Fits

(* All messages that the poll chooses its items from.                      *)
Pool(p) ==
    UNION {{[target |-> t, id |-> m.id] : m \in Since(Stored(t), p[t])} :
              t \in Polled}

(* They are finitely many, because an id names one message.                *)
LEMMA PoolIs ==
    ASSUME LogInv, NEW p
    PROVE  /\ IsFiniteSet(Pool(p)) /\ \A x \in Pool(p) : x.id \in Nat
           /\ PollItems(p) = FirstItems(Pool(p), PollLimit)
<1>1. ASSUME NEW x \in Pool(p)
      PROVE  \E t \in Polled : \E m \in Range(Stored(t)) :
                x = [target |-> t, id |-> m.id]
  BY DEF Pool, Since
<1>2. ASSUME NEW x \in Pool(p)
      PROVE  x.id \in Ids
  <2>1. PICK t \in Polled : \E m \in Range(Stored(t)) :
            x = [target |-> t, id |-> m.id]
    BY <1>1
  <2>2. PICK m \in Range(Stored(t)) : x = [target |-> t, id |-> m.id]
    BY <2>1
  <2>3. m.id \in Ids /\ x.id = m.id
    BY <2>2, IdsAreIds
  <2> QED
    BY <2>3
<1>3. ASSUME NEW x \in Pool(p), NEW y \in Pool(p), x.id = y.id
      PROVE  x = y
  <2>1. PICK s \in Polled : \E m \in Range(Stored(s)) :
            x = [target |-> s, id |-> m.id]
    BY <1>1
  <2>2. PICK m \in Range(Stored(s)) : x = [target |-> s, id |-> m.id]
    BY <2>1
  <2>3. PICK t \in Polled : \E n \in Range(Stored(t)) :
            y = [target |-> t, id |-> n.id]
    BY <1>1
  <2>4. PICK n \in Range(Stored(t)) : y = [target |-> t, id |-> n.id]
    BY <2>3
  <2>5. m.id = n.id
    BY <1>3, <2>2, <2>4
  <2>6. s = t
    <3>1. PICK a \in DOMAIN Stored(s) : m = Stored(s)[a]
      BY DEF Range
    <3>2. PICK b \in DOMAIN Stored(t) : n = Stored(t)[b]
      BY DEF Range
    <3>3. /\ s \in DOMAIN log /\ Stored(s) = log[s]
          /\ t \in DOMAIN log /\ Stored(t) = log[t]
      <4>1. DOMAIN <<>> = {}
        OBVIOUS
      <4> QED
        BY <3>1, <3>2, <4>1 DEF Stored
    <3> QED
      BY <2>5, <3>1, <3>2, <3>3 DEF LogInv
  <2> QED
    BY <2>2, <2>4, <2>5, <2>6
<1> DEFINE f == [x \in Pool(p) |-> x.id]
<1>4. f \in Injection(Pool(p), Ids)
  BY <1>2, <1>3 DEF Injection, IsInjective
<1>5. IsFiniteSet(Ids)
  BY MessageIs, FS_Interval DEF Ids
<1>6. IsFiniteSet(Pool(p))
  <2> HIDE DEF f
  <2> QED
    BY <1>4, <1>5, FS_Injection
<1>7. PollItems(p) = FirstItems(Pool(p), PollLimit)
  BY DEF PollItems, Pool
<1> QED
  BY <1>2, <1>6, <1>7 DEF Ids

(* The pointers that a client has after a poll lie behind nothing that it  *)
(* was not shown: the items are the first ones of all conversations.       *)
LEMMA PollFits ==
    ASSUME LogInv, TypeOK, NEW p \in [Targets -> 0..MaxId],
           Fits(p, Lists, counter, shown),
           NEW moved, moved = [t \in Targets |->
              IF ItemIds(PollItems(p), t) = {} THEN p[t]
              ELSE Max(ItemIds(PollItems(p), t))],
           NEW seen, seen = shown \cup {x.id : x \in PollItems(p)}
    PROVE  Fits(moved, Lists, counter, seen)
<1> SUFFICES ASSUME NEW t \in Targets
             PROVE  /\ moved[t] <= counter
                    /\ \A m \in Lists[t] :
                          m.id <= moved[t] /\ ~m.meta => m.id \in seen
  BY DEF Fits
<1>1. /\ p[t] <= counter
      /\ \A m \in Lists[t] : m.id <= p[t] /\ ~m.meta => m.id \in shown
  BY DEF Fits
<1>2. CASE ItemIds(PollItems(p), t) = {}
  BY <1>1, <1>2
<1>3. CASE ItemIds(PollItems(p), t) # {}
  <2> DEFINE mx == Max(ItemIds(PollItems(p), t))
  <2>1. mx \in ItemIds(PollItems(p), t) /\ mx \in Ids /\ mx <= counter
    BY <1>3, AdvancedIs
  <2>2. moved[t] = mx
    BY <1>3
  <2> HIDE DEF mx
  <2>3. PICK y \in PollItems(p) : y.target = t /\ y.id = mx
    BY <2>1 DEF ItemIds
  <2>4. t \in Polled /\ p[t] # 0
    BY <2>3, ItemIs
  <2>5. ASSUME NEW m \in Lists[t], m.id <= mx, ~m.meta
        PROVE  m.id \in seen
    <3>1. m \in Range(Stored(t)) /\ m.id \in Ids
      BY IdsAreIds DEF Lists
    <3>2. CASE m.id <= p[t]
      BY <1>1, <2>5, <3>2
    <3>3. CASE ~(m.id <= p[t])
      <4> DEFINE x == [target |-> t, id |-> m.id]
      <4>1. p[t] \in Int /\ m.id \in Int
        BY <3>1 DEF Ids
      <4>2. m \in Since(Stored(t), p[t])
        BY <2>4, <2>5, <3>1, <3>3, <4>1 DEF Since
      <4>3. x \in Pool(p) /\ x.id = m.id
        BY <2>4, <4>2 DEF Pool
      <4> HIDE DEF x
      <4>4. PollLimit \in Nat
        BY LogAssumption
      <4>5. x \in FirstItems(Pool(p), PollLimit)
        <5>1. x.id <= y.id
          BY <2>3, <2>5, <4>3
        <5>2. /\ IsFiniteSet(Pool(p)) /\ \A z \in Pool(p) : z.id \in Nat
              /\ y \in FirstItems(Pool(p), PollLimit)
          BY PoolIs, <2>3
        <5> QED
          BY <4>3, <4>4, <5>1, <5>2, FirstItemsAreClosed
      <4>6. x \in PollItems(p)
        BY <4>5, PoolIs
      <4> QED
        BY <4>3, <4>6
    <3> QED
      BY <3>2, <3>3
  <2> QED
    BY <2>1, <2>2, <2>5
<1> QED
  BY <1>2, <1>3

(* Storing, polling, reading and sharing the session keep it so.           *)
LEMMA PollStep ==
    ASSUME TypeOK, LogInv, PollInv, [Next]_vars
    PROVE  PollInv'
<1> DEFINE Pointers == [Targets -> 0..MaxId]
<1>1. LogInv' /\ OnlyNewOnes
  BY ListsStep
<1>2. /\ pointers \in Pointers /\ local \in [Clients -> Pointers]
      /\ \A u \in Clients : local[u] \in Pointers
  BY DEF TypeOK
<1>3. ASSUME UNCHANGED <<pointers, local, shown>>
      PROVE  PollInv'
  BY <1>1, <1>2, <1>3, StillFits DEF PollInv
<1>4. ASSUME NEW u \in Clients, GetSession(u)
      PROVE  PollInv'
  <2>1. /\ UNCHANGED <<pointers, shown>>
        /\ \A v \in Clients : local'[v] = IF v = u THEN pointers ELSE local[v]
    BY <1>2, <1>4 DEF GetSession
  <2> QED
    BY <1>1, <1>2, <2>1, StillFits DEF PollInv
<1>5. ASSUME NEW u \in Clients, PutSession(u)
      PROVE  PollInv'
  <2> DEFINE merged == [t \in Targets |-> IF local[u][t] # 0 THEN local[u][t]
                                          ELSE pointers[t]]
  <2>1. UNCHANGED <<local, shown>> /\ pointers' = merged
    BY <1>5 DEF PutSession
  <2>2. merged \in Pointers
    BY <1>2
  <2>3. Fits(merged, Lists, counter, shown)
    BY DEF Fits, PollInv
  <2> HIDE DEF merged
  <2> QED
    BY <1>1, <1>2, <2>1, <2>2, <2>3, StillFits DEF PollInv
<1>6. ASSUME NEW u \in Clients, NEW t \in Targets, OpenConversation(u, t)
      PROVE  PollInv'
  <2> DEFINE last == IF View(t) = <<>> THEN local[u][t] ELSE Last(View(t)).id
             opened == [local[u] EXCEPT ![t] = last]
             seen == shown \cup IdsIn(Stored(t))
  <2>1. /\ UNCHANGED pointers /\ shown' = seen
        /\ \A v \in Clients : local'[v] = IF v = u THEN opened ELSE local[v]
    BY <1>2, <1>6 DEF OpenConversation
  <2>2. last \in 0..MaxId /\ last <= counter
    <3>1. CASE View(t) = <<>>
      BY <1>2, <3>1 DEF PollInv, Fits
    <3>2. CASE View(t) # <<>>
      <4>1. /\ View(t) \in Seq(Message)
            /\ \A id \in IdsIn(View(t)) : id \in Ids /\ id <= counter
        BY ViewIs
      <4>2. Len(View(t)) \in DOMAIN View(t)
        BY <3>2, <4>1
      <4>3. Last(View(t)).id \in IdsIn(View(t))
        BY <4>2 DEF Last, IdsIn
      <4> QED
        BY <3>2, <4>1, <4>3 DEF Ids
    <3> QED
      BY <3>1, <3>2
  <2> HIDE DEF last
  <2>3. opened \in Pointers
    BY <1>2, <2>2
  <2>4. Fits(opened, Lists, counter, seen)
    <3>1. ASSUME NEW m \in Lists[t]
          PROVE  m.id \in seen
      BY DEF Lists, Range, IdsIn
    <3>2. Fits(local[u], Lists, counter, shown)
      BY DEF PollInv
    <3> HIDE DEF seen
    <3>3. shown \subseteq seen
      BY DEF seen
    <3> QED
      BY <1>2, <2>2, <3>1, <3>2, <3>3 DEF Fits
  <2>5. \A p : Fits(p, Lists, counter, shown) => Fits(p, Lists, counter, seen)
    BY DEF Fits
  <2> HIDE DEF opened
  <2>6. shown \subseteq shown'
    BY <2>1
  <2>7. Fits(opened, Lists', counter', shown')
    <3>1. /\ counter' = counter /\ Lists' = Lists
      <4>1. counter' = counter /\ log' = Touched(t)
        BY <1>6 DEF OpenConversation
      <4>2. \A k : Stored(k)' = Stored(k)
        BY <4>1 DEF Touched, Stored
      <4> QED
        BY <4>1, <4>2 DEF Lists
    <3> QED
      BY <2>1, <2>4, <3>1
  <2> QED
    BY <1>1, <1>2, <2>1, <2>6, <2>7, StillFits DEF PollInv
<1>7. ASSUME NEW u \in Clients, Poll(u)
      PROVE  PollInv'
  <2> DEFINE moved == [t \in Targets |->
                         IF ItemIds(PollItems(local[u]), t) = {}
                         THEN local[u][t]
                         ELSE Max(ItemIds(PollItems(local[u]), t))]
             seen == shown \cup {x.id : x \in PollItems(local[u])}
  <2>1. /\ UNCHANGED <<pointers, counter>> /\ shown' = seen
        /\ \A v \in Clients : local'[v] = IF v = u THEN moved ELSE local[v]
    BY <1>2, <1>7 DEF Poll, ItemIds
  <2>2. Fits(moved, Lists, counter, seen)
    <3>1. Fits(local[u], Lists, counter, shown) /\ local[u] \in Pointers
      BY <1>2 DEF PollInv
    <3> QED
      BY <3>1, PollFits
  <2>3. shown \subseteq seen
    OBVIOUS
  <2> HIDE DEF moved, seen
  <2>4. Lists' = Lists
    <3>1. \A t : Stored(t)' = Stored(t)
      BY <1>7 DEF Poll, Stored
    <3> QED
      BY <3>1 DEF Lists
  <2> QED
    BY <1>1, <1>2, <2>1, <2>2, <2>3, <2>4, StillFits DEF PollInv
<1>8. SendingOK
  BY DEF TypeOK, SendingOK
<1> QED
  BY <1>3, <1>4, <1>5, <1>6, <1>7, <1>8, StoreMessageIs, SendRequestIs
     DEF Next, CreateNetwork, DeleteNetwork, ClientRequest, CloseQuery, CatchUp, NextPage, StopReading,
         clientVars, vars

(***************************************************************************)
(* The poll skips nothing: what lies behind a pointer was shown, although  *)
(* clients share the session and a poll is limited over all conversations  *)
(* (routes.py, poll_notifications and set_session).                        *)
(***************************************************************************)
THEOREM PollCorrect == Spec => []PollSkipsNothing
<1>1. Init => TypeOK /\ LogInv /\ PollInv
  <2> SUFFICES ASSUME Init
               PROVE  PollInv
    BY InitTyped
  <2>1. /\ counter = 0 /\ log = <<>> /\ pointers = NoPointers
        /\ \A u \in Clients : local[u] = NoPointers
    BY DEF Init
  <2>2. DOMAIN <<>> = {}
    OBVIOUS
  <2>3. \A t \in Targets : Lists[t] = {} /\ NoPointers[t] = 0
    BY <2>1, <2>2 DEF Lists, Range, Stored, NoPointers
  <2> QED
    BY <2>1, <2>3 DEF PollInv, Fits
<1>2. TypeOK /\ LogInv /\ PollInv /\ [Next]_vars
          => TypeOK' /\ LogInv' /\ PollInv'
  BY TypeStep, ListsStep, PollStep
<1>3. TypeOK /\ LogInv /\ PollInv => PollSkipsNothing
  <2> SUFFICES ASSUME TypeOK, LogInv, PollInv, NEW t \in Targets,
                      NEW i \in DOMAIN Stored(t)
               PROVE  LET S == {pointers[t]} \cup {local[u][t] : u \in Clients}
                          m == Stored(t)[i]
                      IN  m.id <= Max(S) /\ ~m.meta => m.id \in shown
    BY DEF PollSkipsNothing
  <2> DEFINE S == {pointers[t]} \cup {local[u][t] : u \in Clients}
  <2>1. S \in SUBSET Nat /\ S # {} /\ \A x \in S : x <= MaxId
    BY DEF TypeOK
  <2>2. Max(S) \in S
    <3> HIDE DEF S
    <3> QED
      BY <2>1, MaxIs, MessageIs
  <2>3. Stored(t)[i] \in Lists[t]
    BY DEF Lists, Range
  <2> QED
    BY <2>2, <2>3 DEF PollInv, Fits
<1> QED
  BY <1>1, <1>2, <1>3, PTL DEF Spec

-----------------------------------------------------------------------------
(* Pages around a message.                                                 *)

(***************************************************************************)
(* The page around a message holds it, is as full as it can be, and has    *)
(* as many messages on either side unless it touches an end of the list    *)
(* (routes.py, _paginate_messages).                                        *)
(***************************************************************************)
THEOREM AroundCorrect == Spec => []PageAroundIsCentred
<1>1. Init => TypeOK /\ LogInv
  BY InitTyped
<1>2. TypeOK /\ LogInv /\ [Next]_vars => TypeOK' /\ LogInv'
  BY TypeStep, ListsStep
<1>3. TypeOK /\ LogInv => PageAroundIsCentred
  <2> SUFFICES ASSUME LogInv, NEW t \in Targets, NEW limit \in PageLimits,
                      NEW m \in Range(View(t))
               PROVE  LET page == PageAround(View(t), limit, 0, 0, m.id).messages
                          earlier == Cardinality({x \in Range(page) :
                                                    x.id < m.id})
                          later == Cardinality({x \in Range(page) :
                                                  x.id > m.id})
                      IN /\ m \in Range(page)
                         /\ Len(page) = Min({limit, Len(View(t))})
                         /\ earlier > later + 1 => Last(page) = Last(View(t))
                         /\ later > earlier => Head(page) = Head(View(t))
    BY DEF PageAroundIsCentred
  <2> DEFINE all == View(t)
  <2>1. all \in Seq(Message) /\ Ordered(all) /\ m \in Range(all)
    BY ViewIs
  <2>2. limit \in Nat \ {0} /\ \A x \in Message : x.id \in Nat
    BY LogAssumption, MessageIs
  <2> HIDE DEF all
  <2>3. Min({limit, Len(all)}) = IF limit < Len(all) THEN limit ELSE Len(all)
    <3>1. limit \in Int /\ Len(all) \in Int
      BY <2>1, <2>2
    <3>2. \A x, y \in Int : Min({x, y}) = IF x < y THEN x ELSE y
      BY DEF Min
    <3> QED
      BY <3>1, <3>2
  <2> DEFINE page == PageAround(all, limit, 0, 0, m.id).messages
             earlier == Cardinality({x \in Range(page) : x.id < m.id})
             later == Cardinality({x \in Range(page) : x.id > m.id})
  <2>4. /\ m \in Range(page)
        /\ Len(page) = IF limit < Len(all) THEN limit ELSE Len(all)
        /\ earlier > later + 1 => Last(page) = Last(all)
        /\ later > earlier => Head(page) = Head(all)
    BY <2>1, <2>2, PageAroundIs
  <2> HIDE DEF earlier, later, page
  <2>5. /\ m \in Range(page) /\ Len(page) = Min({limit, Len(all)})
        /\ earlier > later + 1 => Last(page) = Last(all)
        /\ later > earlier => Head(page) = Head(all)
    BY <2>3, <2>4
  <2> QED
    BY <2>5 DEF all, page, earlier, later
<1> QED
  BY <1>1, <1>2, <1>3, PTL DEF Spec

-----------------------------------------------------------------------------
(* Searching.                                                              *)

(***************************************************************************)
(* Searching from any message, every other match is found in exactly one   *)
(* of the two directions, and a search that is repeated from the last      *)
(* match of an answer goes on where the answer ended (routes.py,           *)
(* _search_messages).                                                      *)
(***************************************************************************)
THEOREM SearchCorrect == Spec => []SearchReachesEveryMatch
<1>1. Init => TypeOK /\ LogInv
  BY InitTyped
<1>2. TypeOK /\ LogInv /\ [Next]_vars => TypeOK' /\ LogInv'
  BY TypeStep, ListsStep
<1>3. TypeOK /\ LogInv => SearchReachesEveryMatch
  <2> DEFINE Ways == {"backward", "forward"}
  <2>1. ASSUME LogInv, NEW t \in Targets, NEW m \in Range(View(t)), m.hit,
               NEW anchor \in IdsIn(View(t)) \ {m.id}
        PROVE  Cardinality({way \in Ways : m \in
                   Range(Search(View(t), anchor, way,
                                Len(View(t))).messages)}) = 1
    <3> DEFINE all == View(t)
               Finds(way) ==
                   m \in Range(Search(all, anchor, way, Len(all)).messages)
    <3>1. all \in Seq(Message) /\ Ordered(all)
      BY <2>1, ViewIs
    <3>2. \A x \in Message : x.id \in Nat
      BY MessageIs
    <3> HIDE DEF all
    <3>3. PICK j \in DOMAIN all : anchor = all[j].id
      BY DEF IdsIn, all
    <3>4. PICK i \in DOMAIN all : m = all[i]
      BY DEF Range, all
    <3>5. i # j /\ all[i].hit
      BY <2>1, <3>3, <3>4
    <3>6. \A way \in Ways :
              Finds(way) <=> way = IF i < j THEN "backward" ELSE "forward"
      BY <3>1, <3>2, <3>3, <3>4, <3>5, SearchFinds
    <3> HIDE DEF Finds
    <3>7. {way \in Ways : Finds(way)} =
              {IF i < j THEN "backward" ELSE "forward"}
      BY <3>6
    <3>8. Cardinality({way \in Ways : Finds(way)}) = 1
      BY <3>7, FS_Singleton
    <3> QED
      BY <3>8 DEF Finds, all
  <2>2. ASSUME LogInv, NEW t \in Targets, NEW way \in Ways, NEW anchor \in Ids,
               NEW limit \in PageLimits,
               Search(View(t), anchor, way, limit).has_more
        PROVE  LET answer == Search(View(t), anchor, way, limit).messages
               IN  Search(View(t), anchor, way, limit + 1).messages =
                       answer \o
                       Search(View(t), Last(answer).id, way, 1).messages
    <3> DEFINE all == View(t)
    <3>1. all \in Seq(Message) /\ Ordered(all)
      BY <2>2, ViewIs
    <3>2. limit \in Nat \ {0} /\ \A x \in Message : x.id \in Nat
      BY LogAssumption, MessageIs
    <3>3. Search(all, anchor, way, limit).has_more
      BY <2>2
    <3> HIDE DEF all
    <3>4. GoesOnFrom(all, anchor, way, limit)
      BY <3>1, <3>2, <3>3, SearchGoesOn
    <3> QED
      BY <3>4 DEF all, GoesOnFrom
  <2> QED
    BY <2>1, <2>2 DEF SearchReachesEveryMatch
<1> QED
  BY <1>1, <1>2, <1>3, PTL DEF Spec
-----------------------------------------------------------------------------
(* The store that the lists implement.  The strengthening: every list is   *)
(* in the order of its ids, so that what a full list forgets is older      *)
(* than what it keeps.                                                     *)

InOrder == \A k \in DOMAIN log : Ordered(log[k])

(* What is kept is what the lists have.                                    *)
LEMMA KeptIs ==
    /\ \A x : x \in Kept <=>
          \E k \in DOMAIN log : \E a \in DOMAIN log[k] :
             x = [id |-> log[k][a].id, place |-> k, what |-> log[k][a]]
    /\ \A x : x \in Kept' <=>
          \E k \in DOMAIN log' : \E a \in DOMAIN log'[k] :
             x = [id |-> log'[k][a].id, place |-> k, what |-> log'[k][a]]
BY DEF Kept, Range

(* Where nothing is stored, whole lists are removed.                       *)
LEMMA NoneForgets ==
    ASSUME LogInv, InOrder, StoresNone
    PROVE  InOrder' /\ Abstract!Forget
<1>1. DOMAIN <<>> = {} /\ counter' = counter
  BY DEF StoresNone
<1>2. ASSUME NEW k \in DOMAIN log', DOMAIN log'[k] # {}
      PROVE  k \in DOMAIN log /\ log'[k] = log[k]
  BY <1>1, <1>2 DEF StoresNone, Stored
<1>3. InOrder'
  BY <1>2 DEF InOrder, Ordered
<1>4. Abstract!New = {}
  <2> SUFFICES ASSUME NEW x \in Kept'
               PROVE  x \in Kept
    BY DEF Abstract!New
  <2> QED
    BY <1>2, KeptIs
<1>5. ASSUME NEW gone \in Abstract!Gone, NEW kept \in Kept',
             gone.place = kept.place
      PROVE  gone.id < kept.id
  <2>1. gone \in Kept /\ gone \notin Kept'
    BY DEF Abstract!Gone
  <2>2. PICK k \in DOMAIN log : \E a \in DOMAIN log[k] :
           gone = [id |-> log[k][a].id, place |-> k, what |-> log[k][a]]
    BY <2>1, KeptIs
  <2>3. PICK j \in DOMAIN log' : \E a \in DOMAIN log'[j] :
           kept = [id |-> log'[j][a].id, place |-> j, what |-> log'[j][a]]
    BY KeptIs
  <2>4. j = k /\ log'[k] = log[k]
    BY <1>2, <1>5, <2>2, <2>3
  <2>5. gone \in Kept'
    BY <2>2, <2>3, <2>4, KeptIs
  <2> QED
    BY <2>1, <2>5
<1> QED
  BY <1>1, <1>3, <1>4, <1>5 DEF Abstract!Forget, Abstract!OldestAreForgotten

(* A message that is stored has the highest id, and its list forgets from  *)
(* its beginning.                                                          *)
LEMMA OneStores ==
    ASSUME LogInv, InOrder, StoresOne
    PROVE  InOrder' /\ Abstract!Store
<1>1. PICK k \in Keys, meta \in BOOLEAN, hit \in BOOLEAN : Store(k, meta, hit)
  BY DEF StoresOne
<1> DEFINE m == [id |-> counter + 1, meta |-> meta, hit |-> hit]
           old == Stored(k)
           new == Appended(old, m)
<1>2. /\ counter \in Nat /\ counter + 1 \in Ids /\ counter' = counter + 1
  BY <1>1, MessageIs DEF Store, LogInv, Ids
<1>3. m \in Message /\ m.id = counter + 1
  BY <1>2 DEF Message
<1>4. log' = [j \in DOMAIN log \cup {k} |-> IF j = k THEN new ELSE log[j]]
  BY <1>1, <1>2 DEF Store
<1> HIDE DEF m
<1>5. /\ old \in Seq(Message) /\ \A i \in DOMAIN old : old[i].id <= counter
      /\ k \notin DOMAIN log => old = <<>>
  BY StoredIs
<1>6. k \in DOMAIN log => old = log[k]
  BY DEF Stored
<1> HIDE DEF old
<1>7. /\ new \in Seq(Message)
      /\ \E cut \in Nat :
            /\ Len(new) = Len(old) + 1 - cut
            /\ \A i \in DOMAIN new :
                  \/ cut + i \in DOMAIN old /\ new[i] = old[cut + i]
                  \/ cut + i = Len(old) + 1 /\ new[i] = m
  BY <1>3, <1>5, AppendedIs
<1> HIDE DEF new
<1>8. PICK cut \in Nat :
          /\ Len(new) = Len(old) + 1 - cut
          /\ \A i \in DOMAIN new :
                \/ cut + i \in DOMAIN old /\ new[i] = old[cut + i]
                \/ cut + i = Len(old) + 1 /\ new[i] = m
  BY <1>7
<1>9. /\ DOMAIN log' = DOMAIN log \cup {k} /\ log'[k] = new
      /\ \A j \in DOMAIN log \ {k} : log'[j] = log[j]
  BY <1>4
<1>10. /\ Len(old) \in Nat /\ DOMAIN old = 1..Len(old)
       /\ DOMAIN new = 1..Len(new) /\ Len(new) \in Nat
       /\ \A i \in DOMAIN old : old[i].id \in Nat
  BY <1>5, <1>7, MessageIs
<1>11. Ordered(old)
  <2>1. DOMAIN <<>> = {}
    OBVIOUS
  <2> QED
    BY <1>5, <1>6, <2>1 DEF InOrder, Ordered
<1>12. Ordered(new)
  <2> SUFFICES ASSUME NEW i \in DOMAIN new, NEW j \in DOMAIN new, i < j
               PROVE  new[i].id < new[j].id
    BY DEF Ordered
  <2>1. cut + i < cut + j /\ cut + j <= Len(old) + 1
    BY <1>8, <1>10
  <2>2. cut + i \in DOMAIN old /\ new[i] = old[cut + i]
    BY <1>8, <1>10, <2>1
  <2> QED
    BY <1>2, <1>3, <1>5, <1>8, <1>10, <1>11, <2>1, <2>2 DEF Ordered
<1>13. InOrder'
  BY <1>9, <1>12 DEF InOrder, Ordered
<1> DEFINE Entry(j, x) == [id |-> x.id, place |-> j, what |-> x]
<1>14. ASSUME NEW x \in Abstract!New
       PROVE  x = Entry(k, m)
  <2>1. x \in Kept' /\ x \notin Kept
    BY DEF Abstract!New
  <2>2. PICK j \in DOMAIN log' :
           \E a \in DOMAIN log'[j] : x = Entry(j, log'[j][a])
    BY <2>1, KeptIs
  <2>3. \A b \in DOMAIN log : \A c \in DOMAIN log[b] : x # Entry(b, log[b][c])
    BY <2>1, KeptIs
  <2>4. j = k
    BY <1>9, <2>2, <2>3
  <2>5. CASE k \in DOMAIN log
    BY <1>6, <1>8, <1>9, <2>2, <2>3, <2>4, <2>5
  <2>6. CASE k \notin DOMAIN log
    <3>1. DOMAIN old = {}
      BY <1>5, <2>6
    <3> QED
      BY <1>8, <1>9, <2>2, <2>4, <3>1
  <2> QED
    BY <2>5, <2>6
<1>15. Abstract!NewIdsAreHigher
  BY <1>2, <1>3, <1>14 DEF Abstract!NewIdsAreHigher
<1>16. ASSUME NEW gone \in Abstract!Gone, NEW kept \in Kept',
              gone.place = kept.place
       PROVE  gone.id < kept.id
  <2>1. gone \in Kept /\ gone \notin Kept'
    BY DEF Abstract!Gone
  <2>2. PICK g \in DOMAIN log :
           \E a \in DOMAIN log[g] : gone = Entry(g, log[g][a])
    BY <2>1, KeptIs
  <2>3. \A b \in DOMAIN log' : \A c \in DOMAIN log'[b] :
            gone # Entry(b, log'[b][c])
    BY <2>1, KeptIs
  <2>4. g = k /\ k \in DOMAIN log /\ old = log[k]
    BY <1>6, <1>9, <2>2, <2>3
  <2> PICK a \in DOMAIN old : gone = Entry(k, old[a])
    BY <2>2, <2>4
  <2>5. a <= cut
    <3> SUFFICES ASSUME cut < a
                 PROVE  FALSE
      BY <1>10
    <3>1. a - cut \in 1..Len(new) /\ cut + (a - cut) = a /\ a # Len(old) + 1
      BY <1>8, <1>10
    <3>2. new[a - cut] = old[a]
      BY <1>8, <1>10, <3>1
    <3> QED
      BY <1>9, <1>10, <2>3, <3>1, <3>2
  <2>6. PICK j \in DOMAIN log' :
           \E b \in DOMAIN log'[j] : kept = Entry(j, log'[j][b])
    BY KeptIs
  <2>7. PICK b \in DOMAIN new : kept.id = new[b].id
    <3>1. gone.place = k /\ kept.place = j
      BY <2>6
    <3> QED
      BY <1>9, <1>16, <2>6, <3>1
  <2>8. gone.id = old[a].id /\ a < cut + b
    BY <1>10, <2>5
  <2>9. CASE cut + b \in DOMAIN old /\ new[b] = old[cut + b]
    BY <1>11, <2>7, <2>8, <2>9 DEF Ordered
  <2>10. CASE new[b] = m
    BY <1>2, <1>3, <1>5, <1>10, <2>7, <2>8, <2>10
  <2> QED
    BY <1>8, <2>7, <2>9, <2>10
<1>17. counter' \in Nat /\ counter < counter'
  BY <1>2
<1> QED
  BY <1>13, <1>15, <1>16, <1>17 DEF Abstract!Store, Abstract!OldestAreForgotten

(***************************************************************************)
(* The lists of the memory backend implement MessageStore: every message   *)
(* gets an id above all earlier ones and a list forgets its oldest first   *)
(* (storage.py, MemoryBackend).                                            *)
(***************************************************************************)
THEOREM StoreCorrect == Spec => ImplementsStore
<1>1. Init => TypeOK /\ LogInv /\ InOrder /\ Abstract!Init
  <2> SUFFICES ASSUME Init
               PROVE  InOrder /\ Abstract!Init
    BY InitTyped
  <2>1. log = <<>> /\ counter = 0 /\ DOMAIN <<>> = {}
    BY DEF Init
  <2>2. Kept = {}
    BY <2>1, KeptIs
  <2> QED
    BY <2>1, <2>2 DEF InOrder, Abstract!Init
<1>2. TypeOK /\ LogInv /\ InOrder /\ [Next]_vars
          => /\ TypeOK' /\ LogInv' /\ InOrder'
             /\ [Abstract!Next]_<<Kept, counter>>
  <2> SUFFICES ASSUME TypeOK, LogInv, InOrder, [Next]_vars
               PROVE  InOrder' /\ Abstract!Next
    BY TypeStep, ListsStep
  <2>1. CASE StoresNone
    BY <2>1, NoneForgets DEF Abstract!Next
  <2>2. CASE StoresOne
    BY <2>2, OneStores DEF Abstract!Next
  <2> QED
    BY <2>1, <2>2, StepStores
<1> QED
  BY <1>1, <1>2, PTL DEF Spec, ImplementsStore, Abstract!Spec
=============================================================================
