------------------------ MODULE PostgresStoreProofs ------------------------
(***************************************************************************)
(* Theorems about PostgresStore, for any networks, channels, targets,      *)
(* values, passphrases and number of ids.                                  *)
(***************************************************************************)
EXTENDS PostgresStore, TLAPS

-----------------------------------------------------------------------------
(* Partial functions.                                                      *)

(* A partial function is a function from some part of its domain.          *)
LEMMA PartialIntro ==
    ASSUME NEW D, NEW R, NEW S \in SUBSET D, NEW f \in [S -> R]
    PROVE  f \in Partial(D, R)
BY DEF Partial

(* What is known of a partial function.                                     *)
LEMMA PartialElim ==
    ASSUME NEW D, NEW R, NEW f \in Partial(D, R)
    PROVE  /\ DOMAIN f \subseteq D
           /\ f \in [DOMAIN f -> R]
           /\ \A x \in DOMAIN f : f[x] \in R
<1>1. PICK S \in SUBSET D : f \in [S -> R]
  BY DEF Partial
<1>2. DOMAIN f = S
  BY <1>1
<1> QED
  BY <1>1, <1>2

(* What setting and removing one entry of a partial function leaves.       *)
LEMMA WithType ==
    ASSUME NEW D, NEW R, NEW f \in Partial(D, R), NEW x \in D, NEW y \in R
    PROVE  /\ With(f, x, y) \in Partial(D, R)
           /\ DOMAIN With(f, x, y) = DOMAIN f \cup {x}
           /\ With(f, x, y)[x] = y
           /\ \A z \in DOMAIN f : z # x => With(f, x, y)[z] = f[z]
<1>1. DOMAIN f \subseteq D /\ \A z \in DOMAIN f : f[z] \in R
  BY PartialElim
<1>2. With(f, x, y) \in [DOMAIN f \cup {x} -> R]
  BY <1>1 DEF With
<1>3. With(f, x, y) \in Partial(D, R)
  <2>1. DOMAIN f \cup {x} \in SUBSET D
    BY <1>1
  <2> QED
    BY <1>2, <2>1, PartialIntro
<1> QED
  BY <1>3 DEF With

(* Removing an entry leaves a partial function, and the other entries.      *)
LEMMA WithoutType ==
    ASSUME NEW D, NEW R, NEW f \in Partial(D, R), NEW x
    PROVE  /\ Without(f, x) \in Partial(D, R)
           /\ DOMAIN Without(f, x) = DOMAIN f \ {x}
           /\ \A z \in DOMAIN f : z # x => Without(f, x)[z] = f[z]
<1>1. DOMAIN f \subseteq D /\ \A z \in DOMAIN f : f[z] \in R
  BY PartialElim
<1>2. Without(f, x) \in [DOMAIN f \ {x} -> R]
  BY <1>1 DEF Without
<1>3. Without(f, x) \in Partial(D, R)
  <2>1. DOMAIN f \ {x} \in SUBSET D
    BY <1>1
  <2> QED
    BY <1>2, <2>1, PartialIntro
<1> QED
  BY <1>3 DEF Without

-----------------------------------------------------------------------------
(* Calls and their statements.                                             *)

(* What a call carries, by its name.                                       *)
LEMMA CallCases ==
    ASSUME NEW c \in Calls
    PROVE  \/ c.op = "next_message_id"
           \/ c.op = "set_session"
           \/ c.op = "select"
           \/ c.op = "list_networks"
           \/ /\ c.op \in {"append_message", "remove_private_peer",
                           "set_pointer"}
              /\ c.network \in Networks /\ c.target \in Targets
           \/ /\ c.op = "save_network"
              /\ c.network \in Networks /\ c.config \in Config
           \/ /\ c.op \in {"delete_network", "remove_network_data"}
              /\ c.network \in Networks
BY DEF Calls, NextId, SetSession, Select, ListNetworks, AppendMessage, ClosePeer,
       SetPointer, Save, Delete, RemoveData

(* The statements of a call.                                               *)
LEMMA StatementCases ==
    ASSUME NEW c \in Calls, NEW s \in Statements(c)
    PROVE  \/ /\ c.op \notin {"save_network", "remove_network_data"}
              /\ s = Statement(1, c.op)
           \/ /\ c.op = "save_network"
              /\ \/ s = Statement(1, "upsert")
                 \/ s = Statement(2, "clear")
                 \/ \E ch \in c.config.channels :
                       s = [at |-> 3, do |-> "add", channel |-> ch]
           \/ /\ c.op = "remove_network_data"
              /\ \/ s = Statement(1, "remove_messages")
                 \/ s = Statement(2, "remove_pointers")
BY DEF Statements, StatementsOfRemoval, Adds

(* A statement says what call it belongs to.                               *)
LEMMA StatementOf ==
    ASSUME NEW c \in Calls, NEW s \in Statements(c)
    PROVE  \/ /\ s.do \in {"next_message_id", "set_session", "select",
                           "list_networks"}
              /\ s.do = c.op /\ s.at = 1
           \/ /\ s.do \in {"append_message", "remove_private_peer",
                           "set_pointer"}
              /\ s.do = c.op /\ s.at = 1
              /\ c.network \in Networks /\ c.target \in Targets
           \/ /\ s.do = "delete_network"
              /\ s.do = c.op /\ s.at = 1
              /\ c.network \in Networks
           \/ /\ c.op = "save_network"
              /\ c.network \in Networks /\ c.config \in Config
              /\ \/ s.do = "upsert" /\ s.at = 1
                 \/ s.do = "clear" /\ s.at = 2
                 \/ /\ s.do = "add" /\ s.at = 3
                    /\ s.channel \in c.config.channels
                    /\ s.channel \in Channels
           \/ /\ c.op = "remove_network_data"
              /\ c.network \in Networks
              /\ \/ s.do = "remove_messages" /\ s.at = 1
                 \/ s.do = "remove_pointers" /\ s.at = 2
<1>1. c.op \notin {"save_network", "remove_network_data"} =>
          s.do = c.op /\ s.at = 1
  BY StatementCases DEF Statement
<1>2. CASE c.op = "save_network"
  <2>1. c.network \in Networks /\ c.config \in Config
    BY <1>2, CallCases
  <2>2. \A ch \in c.config.channels : ch \in Channels
    BY <2>1 DEF Config
  <2>3. \/ s = Statement(1, "upsert")
        \/ s = Statement(2, "clear")
        \/ \E ch \in c.config.channels :
              s = [at |-> 3, do |-> "add", channel |-> ch]
    BY <1>2, StatementCases
  <2> QED
    BY <1>2, <2>1, <2>2, <2>3 DEF Statement
<1>3. CASE c.op = "remove_network_data"
  BY <1>3, StatementCases, CallCases DEF Statement
<1> QED
  BY <1>1, <1>2, <1>3, CallCases

-----------------------------------------------------------------------------
(* Type correctness.  The ids that are stored are ids because the calls of *)
(* a handler come in one of a few sequences.                               *)

ShapeOf(cs, id) ==
    \/ cs = <<>> \/ cs = <<Select>> \/ cs = <<ListNetworks>>
    \/ \E n \in Networks, t \in Targets :
          \/ cs = <<NextId, AppendMessage(n, t)>>
          \/ cs = <<AppendMessage(n, t)>> /\ id > 0
          \/ cs = <<ClosePeer(n, t)>>
          \/ cs = <<SetSession, SetPointer(n, t)>> /\ id > 0
          \/ cs = <<SetPointer(n, t)>> /\ id > 0
    \/ \E n \in DOMAIN saved : cs = <<Save(n, saved[n])>>
    \/ \E n \in Networks \ DOMAIN saved :
          cs = <<Delete(n), RemoveData(n)>> \/ cs = <<RemoveData(n)>>

Shape == ShapeOf(calls, drawn)

(* The calls that the handlers make are calls.                             *)
LEMMA CallsTyped ==
    ASSUME saved \in Partial(Networks, Config)
    PROVE  /\ NextId \in Calls /\ SetSession \in Calls /\ Select \in Calls
           /\ ListNetworks \in Calls
           /\ \A n \in Networks, t \in Targets :
                 /\ AppendMessage(n, t) \in Calls
                 /\ ClosePeer(n, t) \in Calls
                 /\ SetPointer(n, t) \in Calls
           /\ \A n \in DOMAIN saved : Save(n, saved[n]) \in Calls
           /\ \A n \in Networks :
                 Delete(n) \in Calls /\ RemoveData(n) \in Calls
<1>1. \A n \in DOMAIN saved : n \in Networks /\ saved[n] \in Config
  BY PartialElim
<1> QED
  BY <1>1 DEF Calls

(* The first and the other calls of a sequence.                            *)
LEMMA OneCall ==
    ASSUME NEW a
    PROVE  Head(<<a>>) = a /\ Tail(<<a>>) = <<>> /\ <<a>> # <<>>
OBVIOUS

(* The first of two calls, and what remains.                                *)
LEMMA TwoCalls ==
    ASSUME NEW a, NEW b
    PROVE  Head(<<a, b>>) = a /\ Tail(<<a, b>>) = <<b>> /\ <<a, b>> # <<>>
OBVIOUS

(* After the first call of a sequence the rest is one too.                 *)
LEMMA ShapeTail ==
    ASSUME NEW id \in Nat, Shape, calls # <<>>, drawn \in Nat,
           saved \in Partial(Networks, Config),
           IF Head(calls).op = "next_message_id" THEN id > 0 ELSE id = drawn
    PROVE  ShapeOf(Tail(calls), id)
<1> DEFINE c == Head(calls)
<1>1. CASE calls = <<Select>> \/ calls = <<ListNetworks>>
  <2>1. Tail(calls) = <<>>
    BY <1>1, OneCall
  <2> QED
    BY <2>1 DEF ShapeOf
<1>2. ASSUME NEW n \in Networks, NEW t \in Targets,
             \/ calls = <<NextId, AppendMessage(n, t)>>
             \/ calls = <<AppendMessage(n, t)>> /\ drawn > 0
             \/ calls = <<ClosePeer(n, t)>>
             \/ calls = <<SetSession, SetPointer(n, t)>> /\ drawn > 0
             \/ calls = <<SetPointer(n, t)>> /\ drawn > 0
      PROVE  ShapeOf(Tail(calls), id)
  <2>1. CASE calls = <<NextId, AppendMessage(n, t)>>
    <3>1. Tail(calls) = <<AppendMessage(n, t)>> /\ id > 0
      BY <2>1, TwoCalls DEF NextId
    <3> QED
      BY <3>1 DEF ShapeOf
  <2>2. CASE calls = <<SetSession, SetPointer(n, t)>> /\ drawn > 0
    <3>1. Tail(calls) = <<SetPointer(n, t)>> /\ id > 0
      BY <2>2, TwoCalls DEF SetSession
    <3> QED
      BY <3>1 DEF ShapeOf
  <2>3. CASE \/ calls = <<AppendMessage(n, t)>>
             \/ calls = <<ClosePeer(n, t)>>
             \/ calls = <<SetPointer(n, t)>>
    BY <2>3, OneCall DEF ShapeOf
  <2> QED
    BY <1>2, <2>1, <2>2, <2>3
<1>3. CASE \E n \in DOMAIN saved : calls = <<Save(n, saved[n])>>
  BY <1>3 DEF ShapeOf
<1>4. ASSUME NEW n \in Networks \ DOMAIN saved,
             calls = <<Delete(n), RemoveData(n)>> \/ calls = <<RemoveData(n)>>
      PROVE  ShapeOf(Tail(calls), id)
  <2>1. Tail(calls) = <<RemoveData(n)>> \/ Tail(calls) = <<>>
    BY <1>4, OneCall, TwoCalls
  <2> QED
    BY <2>1 DEF ShapeOf
<1>5. \/ calls = <<Select>> \/ calls = <<ListNetworks>>
      \/ \E n \in Networks, t \in Targets :
            \/ calls = <<NextId, AppendMessage(n, t)>>
            \/ calls = <<AppendMessage(n, t)>> /\ drawn > 0
            \/ calls = <<ClosePeer(n, t)>>
            \/ calls = <<SetSession, SetPointer(n, t)>> /\ drawn > 0
            \/ calls = <<SetPointer(n, t)>> /\ drawn > 0
      \/ \E n \in DOMAIN saved : calls = <<Save(n, saved[n])>>
      \/ \E n \in Networks \ DOMAIN saved :
            calls = <<Delete(n), RemoveData(n)>> \/ calls = <<RemoveData(n)>>
  BY DEF Shape, ShapeOf
<1> QED
  BY <1>1, <1>2, <1>3, <1>4, <1>5

(* What remains of the calls, by the call that is current.                  *)
LEMMA ShapeCases ==
    ASSUME Shape, calls # <<>>, NEW c, c = Head(calls)
    PROVE  \/ /\ c.op \in {"select", "list_networks", "append_message",
                           "remove_private_peer", "set_pointer"}
              /\ calls = <<c>>
           \/ /\ c.op = "next_message_id"
              /\ \E n \in Networks, t \in Targets :
                    calls = <<c, AppendMessage(n, t)>>
           \/ /\ c.op = "set_session"
              /\ \E n \in Networks, t \in Targets :
                    calls = <<c, SetPointer(n, t)>>
           \/ /\ c.op = "save_network" /\ calls = <<c>>
              /\ c.network \in DOMAIN saved
              /\ c.config = saved[c.network]
           \/ /\ c.op = "delete_network"
              /\ c.network \in Networks \ DOMAIN saved
              /\ calls = <<c, RemoveData(c.network)>>
           \/ /\ c.op = "remove_network_data" /\ calls = <<c>>
              /\ c.network \in Networks \ DOMAIN saved
<1>1. CASE calls = <<Select>> \/ calls = <<ListNetworks>>
  BY <1>1, OneCall DEF Select, ListNetworks
<1>2. ASSUME NEW n \in Networks, NEW t \in Targets,
             calls = <<NextId, AppendMessage(n, t)>>
      PROVE  /\ c.op = "next_message_id"
             /\ calls = <<c, AppendMessage(n, t)>>
  BY <1>2, TwoCalls DEF NextId
<1>3. ASSUME NEW n \in Networks, NEW t \in Targets,
             calls = <<SetSession, SetPointer(n, t)>>
      PROVE  c.op = "set_session" /\ calls = <<c, SetPointer(n, t)>>
  BY <1>3, TwoCalls DEF SetSession
<1>4. ASSUME NEW n \in Networks, NEW t \in Targets,
             \/ calls = <<AppendMessage(n, t)>>
             \/ calls = <<ClosePeer(n, t)>>
             \/ calls = <<SetPointer(n, t)>>
      PROVE  /\ c.op \in {"append_message", "remove_private_peer",
                          "set_pointer"}
             /\ calls = <<c>>
  BY <1>4, OneCall DEF AppendMessage, ClosePeer, SetPointer
<1>5. ASSUME NEW n \in DOMAIN saved, calls = <<Save(n, saved[n])>>
      PROVE  /\ c.op = "save_network" /\ calls = <<c>>
             /\ c.network = n /\ c.config = saved[n]
  BY <1>5, OneCall DEF Save
<1>6. ASSUME NEW n \in Networks \ DOMAIN saved,
             calls = <<Delete(n), RemoveData(n)>>
      PROVE  /\ c.op = "delete_network" /\ c.network = n
             /\ calls = <<c, RemoveData(n)>>
  BY <1>6, TwoCalls DEF Delete
<1>7. ASSUME NEW n \in Networks \ DOMAIN saved, calls = <<RemoveData(n)>>
      PROVE  /\ c.op = "remove_network_data" /\ c.network = n
             /\ calls = <<c>>
  BY <1>7, OneCall DEF RemoveData
<1>8. \/ calls = <<Select>> \/ calls = <<ListNetworks>>
      \/ \E n \in Networks, t \in Targets :
            \/ calls = <<NextId, AppendMessage(n, t)>>
            \/ calls = <<SetSession, SetPointer(n, t)>>
            \/ \/ calls = <<AppendMessage(n, t)>>
               \/ calls = <<ClosePeer(n, t)>>
               \/ calls = <<SetPointer(n, t)>>
      \/ \E n \in DOMAIN saved : calls = <<Save(n, saved[n])>>
      \/ \E n \in Networks \ DOMAIN saved :
            calls = <<Delete(n), RemoveData(n)>> \/ calls = <<RemoveData(n)>>
  BY DEF Shape, ShapeOf
<1> QED
  BY <1>1, <1>2, <1>3, <1>4, <1>5, <1>6, <1>7, <1>8

(* The first call is one, and an id has been drawn when it needs one.      *)
LEMMA ShapeHead ==
    ASSUME TypeOK, Shape, calls # <<>>
    PROVE  /\ Head(calls) \in Calls
           /\ Head(calls).op \in {"append_message", "set_pointer"} => drawn > 0
<1>1. Head(calls) \in Calls
  BY DEF TypeOK
<1>2. Head(calls).op \in {"append_message", "set_pointer"} => drawn > 0
  BY DEF Shape, ShapeOf, Select, ListNetworks, NextId, AppendMessage, ClosePeer,
         SetSession, SetPointer, Save, Delete, RemoveData
<1> QED
  BY <1>1, <1>2

(* A statement leaves tables.                                              *)
LEMMA AfterTyped ==
    ASSUME TypeOK, Shape, calls # <<>>, NEW s \in Statements(Head(calls)),
           s.do = "next_message_id" => db.seq < MaxId
    PROVE  After(Head(calls), s) \in Tables
<1> DEFINE c == Head(calls)
<1>1. c \in Calls /\ (c.op \in {"append_message", "set_pointer"} => drawn > 0)
  BY ShapeHead
<1>2. db \in Tables /\ secret \in Passphrases /\ drawn \in 0..MaxId
      /\ MaxId \in Nat
  BY StoreAssumption DEF TypeOK
<1>3. db.seq \in 0..MaxId /\ db.messages \subseteq Message
      /\ db.rows \in Partial(Networks, Row)
      /\ db.channels \in [Networks -> SUBSET Channels]
      /\ db.pointers \subseteq Pointer /\ db.probe \in Passphrases
  BY <1>2 DEF Tables
<1>4. After(c, s).seq \in 0..MaxId /\ After(c, s).probe \in Passphrases
  BY <1>2, <1>3 DEF After
<1>5. MessagesAfter(c, s) \subseteq Message
  <2>1. s.do = "append_message" =>
            [id |-> drawn, network |-> c.network, target |-> c.target]
                \in Message
    BY <1>1, <1>2, StatementOf DEF Message, Ids
  <2> QED
    BY <1>3, <2>1 DEF MessagesAfter
<1>6. RowsAfter(c, s) \in Partial(Networks, Row)
  <2>1. CASE s.do = "upsert"
    <3>1. c.network \in Networks /\ c.config \in Config
      BY <1>1, <2>1, StatementOf
    <3>2. [value |-> c.config.value, key |-> secret] \in Row
      BY <1>2, <3>1 DEF Row, Config
    <3>3. \A x \in Networks, y \in Row :
              With(db.rows, x, y) \in Partial(Networks, Row)
      BY <1>3, WithType
    <3> QED
      BY <2>1, <3>1, <3>2, <3>3 DEF RowsAfter
  <2>2. CASE s.do # "upsert"
    BY <1>3, <2>2, WithoutType DEF RowsAfter
  <2> QED
    BY <2>1, <2>2
<1>7. ChannelsAfter(c, s) \in [Networks -> SUBSET Channels]
  <2>1. s.do = "add" => s.channel \in Channels
    BY <1>1, StatementOf
  <2> QED
    BY <1>3, <2>1 DEF ChannelsAfter
<1>8. PointersAfter(c, s) \subseteq Pointer
  <2>1. s.do = "set_pointer" =>
            [network |-> c.network, target |-> c.target, id |-> drawn]
                \in Pointer
    BY <1>1, <1>2, StatementOf DEF Pointer, Ids
  <2> QED
    BY <1>3, <2>1 DEF PointersAfter
<1> QED
  BY <1>4, <1>5, <1>6, <1>7, <1>8 DEF After, Tables

(* A statement keeps the types and the shape, whether it is answered ...   *)
LEMMA AnsweredTyped ==
    ASSUME TypeOK, Shape, NEW s \in Due, Answered(s)
    PROVE  TypeOK' /\ Shape'
<1> DEFINE c == Head(calls)
<1>1. calls # <<>> /\ s \in Statements(c) /\ c \in Calls
  BY ShapeHead DEF Answered, Due
<1>2. db' = After(c, s) /\ (s.do = "next_message_id" => db.seq < MaxId)
  BY DEF Answered, Execute
<1>3. db' \in Tables
  BY <1>1, <1>2, AfterTyped
<1>4. db.seq \in 0..MaxId /\ drawn \in 0..MaxId /\ MaxId \in Nat
  BY StoreAssumption DEF TypeOK, Tables
<1>5. /\ drawn' \in 0..MaxId
      /\ IF s.do = "next_message_id" THEN drawn' > 0 ELSE drawn' = drawn
  BY <1>2, <1>4 DEF Answered, After
<1>6. outdated' \subseteq Networks
  <2>1. s.do \in {"upsert", "delete_network"} => c.network \in Networks
    BY <1>1, StatementOf
  <2> QED
    BY <2>1 DEF TypeOK, Answered, Execute, OutdatedAfter
<1>7. CASE /\ calls' = Tail(calls) /\ attempt' = 1 /\ done' = {}
           /\ answer' = Returned
           /\ torn' \subseteq torn
           /\ Statements(c) \subseteq done \cup {s}
  <2>1. s.do = "next_message_id" <=> c.op = "next_message_id"
    BY <1>1, StatementOf
  <2>2. ShapeOf(Tail(calls), drawn')
    <3>1. IF c.op = "next_message_id" THEN drawn' > 0 ELSE drawn' = drawn
      BY <1>5, <2>1
    <3> QED
      BY <1>1, <1>4, <1>5, <3>1, ShapeTail DEF TypeOK
  <2>3. saved' = saved
    BY DEF Answered, heldVars
  <2>4. Shape'
    BY <1>7, <2>2, <2>3 DEF Shape, ShapeOf
  <2>5. calls' \in Seq(Calls) /\ Len(calls') <= 2
    BY <1>1, <1>7 DEF TypeOK
  <2>6. answer'.how \in {"pending", "returned", "raised"}
    BY <1>7 DEF Returned
  <2>7. failures' \in 0..2
    BY DEF Answered, TypeOK
  <2> QED
    BY <1>1, <1>3, <1>5, <1>6, <1>7, <2>4, <2>5, <2>6, <2>7
       DEF TypeOK, Answered, heldVars
<1>8. CASE done' = done \cup {s} /\ UNCHANGED <<calls, attempt, answer, torn>>
  <2>1. ShapeOf(calls, drawn')
    BY <1>4, <1>5 DEF Shape, ShapeOf
  <2>2. Shape'
    <3>1. saved' = saved /\ calls' = calls
      BY <1>8 DEF Answered, heldVars
    <3> QED
      BY <2>1, <3>1 DEF Shape, ShapeOf
  <2>3. done' \subseteq Statements(Head(calls'))
    BY <1>1, <1>8 DEF TypeOK
  <2>4. failures' \in 0..2
    BY DEF Answered, TypeOK
  <2> QED
    BY <1>1, <1>3, <1>5, <1>6, <1>8, <2>2, <2>3, <2>4
       DEF TypeOK, Answered, heldVars
<1> QED
  BY <1>7, <1>8 DEF Answered

(* ... or fails.                                                           *)
LEMMA FailureTyped ==
    ASSUME TypeOK, Shape, calls # <<>>,
           AttemptFails \/ (conn' = conn /\ Raise),
           db' \in Tables, outdated' \subseteq Networks, failures' \in 0..2,
           UNCHANGED <<serverUp, secret, heldVars, drawn, rekey>>
    PROVE  TypeOK' /\ Shape'
<1>1. conn' \in {"open", "broken", "closed"}
  BY DEF AttemptFails, TypeOK
<1>2. CASE Raise
  <2>1. calls' = <<>> /\ attempt' = 1 /\ done' = {} /\ answer' = Raised
        /\ torn' = torn \cup WrittenBy(calls)
    BY <1>2 DEF Raise
  <2>2. WrittenBy(calls) \subseteq Networks
    <3>1. \A i \in DOMAIN calls : calls[i] \in Calls
      BY DEF TypeOK
    <3> QED
      BY <3>1, CallCases DEF WrittenBy, Writers
  <2>3. Shape'
    BY <2>1 DEF Shape, ShapeOf
  <2>4. answer'.how \in {"pending", "returned", "raised"}
    BY <2>1 DEF Raised
  <2>5. calls' \in Seq(Calls) /\ Len(calls') <= 2
    BY <2>1
  <2> QED
    BY <1>1, <2>1, <2>2, <2>3, <2>4, <2>5 DEF TypeOK, heldVars
<1>3. CASE Retry
  <2>1. Shape'
    BY <1>3 DEF Retry, Shape, ShapeOf, heldVars
  <2> QED
    BY <1>1, <1>3, <2>1 DEF Retry, TypeOK, heldVars
<1> QED
  BY <1>2, <1>3 DEF AttemptFails

(* restore_networks makes one call.                                        *)
LEMMA ListedLast ==
    ASSUME Shape, calls # <<>>, Head(calls).op = "list_networks"
    PROVE  Tail(calls) = <<>>
<1>1. calls = <<Head(calls)>>
  BY ShapeCases
<1> QED
  BY <1>1, OneCall

(* What list_networks returns is typed.                                    *)
LEMMA ListedTyped ==
    ASSUME TypeOK, Shape, NEW s \in Due, Listed(s)
    PROVE  TypeOK' /\ Shape'
<1>1. /\ db \in Tables /\ db.rows \in Partial(Networks, Row)
      /\ db.channels \in [Networks -> SUBSET Channels]
  BY DEF TypeOK, Tables
<1>2. DOMAIN db.rows \subseteq Networks
      /\ \A n \in DOMAIN db.rows : db.rows[n] \in Row
  BY <1>1, PartialElim
<1>3. saved' \in Partial(Networks, Config)
  <2>1. saved' \in [DOMAIN db.rows -> Config]
    BY <1>1, <1>2 DEF Listed, Config, Row
  <2>2. DOMAIN db.rows \in SUBSET Networks
    BY <1>2
  <2> QED
    BY <2>1, <2>2, PartialIntro
<1>4. s.do = "list_networks" /\ s \in Statements(Head(calls))
      /\ Head(calls) \in Calls /\ calls # <<>>
  BY ShapeHead DEF Listed, Due
<1>5. calls' = <<>>
  BY <1>4, StatementOf, ListedLast DEF Listed
<1>6. Shape'
  BY <1>5 DEF Shape, ShapeOf
<1>7. calls' \in Seq(Calls) /\ Len(calls') <= 2
  BY <1>5
<1>8. networks' \subseteq Networks /\ torn' \subseteq Networks
      /\ outdated' \subseteq Networks /\ serving' \in BOOLEAN
      /\ secret' # None
  BY <1>2, <1>4 DEF Listed, TypeOK
<1> QED
  BY <1>3, <1>5, <1>6, <1>7, <1>8 DEF Listed, TypeOK, Returned

(* An attempt at the current call keeps the types and the calls in order.   *)
LEMMA RunTyped ==
    ASSUME TypeOK, Shape, calls # <<>>, Run
    PROVE  TypeOK' /\ Shape'
<1>1. CASE Reconnect
  <2>1. Shape'
    BY <1>1 DEF Reconnect, procVars, heldVars, Shape, ShapeOf
  <2> QED
    BY <1>1, <2>1 DEF Reconnect, procVars, heldVars, TypeOK
<1>2. CASE StatementLost
  BY <1>2, FailureTyped DEF StatementLost, TypeOK
<1>3. CASE ConnectionRefused
  BY <1>3, FailureTyped DEF ConnectionRefused, TypeOK
<1>4. ASSUME NEW s \in Due, AnswerLost(s)
      PROVE  TypeOK' /\ Shape'
  <2>1. s \in Statements(Head(calls)) /\ Head(calls) \in Calls
    BY ShapeHead DEF Due
  <2>2. db' \in Tables
    BY <1>4, <2>1, AfterTyped DEF AnswerLost, Execute
  <2>3. outdated' \subseteq Networks
    <3>1. s.do \in {"upsert", "delete_network"} =>
              Head(calls).network \in Networks
      BY <2>1, StatementOf
    <3> QED
      BY <1>4, <3>1 DEF TypeOK, AnswerLost, Execute, OutdatedAfter
  <2> QED
    BY <1>4, <2>2, <2>3, FailureTyped DEF AnswerLost
<1>5. ASSUME NEW s \in Due, StatementRejected(s)
      PROVE  TypeOK' /\ Shape'
  BY <1>5, FailureTyped DEF StatementRejected, TypeOK
<1>6. ASSUME NEW s \in Due, Answered(s)
      PROVE  TypeOK' /\ Shape'
  BY <1>6, AnsweredTyped
<1>7. ASSUME NEW s \in Due, Listed(s)
      PROVE  TypeOK' /\ Shape'
  BY <1>7, ListedTyped
<1> QED
  BY <1>1, <1>2, <1>3, <1>4, <1>5, <1>6, <1>7 DEF Run

(* A handler keeps the types, and begins a sequence of the known shapes.   *)
LEMMA BeginTyped ==
    ASSUME TypeOK, NEW cs, Begin(cs), cs \in Seq(Calls), Len(cs) <= 2,
           saved' \in Partial(Networks, Config),
           networks' \subseteq Networks, former' \subseteq Networks
    PROVE  TypeOK'
BY DEF Begin, TypeOK, Pending

(* A handler begins with one of the known sequences of calls.               *)
LEMMA HandleTyped ==
    ASSUME TypeOK, Shape, Handle
    PROVE  TypeOK' /\ Shape'
<1>1. saved \in Partial(Networks, Config)
  BY DEF TypeOK
<1>2. \A a \in Calls : <<a>> \in Seq(Calls) /\ Len(<<a>>) <= 2
  OBVIOUS
<1>3. \A a, b \in Calls : <<a, b>> \in Seq(Calls) /\ Len(<<a, b>>) <= 2
  OBVIOUS
<1>4. ASSUME NEW n \in Networks, NEW t \in Targets,
             StoreMessage(n, t) \/ CloseQuery(n, t) \/ PutSession(n, t)
      PROVE  TypeOK' /\ Shape'
  <2>1. PICK cs \in {<<NextId, AppendMessage(n, t)>>, <<ClosePeer(n, t)>>,
                     <<SetSession, SetPointer(n, t)>>} :
            /\ Begin(cs) /\ UNCHANGED <<networks, former, saved>>
            /\ cs = <<SetSession, SetPointer(n, t)>> => drawn > 0
    BY <1>4, TwoCalls, OneCall
       DEF StoreMessage, CloseQuery, PutSession, SetSession, NextId, ClosePeer
  <2>2. cs \in Seq(Calls) /\ Len(cs) <= 2
    BY <1>1, <1>2, <1>3, CallsTyped
  <2>3. Shape'
    BY <2>1 DEF Begin, Shape, ShapeOf
  <2>4. networks' \subseteq Networks /\ former' \subseteq Networks
    BY <2>1 DEF TypeOK
  <2> QED
    BY <1>1, <2>1, <2>2, <2>3, <2>4, BeginTyped
<1>5. ASSUME NEW n \in Networks, NEW config \in Config,
             Begin(<<Save(n, config)>>), saved' = With(saved, n, config),
             networks' \subseteq Networks, former' \subseteq Networks
      PROVE  TypeOK' /\ Shape'
  <2>1. /\ saved' \in Partial(Networks, Config)
        /\ n \in DOMAIN saved' /\ saved'[n] = config
    <3>1. \A x \in Networks, y \in Config :
              With(saved, x, y) \in Partial(Networks, Config)
      BY <1>1, WithType
    <3>2. n \in DOMAIN saved' /\ saved'[n] = config
      BY <1>5 DEF With
    <3> QED
      BY <1>5, <3>1, <3>2
  <2>2. Save(n, config) \in Calls
    BY DEF Calls
  <2>3. Begin(<<Save(n, config)>>)
    BY <1>5
  <2>4. TypeOK'
    BY <1>2, <1>5, <2>1, <2>2, <2>3, BeginTyped
  <2>5. Shape'
    BY <2>1, <2>3 DEF Begin, Shape, ShapeOf
  <2> QED
    BY <2>4, <2>5
<1>6. ASSUME NEW n \in Networks, DeleteNetwork(n)
      PROVE  TypeOK' /\ Shape'
  <2>1. saved' \in Partial(Networks, Config) /\ n \notin DOMAIN saved'
    <3>1. \A f \in Partial(Networks, Config) :
              /\ Without(f, n) \in Partial(Networks, Config)
              /\ DOMAIN Without(f, n) = DOMAIN f \ {n}
      BY WithoutType
    <3> QED
      BY <1>1, <1>6, <3>1 DEF DeleteNetwork
  <2>2. Delete(n) \in Calls /\ RemoveData(n) \in Calls
    BY DEF Calls
  <2>3. Begin(<<Delete(n), RemoveData(n)>>)
    BY <1>6 DEF DeleteNetwork
  <2>4. TypeOK'
    <3>1. networks' \subseteq Networks /\ former' \subseteq Networks
      BY <1>6 DEF DeleteNetwork, TypeOK
    <3> QED
      BY <1>3, <2>1, <2>2, <2>3, <3>1, BeginTyped
  <2>5. Shape'
    BY <2>1, <2>3 DEF Begin, Shape, ShapeOf
  <2> QED
    BY <2>4, <2>5
<1>7. CASE Read
  <2>1. Begin(<<Select>>) /\ UNCHANGED <<networks, former, saved>>
    BY <1>7 DEF Read
  <2>2. TypeOK'
    <3>1. networks' \subseteq Networks /\ former' \subseteq Networks
      BY <2>1 DEF TypeOK
    <3> QED
      BY <1>1, <1>2, <2>1, <3>1, CallsTyped, BeginTyped
  <2>3. Shape'
    BY <2>1 DEF Begin, Shape, ShapeOf
  <2> QED
    BY <2>2, <2>3
<1>8. ASSUME NEW n \in Networks, NEW value \in Values,
             CreateNetwork(n, value)
      PROVE  TypeOK' /\ Shape'
  <2> DEFINE config == [value |-> value, channels |-> {}]
  <2>1. /\ Begin(<<Save(n, config)>>) /\ saved' = With(saved, n, config)
        /\ networks' \subseteq Networks /\ former' \subseteq Networks
    BY <1>8 DEF CreateNetwork, TypeOK
  <2>2. config \in Config
    BY DEF Config
  <2> HIDE DEF config
  <2> QED
    BY <1>5, <2>1, <2>2
<1>9. ASSUME NEW n \in Networks, NEW config \in Config, SaveNetwork(n, config)
      PROVE  TypeOK' /\ Shape'
  BY <1>5, <1>9 DEF SaveNetwork, TypeOK
<1> QED
  BY <1>4, <1>6, <1>7, <1>8, <1>9 DEF Handle

(* What passwd has read is a value for each of some rows.                   *)
LEMMA PasswdReadsTyped ==
    ASSUME TypeOK, NEW p \in Passphrases, PasswdReads(p)
    PROVE  rekey' \in Rekey
<1>1. db.rows \in Partial(Networks, Row)
  BY DEF TypeOK, Tables
<1>2. DOMAIN db.rows \in SUBSET Networks
      /\ \A n \in DOMAIN db.rows : db.rows[n] \in Row
  BY <1>1, PartialElim
<1> DEFINE seen == [n \in DOMAIN db.rows |-> db.rows[n].value]
<1>3. seen \in [DOMAIN db.rows -> Values]
  BY <1>2 DEF Row
<1>4. seen \in Partial(Networks, Values)
  BY <1>2, <1>3, PartialIntro
<1> QED
  BY <1>4 DEF PasswdReads, Rekey

(* The rows that passwd writes are rows.                                    *)
LEMMA RekeyedTyped ==
    ASSUME TypeOK, rekey # NotRunning
    PROVE  /\ Rekeyed(Networks) \in Partial(Networks, Row)
           /\ rekey.new \in Passphrases
<1>1. rekey.seen \in Partial(Networks, Values) /\ rekey.new \in Passphrases
  BY DEF TypeOK, Rekey
<1>2. db.rows \in Partial(Networks, Row)
  BY DEF TypeOK, Tables
<1>3. DOMAIN db.rows \in SUBSET Networks
      /\ \A n \in DOMAIN db.rows : db.rows[n] \in Row
  BY <1>2, PartialElim
<1>4. \A n \in DOMAIN rekey.seen : rekey.seen[n] \in Values
  BY <1>1, PartialElim
<1>5. Rekeyed(Networks) \in [DOMAIN db.rows -> Row]
  BY <1>1, <1>3, <1>4 DEF Rekeyed, Row
<1> QED
  BY <1>1, <1>3, <1>5, PartialIntro

(* Crashes, restarts, outages and passwd keep the types.                    *)
LEMMA SurroundingsTyped ==
    ASSUME TypeOK, Shape, Surroundings
    PROVE  TypeOK' /\ Shape'
<1>1. CASE Crash
  <2>1. calls' = <<>>
    BY <1>1 DEF Crash
  <2>3. WrittenBy(calls) \subseteq Networks
    <3>1. \A i \in DOMAIN calls : calls[i] \in Calls
      BY DEF TypeOK
    <3> QED
      BY <3>1, CallCases DEF WrittenBy, Writers
  <2>4. Shape'
    BY <2>1 DEF Shape, ShapeOf
  <2>5. calls' \in Seq(Calls) /\ Len(calls') <= 2
    BY <2>1
  <2>6. drawn' \in 0..MaxId
    BY <1>1, StoreAssumption DEF Crash
  <2> QED
    <3>1. /\ secret' = None /\ serving' = FALSE /\ conn' = "closed"
          /\ networks' = {} /\ former' = {} /\ attempt' = 1 /\ done' = {}
          /\ answer' = Pending /\ failures' = 0
          /\ torn' = torn \cup WrittenBy(calls)
          /\ UNCHANGED <<db, serverUp, saved, rekey, outdated>>
      BY <1>1 DEF Crash
    <3>2. serving' \in BOOLEAN /\ (serving' => secret' # None)
      BY <3>1, Zenon
    <3> QED
      BY <2>1, <2>3, <2>4, <2>5, <2>6, <3>1, <3>2 DEF TypeOK, Pending
<1>2. CASE ServerStops \/ ServerStarts \/ PasswdAborts
  <2>1. UNCHANGED <<db, procVars, outdated>>
        /\ rekey' \in {rekey, NotRunning} /\ serverUp' \in BOOLEAN
        /\ conn' \in {conn, "broken"}
    BY <1>2 DEF ServerStops, ServerStarts, PasswdAborts, Broken, TypeOK,
                procVars, heldVars
  <2>2. Shape'
    BY <2>1 DEF procVars, heldVars, Shape, ShapeOf
  <2>3. rekey' \in Rekey
    BY <2>1 DEF TypeOK, Rekey
  <2> QED
    BY <2>1, <2>2, <2>3 DEF procVars, heldVars, TypeOK
<1>3. CASE PasswdCommits
  <2>1. db' \in Tables
    <3>1. db' = [db EXCEPT !.rows = Rekeyed(Networks), !.probe = rekey.new]
      BY <1>3 DEF PasswdCommits
    <3>2. Rekeyed(Networks) \in Partial(Networks, Row)
          /\ rekey.new \in Passphrases
      BY <1>3, RekeyedTyped DEF PasswdCommits
    <3>3. db \in Tables
      BY DEF TypeOK
    <3> QED
      BY <3>1, <3>2, <3>3 DEF Tables
  <2>2. Shape'
    BY <1>3 DEF PasswdCommits, procVars, heldVars, Shape, ShapeOf
  <2> QED
    BY <1>3, <2>1, <2>2 DEF PasswdCommits, procVars, heldVars, TypeOK, Rekey
<1>4. ASSUME NEW p \in Passphrases, Boot(p)
      PROVE  TypeOK' /\ Shape'
  <2>1. calls' = <<ListNetworks>> /\ secret' # None
    BY <1>4, StoreAssumption DEF Boot, TypeOK
  <2>2. Shape'
    BY <2>1 DEF Shape, ShapeOf
  <2>3. calls' \in Seq(Calls) /\ Len(calls') <= 2
    BY <2>1 DEF Calls
  <2>4. calls = <<>> /\ done' = {}
    BY <1>4 DEF Boot, TypeOK
  <2>5. serving = FALSE
    BY <1>4 DEF Boot, TypeOK
  <2>6. /\ secret' \in Passphrases /\ conn' = "open"
        /\ answer' = Pending /\ failures' = 0
        /\ UNCHANGED <<db, serverUp, serving, networks, former, saved,
                       attempt, drawn, rekey, torn, outdated>>
    BY <1>4 DEF Boot, heldVars
  <2> QED
    BY <2>1, <2>2, <2>3, <2>4, <2>5, <2>6 DEF TypeOK, Pending
<1>5. ASSUME NEW p \in Passphrases, PasswdReads(p)
      PROVE  TypeOK' /\ Shape'
  <2>1. rekey' \in Rekey
    BY <1>5, PasswdReadsTyped
  <2>2. Shape'
    BY <1>5 DEF PasswdReads, procVars, heldVars, Shape, ShapeOf
  <2> QED
    BY <1>5, <2>1, <2>2 DEF PasswdReads, procVars, heldVars, TypeOK
<1> QED
  BY <1>1, <1>2, <1>3, <1>4, <1>5 DEF Surroundings

(* The types hold at the beginning.                                         *)
LEMMA InitTyped == Init => TypeOK /\ Shape
<1> SUFFICES ASSUME Init PROVE TypeOK /\ Shape
  OBVIOUS
<1>1. Shape
  BY DEF Init, Shape, ShapeOf
<1>2. \A D, R : <<>> \in Partial(D, R)
  <2>1. \A D, R : <<>> \in [{} -> R] /\ {} \in SUBSET D
    OBVIOUS
  <2> QED
    BY <2>1, PartialIntro
<1>3. db \in Tables
  <2>1. PICK p \in Passphrases :
            db = [seq |-> 0, messages |-> {}, rows |-> <<>>,
                  channels |-> [n \in Networks |-> {}], pointers |-> {},
                  probe |-> p]
    BY DEF Init
  <2>2. 0 \in 0..MaxId
    BY StoreAssumption
  <2> QED
    BY <1>2, <2>1, <2>2 DEF Tables
<1>4. saved \in Partial(Networks, Config) /\ drawn \in 0..MaxId
  BY <1>2, StoreAssumption DEF Init
<1>5. /\ serverUp = TRUE /\ conn = "closed" /\ secret = None
      /\ serving = FALSE /\ networks = {} /\ former = {}
      /\ calls = <<>> /\ attempt = 1 /\ done = {}
      /\ rekey = NotRunning /\ answer = Pending /\ failures = 0
      /\ torn = {} /\ outdated = {}
  BY DEF Init
<1>6. serving \in BOOLEAN /\ (serving => secret # None)
  BY <1>5, Zenon
<1> QED
  BY <1>1, <1>3, <1>4, <1>5, <1>6 DEF TypeOK, Pending, Rekey

(* Every step keeps the types.                                              *)
LEMMA StepTyped == TypeOK /\ Shape /\ [Next]_vars => TypeOK' /\ Shape'
<1> SUFFICES ASSUME TypeOK, Shape, [Next]_vars PROVE TypeOK' /\ Shape'
  OBVIOUS
<1>1. CASE UNCHANGED vars
  <2>1. Shape'
    BY <1>1 DEF vars, procVars, heldVars, Shape, ShapeOf
  <2> QED
    BY <1>1, <2>1 DEF vars, procVars, heldVars, TypeOK
<1> QED
  BY <1>1, RunTyped, HandleTyped, SurroundingsTyped DEF Next

(* Every variable has its type in every reachable state: what the SQL and  *)
(* the handlers write are ids, rows, channels and pointers, and a call is  *)
(* attempted at most twice.                                                *)
THEOREM TypeCorrect == Spec => []TypeOK
<1>1. Spec => [](TypeOK /\ Shape)
  BY InitTyped, StepTyped, PTL DEF Spec
<1> QED
  BY <1>1, PTL

-----------------------------------------------------------------------------
(* The keys of the rows.  The strengthening: what passwd has read is what  *)
(* the rows hold that it will write.                                       *)

SeenAgrees ==
    rekey # NotRunning =>
        \A n \in DOMAIN db.rows \ outdated :
            n \in DOMAIN rekey.seen /\ rekey.seen[n] = db.rows[n].value

(* What a statement does to the rows, and whether they are outdated then.  *)
LEMMA RowsExecuted ==
    ASSUME TypeOK, Shape, calls # <<>>, NEW s \in Due, Execute(s),
           NEW c, c = Head(calls)
    PROVE  \/ /\ s.do = "upsert" /\ c.op = "save_network"
              /\ c.network \in Networks /\ c.config \in Config
              /\ DOMAIN db'.rows = DOMAIN db.rows \cup {c.network}
              /\ db'.rows[c.network] = [value |-> c.config.value,
                                        key |-> secret]
              /\ \A n \in DOMAIN db.rows :
                    n # c.network => db'.rows[n] = db.rows[n]
              /\ IF rekey # NotRunning \/ secret # db.probe
                   THEN outdated' = outdated \cup {c.network}
                   ELSE outdated' = outdated \ {c.network}
           \/ /\ s.do = "delete_network" /\ c.op = "delete_network"
              /\ c.network \in Networks
              /\ DOMAIN db'.rows = DOMAIN db.rows \ {c.network}
              /\ \A n \in DOMAIN db.rows :
                    n # c.network => db'.rows[n] = db.rows[n]
              /\ outdated' = outdated \ {c.network}
           \/ /\ s.do \notin {"upsert", "delete_network"}
              /\ db'.rows = db.rows /\ outdated' = outdated
<1>1. s \in Statements(c) /\ c \in Calls
  BY ShapeHead DEF Due
<1>2. db'.rows = RowsAfter(c, s) /\ outdated' = OutdatedAfter(c, s)
  BY DEF Execute, After
<1>3. CASE s.do = "upsert"
  <2>1. c.op = "save_network" /\ c.network \in Networks /\ c.config \in Config
    BY <1>1, <1>3, StatementOf
  <2>2. db'.rows = With(db.rows, c.network,
                        [value |-> c.config.value, key |-> secret])
    BY <1>2, <1>3 DEF RowsAfter
  <2>3. /\ DOMAIN db'.rows = DOMAIN db.rows \cup {c.network}
        /\ db'.rows[c.network] = [value |-> c.config.value, key |-> secret]
        /\ \A n \in DOMAIN db.rows :
              n # c.network => db'.rows[n] = db.rows[n]
    BY <2>2 DEF With
  <2> QED
    BY <1>2, <1>3, <2>1, <2>3 DEF OutdatedAfter
<1>4. CASE s.do = "delete_network"
  <2>1. c.op = "delete_network" /\ c.network \in Networks
    BY <1>1, <1>4, StatementOf
  <2>2. db'.rows = Without(db.rows, c.network)
    BY <1>2, <1>4 DEF RowsAfter
  <2>3. /\ DOMAIN db'.rows = DOMAIN db.rows \ {c.network}
        /\ \A n \in DOMAIN db.rows :
              n # c.network => db'.rows[n] = db.rows[n]
    BY <2>2 DEF Without
  <2> QED
    BY <1>2, <1>4, <2>1, <2>3 DEF OutdatedAfter
<1>5. CASE s.do \notin {"upsert", "delete_network"}
  BY <1>2, <1>5 DEF RowsAfter, OutdatedAfter
<1> QED
  BY <1>3, <1>4, <1>5

(* A statement of the server keeps rows readable.                           *)
LEMMA StatementKeepsKeys ==
    ASSUME TypeOK, Shape, calls # <<>>, KeysAgree, SeenAgrees,
           NEW s \in Due, Execute(s), rekey' = rekey
    PROVE  KeysAgree' /\ SeenAgrees'
<1> DEFINE c == Head(calls)
<1>1. db'.probe = db.probe
  BY DEF Execute, After
<1>2. CASE s.do = "upsert"
  <2>1. /\ DOMAIN db'.rows = DOMAIN db.rows \cup {c.network}
        /\ db'.rows[c.network] = [value |-> c.config.value, key |-> secret]
        /\ \A n \in DOMAIN db.rows :
              n # c.network => db'.rows[n] = db.rows[n]
        /\ IF rekey # NotRunning \/ secret # db.probe
             THEN outdated' = outdated \cup {c.network}
             ELSE outdated' = outdated \ {c.network}
    BY <1>2, RowsExecuted
  <2>2. KeysAgree'
    BY <1>1, <2>1 DEF KeysAgree
  <2>3. SeenAgrees'
    BY <2>1 DEF SeenAgrees
  <2> QED
    BY <2>2, <2>3
<1>3. CASE s.do = "delete_network"
  <2>1. /\ DOMAIN db'.rows = DOMAIN db.rows \ {c.network}
        /\ \A n \in DOMAIN db.rows :
              n # c.network => db'.rows[n] = db.rows[n]
        /\ outdated' = outdated \ {c.network}
    BY <1>3, RowsExecuted
  <2> QED
    BY <1>1, <2>1 DEF KeysAgree, SeenAgrees
<1>4. CASE s.do \notin {"upsert", "delete_network"}
  <2>1. db'.rows = db.rows /\ outdated' = outdated
    BY <1>4, RowsExecuted
  <2> QED
    BY <1>1, <2>1 DEF KeysAgree, SeenAgrees
<1> QED
  BY <1>2, <1>3, <1>4

(* The steps of passwd keep rows readable.                                  *)
LEMMA PasswdKeepsKeys ==
    ASSUME TypeOK, KeysAgree, SeenAgrees, PasswdCommits
    PROVE  KeysAgree' /\ SeenAgrees'
<1>1. db.rows \in Partial(Networks, Row) /\ db \in Tables
  BY DEF TypeOK, Tables
<1>2. DOMAIN db.rows \subseteq Networks
  BY <1>1, PartialElim
<1>3. db'.rows = Rekeyed(Networks) /\ db'.probe = rekey.new
      /\ outdated' = outdated /\ rekey' = NotRunning /\ rekey # NotRunning
  BY <1>1 DEF PasswdCommits, Tables
<1>4. ASSUME NEW n \in DOMAIN db'.rows \ outdated'
      PROVE  db'.rows[n].key = db'.probe
  <2>1. n \in DOMAIN db.rows \ outdated /\ n \in DOMAIN rekey.seen
    BY <1>3, <1>4 DEF Rekeyed, SeenAgrees
  <2>2. Rekeyed(Networks)[n] = [value |-> rekey.seen[n], key |-> rekey.new]
    BY <1>2, <2>1 DEF Rekeyed
  <2> QED
    BY <1>3, <2>2
<1> QED
  BY <1>3, <1>4 DEF KeysAgree, SeenAgrees

(* Every step keeps rows readable.                                          *)
LEMMA StepKeepsKeys ==
    TypeOK /\ Shape /\ KeysAgree /\ SeenAgrees /\ [Next]_vars
        => KeysAgree' /\ SeenAgrees'
<1> SUFFICES ASSUME TypeOK, Shape, KeysAgree, SeenAgrees, [Next]_vars
             PROVE  KeysAgree' /\ SeenAgrees'
  OBVIOUS
<1>1. CASE UNCHANGED <<db, rekey, outdated>>
  BY <1>1 DEF KeysAgree, SeenAgrees
<1>2. CASE calls # <<>> /\ Run
  <2>1. CASE Reconnect \/ StatementLost \/ ConnectionRefused
    BY <1>1, <2>1 DEF Reconnect, StatementLost, ConnectionRefused
  <2>2. ASSUME NEW s \in Due, Answered(s) \/ AnswerLost(s)
        PROVE  KeysAgree' /\ SeenAgrees'
    BY <1>2, <2>2, StatementKeepsKeys DEF Answered, AnswerLost
  <2>3. ASSUME NEW s \in Due, StatementRejected(s)
        PROVE  KeysAgree' /\ SeenAgrees'
    BY <1>1, <2>3 DEF StatementRejected
  <2>4. ASSUME NEW s \in Due, Listed(s)
        PROVE  KeysAgree' /\ SeenAgrees'
    <3>1. db' = db /\ rekey' = rekey
          /\ \A n \in DOMAIN db.rows : db.rows[n].key = secret
      BY <2>4 DEF Listed, Rejected
    <3>2. \/ outdated' = outdated
          \/ outdated' = {} /\ rekey = NotRunning /\ secret = db.probe
      BY <2>4 DEF Listed
    <3> QED
      BY <3>1, <3>2 DEF KeysAgree, SeenAgrees
  <2> QED
    BY <1>2, <2>1, <2>2, <2>3, <2>4 DEF Run
<1>3. CASE Handle
  BY <1>1, <1>3 DEF Handle, StoreMessage, CloseQuery, PutSession, Read,
                    CreateNetwork, SaveNetwork, DeleteNetwork, Begin
<1>4. CASE Surroundings
  <2>1. CASE Crash \/ ServerStarts
    BY <1>1, <2>1 DEF Crash, ServerStarts
  <2>2. CASE ServerStops \/ PasswdAborts
    BY <2>2 DEF ServerStops, PasswdAborts, KeysAgree, SeenAgrees
  <2>3. CASE PasswdCommits
    BY <2>3, PasswdKeepsKeys
  <2>4. ASSUME NEW p \in Passphrases, Boot(p)
        PROVE  KeysAgree' /\ SeenAgrees'
    BY <1>1, <2>4 DEF Boot
  <2>5. ASSUME NEW p \in Passphrases, PasswdReads(p)
        PROVE  KeysAgree' /\ SeenAgrees'
    BY <2>5 DEF PasswdReads, KeysAgree, SeenAgrees
  <2> QED
    BY <1>4, <2>1, <2>2, <2>3, <2>4, <2>5 DEF Surroundings
<1> QED
  BY <1>1, <1>2, <1>3, <1>4 DEF Next, vars

(* Every password can be read with the passphrase of the probe, wherever   *)
(* the process, the server or passwd stop, and whatever failed; except     *)
(* those that a running process saved beside passwd or after it.           *)
THEOREM PasswordsReadable == Spec => []KeysAgree
<1>1. Init => KeysAgree /\ SeenAgrees
  <2> SUFFICES ASSUME Init PROVE KeysAgree /\ SeenAgrees
    OBVIOUS
  <2>1. DOMAIN db.rows = {} /\ rekey = NotRunning
    BY DEF Init
  <2> QED
    BY <2>1 DEF KeysAgree, SeenAgrees
<1>2. Spec => [](TypeOK /\ Shape /\ KeysAgree /\ SeenAgrees)
  BY <1>1, InitTyped, StepTyped, StepKeepsKeys, PTL DEF Spec
<1> QED
  BY <1>2, PTL

-----------------------------------------------------------------------------
(* Where a handler is in its calls.                                        *)

(* A message is appended right after its id is drawn.                      *)
LEMMA AppendAfterId ==
    ASSUME Shape, calls # <<>>, Tail(calls) # <<>>,
           Head(Tail(calls)).op = "append_message"
    PROVE  Head(calls).op = "next_message_id"
<1> DEFINE c == Head(calls)
<1>1. \A n, t : SetPointer(n, t).op = "set_pointer"
  BY DEF SetPointer
<1>2. \A n : RemoveData(n).op = "remove_network_data"
  BY DEF RemoveData
<1>3. calls # <<c>>
  BY OneCall
<1>4. \A a, b : calls = <<a, b>> => Head(Tail(calls)) = b
  BY TwoCalls, OneCall
<1>5. \/ c.op = "next_message_id"
      \/ \E n, t : calls = <<c, SetPointer(n, t)>>
      \/ \E n : calls = <<c, RemoveData(n)>>
  BY <1>3, ShapeCases
<1> QED
  BY <1>1, <1>2, <1>4, <1>5

-----------------------------------------------------------------------------
(* Lost connections.  The strengthening: ids are drawn before they are     *)
(* used, a call of a handler that is running has lost as many connections  *)
(* as it was begun again, and a message that is appended for the first     *)
(* time is new.                                                            *)

IdsDrawn == drawn <= db.seq /\ \A m \in db.messages : m.id <= db.seq

LossesCounted ==
    IF calls = <<>> THEN attempt = 1
    ELSE /\ answer.how # "raised"
         /\ Head(calls).op # "list_networks" => failures = attempt - 1
         /\ Head(calls).op = "append_message" /\ attempt = 1 =>
                \A m \in db.messages : m.id # drawn

LossInv == IdsDrawn /\ LossesCounted /\ OneLossIsSurvived

(* What a statement does to the messages and their ids.                    *)
LEMMA MessagesExecuted ==
    ASSUME NEW s, NEW c, c = Head(calls), Execute(s)
    PROVE  /\ db'.seq = IF s.do = "next_message_id"
                          THEN db.seq + 1 ELSE db.seq
           /\ s.do = "append_message" =>
                  db'.messages = db.messages \cup
                      {[id |-> drawn, network |-> c.network,
                        target |-> c.target]}
           /\ s.do # "append_message" => db'.messages \subseteq db.messages
BY DEF Execute, After, MessagesAfter

(* Messages keep ids that the sequence has given out.                       *)
LEMMA IdsExecuted ==
    ASSUME TypeOK, IdsDrawn, NEW s, Execute(s),
           drawn' \in {drawn, db'.seq}
    PROVE  IdsDrawn'
<1>1. db.seq \in Nat /\ drawn \in Nat /\ \A m \in db.messages : m.id \in Nat
  BY StoreAssumption DEF TypeOK, Tables, Message, Ids
<1>2. db.seq <= db'.seq /\ db'.seq \in Nat
  BY <1>1, MessagesExecuted
<1>3. ASSUME NEW m \in db'.messages
      PROVE  m.id <= db'.seq
  <2>1. m \in db.messages \/ m.id = drawn
    BY <1>3, MessagesExecuted
  <2> QED
    BY <1>1, <1>2, <2>1 DEF IdsDrawn
<1> QED
  BY <1>1, <1>2, <1>3 DEF IdsDrawn

(* An answer that arrives keeps the count of the losses right.              *)
LEMMA AnsweredCounts ==
    ASSUME TypeOK, Shape, LossInv, NEW s \in Due, Answered(s)
    PROVE  LossInv'
<1> DEFINE c == Head(calls)
<1>1. calls # <<>> /\ s \in Statements(c) /\ c \in Calls /\ Execute(s)
  BY ShapeHead DEF Answered, Due
<1>2. IdsDrawn'
  BY <1>1, IdsExecuted DEF Answered, LossInv
<1>3. CASE calls' = Tail(calls) /\ attempt' = 1 /\ answer' = Returned
  <2>1. failures' = 0
    <3>1. calls' # calls
      BY <1>1, <1>3 DEF TypeOK
    <3> QED
      BY <3>1 DEF Answered
  <2>2. ASSUME calls' # <<>>, Head(calls').op = "append_message"
        PROVE  \A m \in db'.messages : m.id # drawn'
    <3>1. c.op = "next_message_id"
      BY <1>1, <1>3, <2>2, AppendAfterId
    <3>2. s.do = "next_message_id"
      BY <1>1, <3>1, StatementOf
    <3>3. drawn' = db.seq + 1 /\ db'.messages \subseteq db.messages
      BY <1>1, <3>2, MessagesExecuted DEF Answered
    <3>4. db.seq \in Nat /\ \A m \in db.messages : m.id \in Nat
      BY StoreAssumption DEF TypeOK, Tables, Message, Ids
    <3> QED
      BY <3>3, <3>4 DEF LossInv, IdsDrawn
  <2>3. answer'.how = "returned"
    BY <1>3 DEF Returned
  <2> QED
    BY <1>2, <1>3, <2>1, <2>2, <2>3
       DEF LossInv, LossesCounted, OneLossIsSurvived
<1>4. CASE done' = done \cup {s} /\ UNCHANGED <<calls, attempt, answer, torn>>
           /\ ~(Statements(c) \subseteq done \cup {s})
  <2>1. failures' = failures
    BY <1>4 DEF Answered
  <2>2. c.op # "append_message"
    BY <1>1, <1>4 DEF Statements
  <2> QED
    BY <1>1, <1>2, <1>4, <2>1, <2>2
       DEF LossInv, LossesCounted, OneLossIsSurvived
<1> QED
  BY <1>3, <1>4 DEF Answered

(* A connection that is lost is counted, and the call begun again or       *)
(* raised; a rejected message had been stored by the first attempt.        *)
LEMMA FailureCounts ==
    ASSUME TypeOK, Shape, LossInv, calls # <<>>, IdsDrawn', AttemptFails,
           drawn' = drawn,
           \/ failures' = IF failures = 0 THEN 1 ELSE 2
           \/ /\ Head(calls).op = "append_message" /\ failures' = failures
              /\ \E m \in db.messages : m.id = drawn
              /\ db' = db
           \/ Head(calls).op = "list_networks"
    PROVE  LossInv'
<1>1. /\ answer.how # "raised"
      /\ Head(calls).op # "list_networks" => failures = attempt - 1
      /\ attempt \in {1, 2}
      /\ Head(calls).op = "append_message" /\ attempt = 1 =>
             \A m \in db.messages : m.id # drawn
  BY DEF LossInv, LossesCounted, TypeOK
<1>2. CASE attempt = 1
  <2>1. Retry /\ (Head(calls).op # "list_networks" => failures' = 1)
    BY <1>1, <1>2 DEF AttemptFails
  <2> QED
    BY <1>1, <2>1 DEF Retry, LossInv, LossesCounted, OneLossIsSurvived
<1>3. CASE attempt = 2
  <2>1. calls' = <<>> /\ attempt' = 1 /\ answer' = Raised
    BY <1>3 DEF AttemptFails, Raise
  <2>2. OneLossIsSurvived'
    BY <1>1, <1>3, <2>1 DEF OneLossIsSurvived, Raised
  <2> QED
    BY <2>1, <2>2 DEF LossInv, LossesCounted
<1> QED
  BY <1>1, <1>2, <1>3

(* No handler begins by appending a message.                               *)
LEMMA HandlerBegins ==
    ASSUME Handle
    PROVE  \E cs : Begin(cs) /\ Head(cs).op # "append_message"
<1>1. ASSUME NEW n \in Networks, NEW t \in Targets
      PROVE  /\ Head(<<NextId, AppendMessage(n, t)>>).op # "append_message"
             /\ Head(<<ClosePeer(n, t)>>).op # "append_message"
             /\ Head(<<SetSession, SetPointer(n, t)>>).op # "append_message"
  BY OneCall, TwoCalls DEF NextId, ClosePeer, SetSession
<1>2. ASSUME NEW n \in Networks
      PROVE  /\ Head(<<Delete(n), RemoveData(n)>>).op # "append_message"
             /\ \A config :
                   Head(<<Save(n, config)>>).op # "append_message"
  BY OneCall, TwoCalls DEF Delete, Save
<1>3. Head(<<Select>>).op # "append_message"
  BY OneCall DEF Select
<1> QED
  BY <1>1, <1>2, <1>3
     DEF Handle, StoreMessage, CloseQuery, PutSession, Read, CreateNetwork,
         SaveNetwork, DeleteNetwork

(* Every step keeps the count of the losses right.                          *)
LEMMA StepCounts ==
    TypeOK /\ Shape /\ LossInv /\ [Next]_vars => LossInv'
<1> SUFFICES ASSUME TypeOK, Shape, LossInv, [Next]_vars PROVE LossInv'
  OBVIOUS
<1>1. CASE UNCHANGED <<db, procVars>>
  BY <1>1 DEF procVars, LossInv, IdsDrawn, LossesCounted, OneLossIsSurvived
<1>2. CASE calls # <<>> /\ Run
  <2>1. CASE Reconnect
    BY <1>1, <2>1 DEF Reconnect
  <2>2. CASE StatementLost
    <3>1. IdsDrawn'
      BY <2>2 DEF StatementLost, LossInv, IdsDrawn
    <3> QED
      BY <1>2, <2>2, <3>1, FailureCounts DEF StatementLost
  <2>3. CASE ConnectionRefused
    <3>1. calls' = <<>> /\ attempt' = 1 /\ answer' = Raised
          /\ failures' = 2
          /\ UNCHANGED <<db, drawn>>
      BY <2>3 DEF ConnectionRefused, Raise
    <3> QED
      BY <3>1 DEF LossInv, IdsDrawn, LossesCounted, OneLossIsSurvived
  <2>4. ASSUME NEW s \in Due, Answered(s)
        PROVE  LossInv'
    BY <2>4, AnsweredCounts
  <2>5. ASSUME NEW s \in Due, AnswerLost(s)
        PROVE  LossInv'
    <3>1. IdsDrawn'
      BY <2>5, IdsExecuted DEF AnswerLost, LossInv
    <3> QED
      BY <1>2, <2>5, <3>1, FailureCounts DEF AnswerLost
  <2>6. ASSUME NEW s \in Due, StatementRejected(s)
        PROVE  LossInv'
    <3>1. IdsDrawn'
      BY <2>6 DEF StatementRejected, LossInv, IdsDrawn
    <3>2. \/ /\ Head(calls).op = "append_message"
             /\ \E m \in db.messages : m.id = drawn
          \/ Head(calls).op = "list_networks"
      BY <1>2, <2>6, ShapeHead, StatementOf
         DEF StatementRejected, Rejected, Due
    <3>3. AttemptFails /\ UNCHANGED <<db, drawn, failures>>
      BY <2>6 DEF StatementRejected
    <3> QED
      BY <1>2, <3>1, <3>2, <3>3, FailureCounts
  <2>7. ASSUME NEW s \in Due, Listed(s)
        PROVE  LossInv'
    <3>1. Head(calls).op = "list_networks"
      BY <1>2, <2>7, ShapeHead, StatementOf DEF Listed, Due
    <3>2. calls' = <<>> /\ attempt' = 1 /\ answer'.how = "returned"
          /\ UNCHANGED <<db, drawn>>
      BY <1>2, <2>7, <3>1, ListedLast DEF Listed, Returned
    <3> QED
      BY <3>2 DEF LossInv, IdsDrawn, LossesCounted, OneLossIsSurvived
  <2> QED
    BY <1>2, <2>1, <2>2, <2>3, <2>4, <2>5, <2>6, <2>7 DEF Run
<1>3. CASE Handle
  <2>1. PICK cs : Begin(cs) /\ Head(cs).op # "append_message"
    BY <1>3, HandlerBegins
  <2>3. /\ calls = <<>> /\ calls' = cs /\ answer' = Pending /\ failures' = 0
        /\ UNCHANGED <<db, drawn, attempt>>
    BY <2>1 DEF Begin
  <2>4. attempt = 1
    BY <2>3 DEF LossInv, LossesCounted
  <2> QED
    BY <2>1, <2>3, <2>4
       DEF LossInv, IdsDrawn, LossesCounted, OneLossIsSurvived, Pending
<1>4. CASE Surroundings
  <2>1. CASE Crash
    <3>1. db.seq \in Nat
      BY StoreAssumption DEF TypeOK, Tables
    <3> QED
      BY <2>1, <3>1 DEF Crash, LossInv, IdsDrawn, LossesCounted,
                        OneLossIsSurvived, Pending
  <2>2. CASE ServerStarts \/ ServerStops \/ PasswdAborts
             \/ \E p \in Passphrases : PasswdReads(p)
    BY <1>1, <2>2 DEF ServerStarts, ServerStops, PasswdAborts, PasswdReads
  <2>3. CASE PasswdCommits
    <3>1. db \in Tables
      BY DEF TypeOK
    <3>2. db'.seq = db.seq /\ db'.messages = db.messages
          /\ UNCHANGED procVars
      BY <2>3, <3>1 DEF PasswdCommits, Tables
    <3> QED
      BY <3>2 DEF procVars, LossInv, IdsDrawn, LossesCounted,
                  OneLossIsSurvived
  <2>4. ASSUME NEW p \in Passphrases, Boot(p)
        PROVE  LossInv'
    <3>1. calls = <<>> /\ attempt' = attempt /\ UNCHANGED <<db, drawn>>
      BY <2>4 DEF Boot, TypeOK
    <3>2. calls' = <<ListNetworks>> /\ answer' = Pending
      BY <2>4 DEF Boot
    <3>3. Head(calls').op = "list_networks"
      BY <3>2, OneCall DEF ListNetworks
    <3> QED
      BY <3>1, <3>2, <3>3 DEF LossInv, IdsDrawn, LossesCounted,
                              OneLossIsSurvived, Pending
  <2> QED
    BY <1>4, <2>1, <2>2, <2>3, <2>4 DEF Surroundings
<1> QED
  BY <1>1, <1>2, <1>3, <1>4 DEF Next, vars, procVars

(* A call of a handler raises only when it has lost two connections or the *)
(* server takes none, or, after one loss, when it appends a message whose  *)
(* first insert was executed and not answered, and that message is stored. *)
THEOREM LossSurvived == Spec => []OneLossIsSurvived
<1>1. Init => LossInv
  BY DEF Init, LossInv, IdsDrawn, LossesCounted, OneLossIsSurvived, Pending
<1>2. Spec => [](TypeOK /\ Shape /\ LossInv)
  BY <1>1, InitTyped, StepTyped, StepCounts, PTL DEF Spec
<1>3. LossInv => OneLossIsSurvived
  BY DEF LossInv
<1> QED
  BY <1>2, <1>3, PTL

-----------------------------------------------------------------------------
(* What a call has done when it returns.  The strengthening: what the      *)
(* answered statements of the attempt have done so far, with the channels  *)
(* that were inserted again since they were deleted.                       *)

AddOf(ch) == [at |-> 3, do |-> "add", channel |-> ch]

SaveProgress(c) ==
    /\ Statement(1, "upsert") \in done /\ c.network \notin outdated =>
           /\ c.network \in DOMAIN db.rows
           /\ db.rows[c.network].value = c.config.value
    /\ IF Statement(2, "clear") \in done
         THEN db.channels[c.network] =
                  {ch \in c.config.channels : AddOf(ch) \in done}
         ELSE \A ch \in c.config.channels : AddOf(ch) \notin done

RemovalProgress(c) ==
    /\ Statement(1, "remove_messages") \in done =>
           \A m \in db.messages : m.network # c.network
    /\ Statement(2, "remove_pointers") \in done =>
           \A p \in db.pointers : p.network # c.network

Progress ==
    LET c == Head(calls)
    IN /\ c.op = "save_network" => SaveProgress(c)
       /\ c.op = "remove_network_data" => RemovalProgress(c)

ProgressMade == calls # <<>> => Progress

(* What a statement does to the channels.                                  *)
LEMMA ChannelsExecuted ==
    ASSUME TypeOK, Shape, calls # <<>>, NEW s \in Due, Execute(s),
           NEW c, c = Head(calls)
    PROVE  /\ \A n \in Networks :
                  c.op \notin {"save_network", "delete_network"}
                  \/ n # c.network => db'.channels[n] = db.channels[n]
           /\ s.do \in {"clear", "delete_network"} =>
                  db'.channels[c.network] = {}
           /\ s.do = "add" => db'.channels[c.network] =
                                  db.channels[c.network] \cup {s.channel}
           /\ s.do \notin {"clear", "delete_network", "add"} =>
                  db'.channels = db.channels
<1>1. s \in Statements(c) /\ c \in Calls
  BY ShapeHead DEF Due
<1>2. db'.channels = ChannelsAfter(c, s)
  BY DEF Execute, After
<1>3. db.channels \in [Networks -> SUBSET Channels]
  BY DEF TypeOK, Tables
<1>4. s.do \in {"clear", "delete_network", "add"} =>
          c.network \in Networks /\ c.op \in {"save_network", "delete_network"}
  BY <1>1, StatementOf
<1> QED
  BY <1>2, <1>3, <1>4 DEF ChannelsAfter

(* One more statement of a save.                                           *)
LEMMA SaveProgresses ==
    ASSUME TypeOK, Shape, calls # <<>>, NEW s \in Due, Execute(s),
           NEW c, c = Head(calls), c.op = "save_network", SaveProgress(c)
    PROVE  /\ s = Statement(1, "upsert") \/ Statement(1, "upsert") \in done
              => (c.network \notin outdated' =>
                     /\ c.network \in DOMAIN db'.rows
                     /\ db'.rows[c.network].value = c.config.value)
           /\ IF Statement(2, "clear") \in done \cup {s}
                THEN db'.channels[c.network] =
                         {ch \in c.config.channels :
                             AddOf(ch) \in done \cup {s}}
                ELSE \A ch \in c.config.channels :
                         AddOf(ch) \notin done \cup {s}
<1>1. s \in Statements(c) /\ c \in Calls /\ c.network \in Networks
      /\ c.config \in Config
  BY ShapeHead, CallCases DEF Due
<1>2. /\ \A ch : AddOf(ch) # Statement(1, "upsert")
      /\ \A ch : AddOf(ch) # Statement(2, "clear")
      /\ Statement(1, "upsert") # Statement(2, "clear")
      /\ \A ch, ch2 : AddOf(ch) = AddOf(ch2) => ch = ch2
  BY DEF AddOf, Statement
<1>3. CASE s = Statement(1, "upsert")
  <2>1. s.do = "upsert"
    BY <1>3 DEF Statement
  <2>2. c.network \in DOMAIN db'.rows
        /\ db'.rows[c.network].value = c.config.value
    <3>1. /\ DOMAIN db'.rows = DOMAIN db.rows \cup {c.network}
          /\ db'.rows[c.network] = [value |-> c.config.value,
                                    key |-> secret]
      BY <2>1, RowsExecuted
    <3> QED
      BY <3>1
  <2>3. db'.channels = db.channels
    BY <2>1, ChannelsExecuted
  <2> QED
    BY <1>2, <1>3, <2>2, <2>3 DEF SaveProgress
<1>4. CASE s = Statement(2, "clear")
  <2>1. s.do = "clear"
    BY <1>4 DEF Statement
  <2>2. db'.rows = db.rows /\ outdated' = outdated
    BY <2>1, RowsExecuted
  <2>3. db'.channels[c.network] = {} /\ s \notin done
    BY <2>1, ChannelsExecuted DEF Due
  <2> QED
    BY <1>2, <1>4, <2>2, <2>3 DEF SaveProgress
<1>5. ASSUME NEW new \in c.config.channels, s = AddOf(new)
      PROVE  /\ Statement(1, "upsert") \in done
                => (c.network \notin outdated' =>
                       /\ c.network \in DOMAIN db'.rows
                       /\ db'.rows[c.network].value = c.config.value)
             /\ Statement(2, "clear") \in done
             /\ db'.channels[c.network] =
                    {ch \in c.config.channels : AddOf(ch) \in done \cup {s}}
  <2>1. s.do = "add" /\ s.at = 3 /\ s.channel = new
    BY <1>5 DEF AddOf
  <2>2. db'.rows = db.rows /\ outdated' = outdated
    BY <2>1, RowsExecuted
  <2>3. Statement(2, "clear") \in done
    <3>1. Statement(2, "clear") \in Statements(c)
          /\ Statement(2, "clear").at = 2
      BY DEF Statements, Statement
    <3> QED
      BY <2>1, <3>1 DEF Due
  <2>4. db'.channels[c.network] = db.channels[c.network] \cup {new}
    BY <2>1, ChannelsExecuted
  <2> QED
    BY <1>2, <1>5, <2>2, <2>3, <2>4 DEF SaveProgress
<1>6. s = Statement(1, "upsert") \/ s = Statement(2, "clear")
      \/ \E ch \in c.config.channels : s = AddOf(ch)
  BY <1>1, StatementCases DEF AddOf
<1> QED
  BY <1>2, <1>3, <1>4, <1>5, <1>6

(* One more statement of a removal.                                        *)
LEMMA RemovalProgresses ==
    ASSUME TypeOK, Shape, calls # <<>>, NEW s \in Due, Execute(s),
           NEW c, c = Head(calls), c.op = "remove_network_data",
           RemovalProgress(c)
    PROVE  /\ Statement(1, "remove_messages") \in done \cup {s} =>
                  \A m \in db'.messages : m.network # c.network
           /\ Statement(2, "remove_pointers") \in done \cup {s} =>
                  \A p \in db'.pointers : p.network # c.network
<1>1. s \in Statements(c) /\ c \in Calls
  BY ShapeHead DEF Due
<1>2. Statement(1, "remove_messages") # Statement(2, "remove_pointers")
      /\ Statement(1, "remove_messages").do = "remove_messages"
      /\ Statement(2, "remove_pointers").do = "remove_pointers"
  BY DEF Statement
<1>3. db'.messages = MessagesAfter(c, s) /\ db'.pointers = PointersAfter(c, s)
  BY DEF Execute, After
<1>4. \/ s = Statement(1, "remove_messages")
      \/ s = Statement(2, "remove_pointers")
  BY <1>1, StatementCases
<1> QED
  BY <1>2, <1>3, <1>4 DEF RemovalProgress, MessagesAfter, PointersAfter

(* Nothing is asked of the progress of an attempt that begins.             *)
LEMMA NothingDone ==
    ASSUME done' = {}
    PROVE  ProgressMade'
BY DEF ProgressMade, Progress, SaveProgress, RemovalProgress

(* An answer that arrives adds its statement to those that are done.        *)
LEMMA AnsweredProgress ==
    ASSUME TypeOK, Shape, ProgressMade, NEW s \in Due, Answered(s)
    PROVE  ProgressMade'
<1> DEFINE c == Head(calls)
<1>1. calls # <<>> /\ Execute(s) /\ Progress
  BY DEF Answered, ProgressMade
<1>2. CASE done' = {}
  BY <1>2, NothingDone
<1>3. CASE done' = done \cup {s} /\ calls' = calls
  <2>1. CASE c.op = "save_network"
    <3>1. SaveProgress(c)
      BY <1>1, <2>1 DEF Progress
    <3>2. SaveProgress(c)'
      BY <1>1, <1>3, <2>1, <3>1, SaveProgresses DEF SaveProgress
    <3> QED
      BY <1>3, <2>1, <3>2 DEF ProgressMade, Progress
  <2>2. CASE c.op = "remove_network_data"
    <3>1. RemovalProgress(c)
      BY <1>1, <2>2 DEF Progress
    <3>2. RemovalProgress(c)'
      BY <1>1, <1>3, <2>2, <3>1, RemovalProgresses DEF RemovalProgress
    <3> QED
      BY <1>3, <2>2, <3>2 DEF ProgressMade, Progress
  <2> QED
    BY <1>3, <2>1, <2>2 DEF ProgressMade, Progress
<1> QED
  BY <1>2, <1>3 DEF Answered

(* passwd, which may commit between two statements, writes the values that *)
(* the rows have, unless they are outdated.                                *)
LEMMA PasswdKeepsValues ==
    ASSUME TypeOK, SeenAgrees, PasswdCommits
    PROVE  /\ DOMAIN db'.rows = DOMAIN db.rows
           /\ \A n \in DOMAIN db.rows :
                 n \notin outdated => db'.rows[n].value = db.rows[n].value
           /\ db'.channels = db.channels /\ db'.messages = db.messages
           /\ db'.pointers = db.pointers /\ UNCHANGED <<procVars, outdated>>
<1>1. db \in Tables
  BY DEF TypeOK
<1>2. db'.rows = Rekeyed(Networks) /\ db'.channels = db.channels
      /\ db'.messages = db.messages /\ db'.pointers = db.pointers
  BY <1>1 DEF PasswdCommits, Tables
<1>3. ASSUME NEW n \in DOMAIN db.rows, n \notin outdated
      PROVE  Rekeyed(Networks)[n].value = db.rows[n].value
  <2>1. n \in DOMAIN rekey.seen /\ rekey.seen[n] = db.rows[n].value
    BY <1>3 DEF SeenAgrees, PasswdCommits
  <2>2. Rekeyed(Networks)[n] = [value |-> rekey.seen[n], key |-> rekey.new]
        \/ Rekeyed(Networks)[n] = db.rows[n]
    BY <2>1 DEF Rekeyed
  <2> QED
    BY <2>1, <2>2
<1> QED
  BY <1>2, <1>3 DEF Rekeyed, PasswdCommits

(* Every step keeps what is done by a call in the tables.                   *)
LEMMA StepProgresses ==
    TypeOK /\ Shape /\ SeenAgrees /\ ProgressMade /\ [Next]_vars
        => ProgressMade'
<1> SUFFICES ASSUME TypeOK, Shape, SeenAgrees, ProgressMade, [Next]_vars
             PROVE  ProgressMade'
  OBVIOUS
<1>1. CASE UNCHANGED <<db, calls, done, outdated>>
  BY <1>1 DEF ProgressMade, Progress, SaveProgress, RemovalProgress
<1>2. CASE calls # <<>> /\ Run
  <2>1. CASE Reconnect
    BY <1>1, <2>1 DEF Reconnect, procVars
  <2>2. CASE StatementLost \/ ConnectionRefused
    BY <2>2, NothingDone
       DEF StatementLost, ConnectionRefused, AttemptFails, Retry, Raise
  <2>3. ASSUME NEW s \in Due, Answered(s)
        PROVE  ProgressMade'
    BY <2>3, AnsweredProgress
  <2>4. ASSUME NEW s \in Due, AnswerLost(s) \/ StatementRejected(s)
        PROVE  ProgressMade'
    BY <2>4, NothingDone
       DEF AnswerLost, StatementRejected, AttemptFails, Retry, Raise
  <2>5. ASSUME NEW s \in Due, Listed(s)
        PROVE  ProgressMade'
    BY <2>5, NothingDone DEF Listed
  <2> QED
    BY <1>2, <2>1, <2>2, <2>3, <2>4, <2>5 DEF Run
<1>3. CASE Handle
  <2>1. calls = <<>> /\ done' = done
    BY <1>3 DEF Handle, StoreMessage, CloseQuery, PutSession, Read,
                CreateNetwork, SaveNetwork, DeleteNetwork, Begin
  <2>2. done' = {}
    BY <2>1 DEF TypeOK
  <2> QED
    BY <2>2, NothingDone
<1>4. CASE Surroundings
  <2>1. CASE Crash
    BY <2>1, NothingDone DEF Crash
  <2>2. CASE ServerStarts \/ ServerStops \/ PasswdAborts
             \/ \E p \in Passphrases : PasswdReads(p)
    BY <1>1, <2>2
       DEF ServerStarts, ServerStops, PasswdAborts, PasswdReads, procVars
  <2>3. CASE PasswdCommits
    <3>1. /\ DOMAIN db'.rows = DOMAIN db.rows
          /\ \A n \in DOMAIN db.rows :
                n \notin outdated => db'.rows[n].value = db.rows[n].value
          /\ db'.channels = db.channels /\ db'.messages = db.messages
          /\ db'.pointers = db.pointers
          /\ calls' = calls /\ done' = done /\ outdated' = outdated
      BY <2>3, PasswdKeepsValues DEF procVars
    <3> QED
      BY <3>1 DEF ProgressMade, Progress, SaveProgress, RemovalProgress
  <2>4. ASSUME NEW p \in Passphrases, Boot(p)
        PROVE  ProgressMade'
    <3>1. done' = {}
      BY <2>4 DEF Boot, TypeOK
    <3> QED
      BY <3>1, NothingDone
  <2> QED
    BY <1>4, <2>1, <2>2, <2>3, <2>4 DEF Surroundings
<1> QED
  BY <1>1, <1>2, <1>3, <1>4 DEF Next, vars, procVars

(* The last statement of a call completes its effect.                      *)
LEMMA LastStatement ==
    ASSUME TypeOK, Shape, IdsDrawn, ProgressMade, NEW s \in Due, Answered(s),
           NEW c, c = Head(calls), Statements(c) \subseteq done \cup {s}
    PROVE  Effect(c)'
<1>1. calls # <<>> /\ Execute(s) /\ Progress /\ s \in Statements(c)
      /\ c \in Calls
  BY ShapeHead DEF Answered, ProgressMade, Due
<1>2. CASE c.op = "next_message_id"
  <2>1. s.do = "next_message_id"
    BY <1>1, <1>2, StatementOf
  <2>2. drawn' = db.seq + 1 /\ db'.messages \subseteq db.messages
    BY <1>1, <2>1, MessagesExecuted DEF Answered
  <2>3. db.seq \in Nat /\ \A m \in db.messages : m.id \in Nat
    BY StoreAssumption DEF TypeOK, Tables, Message, Ids
  <2> QED
    BY <1>2, <2>2, <2>3 DEF IdsDrawn, Effect
<1>3. CASE c.op = "append_message"
  <2>1. s.do = "append_message"
    BY <1>1, <1>3, StatementOf
  <2>2. drawn' = drawn
    BY <2>1 DEF Answered
  <2> QED
    BY <1>1, <1>3, <2>1, <2>2, MessagesExecuted DEF Effect
<1>4. CASE c.op = "save_network"
  <2>1. SaveProgress(c)
    BY <1>1, <1>4 DEF Progress
  <2>2. /\ Statement(1, "upsert") \in Statements(c)
        /\ Statement(2, "clear") \in Statements(c)
        /\ \A ch \in c.config.channels : AddOf(ch) \in Statements(c)
    BY <1>4 DEF Statements, Adds, AddOf
  <2>3. /\ c.network \notin outdated' =>
               /\ c.network \in DOMAIN db'.rows
               /\ db'.rows[c.network].value = c.config.value
        /\ db'.channels[c.network] =
               {ch \in c.config.channels : AddOf(ch) \in done \cup {s}}
    BY <1>1, <1>4, <2>1, <2>2, SaveProgresses
  <2> QED
    BY <1>4, <2>2, <2>3 DEF Effect
<1>5. CASE c.op = "delete_network"
  <2>1. s.do = "delete_network"
    BY <1>1, <1>5, StatementOf
  <2>2. db'.channels[c.network] = {}
    BY <1>1, <2>1, ChannelsExecuted
  <2>3. DOMAIN db'.rows = DOMAIN db.rows \ {c.network}
    BY <1>1, <2>1, RowsExecuted
  <2> QED
    BY <1>5, <2>2, <2>3 DEF Effect
<1>6. CASE c.op = "remove_network_data"
  <2>1. RemovalProgress(c)
    BY <1>1, <1>6 DEF Progress
  <2>2. /\ Statement(1, "remove_messages") \in Statements(c)
        /\ Statement(2, "remove_pointers") \in Statements(c)
    BY <1>6 DEF Statements, StatementsOfRemoval
  <2>3. /\ \A m \in db'.messages : m.network # c.network
        /\ \A p \in db'.pointers : p.network # c.network
    BY <1>1, <1>6, <2>1, <2>2, RemovalProgresses
  <2> QED
    BY <1>6, <2>3 DEF Effect
<1>7. CASE c.op \notin {"next_message_id", "append_message", "save_network",
                        "delete_network", "remove_network_data"}
  BY <1>7 DEF Effect
<1> QED
  BY <1>2, <1>3, <1>4, <1>5, <1>6, <1>7

(* Only the answer to its last statement lets a call return.               *)
LEMMA OnlyAnswersReturn ==
    ASSUME TypeOK, [Next]_vars, calls # <<>>, answer' = Returned,
           calls' = Tail(calls)
    PROVE  \E s \in Due :
              \/ /\ Answered(s)
                 /\ Statements(Head(calls)) \subseteq done \cup {s}
              \/ Listed(s)
<1>1. calls' # calls
  BY DEF TypeOK
<1>2. answer' # Raised /\ answer' # Pending
  BY DEF Returned, Raised, Pending
<1>3. CASE Run
  <2>1. ~(StatementLost \/ ConnectionRefused \/ Reconnect)
    BY <1>1, <1>2 DEF StatementLost, ConnectionRefused, Reconnect, procVars,
                      AttemptFails, Retry, Raise
  <2>2. \A s \in Due : ~(AnswerLost(s) \/ StatementRejected(s))
    BY <1>1, <1>2
       DEF AnswerLost, StatementRejected, AttemptFails, Retry, Raise
  <2> QED
    BY <1>1, <1>3, <2>1, <2>2 DEF Run, Answered
<1>4. ~Handle
  BY DEF Handle, StoreMessage, CloseQuery, PutSession, Read, CreateNetwork,
         SaveNetwork, DeleteNetwork, Begin
<1>5. ~Surroundings
  <2>1. ~Crash
    BY <1>2 DEF Crash
  <2>2. ~(ServerStarts \/ ServerStops \/ PasswdAborts \/ PasswdCommits)
    BY <1>1 DEF ServerStarts, ServerStops, PasswdAborts, PasswdCommits,
                procVars
  <2>3. \A p \in Passphrases : ~(Boot(p) \/ PasswdReads(p))
    BY <1>1, <1>2 DEF Boot, PasswdReads, procVars
  <2> QED
    BY <2>1, <2>2, <2>3 DEF Surroundings
<1> QED
  BY <1>1, <1>3, <1>4, <1>5 DEF Next, vars, procVars

(* A call that returns has had its whole effect, whichever of its attempts *)
(* did it and wherever the first was cut off, and an id that it returns is *)
(* above those of all stored messages.                                     *)
THEOREM ReturnedDone == Spec => ReturnedIsDone
<1> DEFINE Inv == TypeOK /\ Shape /\ KeysAgree /\ SeenAgrees /\ LossInv
                     /\ ProgressMade
<1> DEFINE Step ==
      \A c \in Calls :
          calls # <<>> /\ c = Head(calls) /\ answer' = Returned
             /\ calls' = Tail(calls) => Effect(c)'
<1>1. Init => Inv
  <2>1. Init => KeysAgree /\ SeenAgrees
    <3> SUFFICES ASSUME Init PROVE KeysAgree /\ SeenAgrees
      OBVIOUS
    <3>1. DOMAIN db.rows = {} /\ rekey = NotRunning
      BY DEF Init
    <3> QED
      BY <3>1 DEF KeysAgree, SeenAgrees
  <2>2. Init => LossInv
    BY DEF Init, LossInv, IdsDrawn, LossesCounted, OneLossIsSurvived, Pending
  <2>3. Init => ProgressMade
    BY DEF Init, ProgressMade
  <2> QED
    BY <2>1, <2>2, <2>3, InitTyped
<1>2. Inv /\ [Next]_vars => Inv'
  BY StepTyped, StepKeepsKeys, StepCounts, StepProgresses
<1>3. Inv /\ [Next]_vars => Step
  <2> SUFFICES ASSUME Inv, [Next]_vars, NEW c \in Calls, calls # <<>>,
                      c = Head(calls), answer' = Returned,
                      calls' = Tail(calls)
               PROVE  Effect(c)'
    OBVIOUS
  <2>1. PICK s \in Due :
            \/ Answered(s) /\ Statements(c) \subseteq done \cup {s}
            \/ Listed(s)
    BY OnlyAnswersReturn
  <2>2. CASE Answered(s) /\ Statements(c) \subseteq done \cup {s}
    BY <2>2, LastStatement DEF LossInv
  <2>3. CASE Listed(s)
    <3>1. c.op = "list_networks"
      BY <2>3, ShapeHead, StatementOf DEF Listed, Due
    <3> QED
      BY <3>1 DEF Effect
  <2> QED
    BY <2>1, <2>2, <2>3
<1>4. Inv /\ [Next]_vars => [Step]_vars
  BY <1>3
<1> HIDE DEF Inv, Step
<1>5. Spec => [][Step]_vars
  BY <1>1, <1>2, <1>4, PTL DEF Spec
<1> QED
  BY <1>5 DEF ReturnedIsDone, Step

-----------------------------------------------------------------------------
(* The tables and the last calls.  The strengthening: while a call is      *)
(* running only the network it writes may differ, and networks that were   *)
(* saved beside passwd have rows.                                          *)

Matches(n) ==
    IF n \in DOMAIN saved
      THEN /\ n \in DOMAIN db.rows
           /\ db.rows[n].value = saved[n].value
           /\ db.channels[n] = saved[n].channels
      ELSE n \notin DOMAIN db.rows /\ db.channels[n] = {}

Excused == torn \cup outdated \cup WrittenBy(calls)

OutdatedHaveRows == outdated \subseteq DOMAIN db.rows

OthersMatch == \A n \in Networks \ Excused : Matches(n)

MatchInv == OutdatedHaveRows /\ OthersMatch

(* The networks that no, one and two calls write.                          *)
LEMMA WrittenByFew ==
    ASSUME NEW a, NEW b
    PROVE  /\ WrittenBy(<<>>) = {}
           /\ WrittenBy(<<a>>) = IF a.op \in Writers THEN {a.network} ELSE {}
           /\ WrittenBy(<<a, b>>) =
                  (IF a.op \in Writers THEN {a.network} ELSE {})
                      \cup (IF b.op \in Writers THEN {b.network} ELSE {})
<1>1. DOMAIN <<a, b>> = {1, 2} /\ <<a, b>>[1] = a /\ <<a, b>>[2] = b
  OBVIOUS
<1>2. WrittenBy(<<>>) = {}
  BY DEF WrittenBy
<1>3. WrittenBy(<<a>>) = IF a.op \in Writers THEN {a.network} ELSE {}
  BY DEF WrittenBy
<1> QED
  BY <1>1, <1>2, <1>3 DEF WrittenBy

(* A handler writes a network with its first call only.                    *)
LEMMA ShapeWritten ==
    ASSUME Shape, calls # <<>>, NEW c, c = Head(calls)
    PROVE  /\ WrittenBy(calls) = IF c.op \in Writers THEN {c.network} ELSE {}
           /\ WrittenBy(Tail(calls)) = {}
<1>1. CASE calls = <<c>>
  <2>1. Tail(calls) = <<>>
    BY <1>1, OneCall
  <2> QED
    BY <1>1, <2>1, WrittenByFew
<1>2. ASSUME NEW b, calls = <<c, b>>, b.op \notin Writers
      PROVE  /\ WrittenBy(calls) =
                    IF c.op \in Writers THEN {c.network} ELSE {}
             /\ WrittenBy(Tail(calls)) = {}
  <2>1. Tail(calls) = <<b>>
    BY <1>2, TwoCalls
  <2> QED
    BY <1>2, <2>1, WrittenByFew
<1>3. \A n, t : /\ AppendMessage(n, t).op \notin Writers
                /\ SetPointer(n, t).op \notin Writers
                /\ RemoveData(n).op \notin Writers
  BY DEF AppendMessage, SetPointer, RemoveData, Writers
<1>4. calls = <<c>> \/ \E b : b.op \notin Writers /\ calls = <<c, b>>
  BY <1>3, ShapeCases
<1> QED
  BY <1>1, <1>2, <1>4

(* A statement disturbs only the network that its call writes.             *)
LEMMA OthersUndisturbed ==
    ASSUME TypeOK, Shape, calls # <<>>, NEW s \in Due, Execute(s),
           saved' = saved,
           NEW n \in Networks, n \notin WrittenBy(calls), Matches(n)
    PROVE  Matches(n)'
<1> DEFINE c == Head(calls)
<1>1. c.op \in Writers => n # c.network
  BY ShapeWritten
<1>2. \/ /\ c.op \in {"save_network", "delete_network"}
         /\ \/ DOMAIN db'.rows = DOMAIN db.rows \cup {c.network}
            \/ DOMAIN db'.rows = DOMAIN db.rows \ {c.network}
         /\ \A x \in DOMAIN db.rows :
               x # c.network => db'.rows[x] = db.rows[x]
      \/ db'.rows = db.rows
  BY RowsExecuted
<1>3. n \in DOMAIN db'.rows <=> n \in DOMAIN db.rows
  BY <1>1, <1>2 DEF Writers
<1>4. n \in DOMAIN db.rows => db'.rows[n] = db.rows[n]
  BY <1>1, <1>2 DEF Writers
<1>5. db'.channels[n] = db.channels[n]
  BY <1>1, ChannelsExecuted DEF Writers
<1> QED
  BY <1>3, <1>4, <1>5 DEF Matches

(* A statement keeps the parts that do not depend on what follows.         *)
LEMMA ExecutedKeeps ==
    ASSUME TypeOK, Shape, calls # <<>>, MatchInv, NEW s \in Due, Execute(s),
           saved' = saved
    PROVE  /\ OutdatedHaveRows'
           /\ \A n \in Networks \ Excused : Matches(n)'
           /\ \A n \in outdated : n \in outdated' \/ n \in WrittenBy(calls)
<1> DEFINE c == Head(calls)
<1>1. \/ /\ c.op = "save_network"
         /\ DOMAIN db'.rows = DOMAIN db.rows \cup {c.network}
         /\ \/ outdated' = outdated \cup {c.network}
            \/ outdated' = outdated \ {c.network}
      \/ /\ c.op = "delete_network"
         /\ DOMAIN db'.rows = DOMAIN db.rows \ {c.network}
         /\ outdated' = outdated \ {c.network}
      \/ db'.rows = db.rows /\ outdated' = outdated
  BY RowsExecuted
<1>2. OutdatedHaveRows'
  BY <1>1 DEF MatchInv, OutdatedHaveRows
<1>3. ASSUME NEW n \in Networks \ Excused
      PROVE  Matches(n)'
  <2>1. Matches(n) /\ n \notin WrittenBy(calls)
    BY <1>3 DEF MatchInv, OthersMatch, Excused
  <2> QED
    BY <2>1, OthersUndisturbed
<1>4. c.op \in Writers => c.network \in WrittenBy(calls)
  BY ShapeWritten
<1>5. \A n \in outdated : n \in outdated' \/ n \in WrittenBy(calls)
  BY <1>1, <1>4 DEF Writers
<1> QED
  BY <1>2, <1>3, <1>5

(* A call that failed leaves what it writes excused, as long as it is      *)
(* called again and for good when it raised.                               *)
LEMMA FailureKeepsMatch ==
    ASSUME TypeOK, Shape, calls # <<>>, MatchInv,
           AttemptFails \/ Raise, saved' = saved,
           \/ UNCHANGED <<db, outdated>>
           \/ \E s \in Due : Execute(s)
    PROVE  MatchInv'
<1>1. /\ OutdatedHaveRows'
      /\ \A n \in Networks \ Excused : Matches(n)'
      /\ \A n \in outdated : n \in outdated' \/ n \in WrittenBy(calls)
  <2>1. CASE UNCHANGED <<db, outdated>>
    <3>1. ASSUME NEW n \in Networks \ Excused
          PROVE  Matches(n)'
      <4>1. Matches(n)
        BY DEF MatchInv, OthersMatch
      <4> QED
        BY <2>1, <4>1 DEF Matches
    <3> QED
      BY <2>1, <3>1 DEF MatchInv, OutdatedHaveRows
  <2> QED
    BY <2>1, ExecutedKeeps
<1>2. torn' \cup WrittenBy(calls') = torn \cup WrittenBy(calls)
  <2>1. CASE Retry
    BY <2>1 DEF Retry
  <2>2. CASE Raise
    <3>1. calls' = <<>> /\ torn' = torn \cup WrittenBy(calls)
      BY <2>2 DEF Raise
    <3>2. WrittenBy(<<>>) = {}
      BY DEF WrittenBy
    <3> QED
      BY <3>1, <3>2
  <2> QED
    BY <2>1, <2>2 DEF AttemptFails
<1>3. \A n \in Networks : n \notin Excused' => n \notin Excused
  <2>1. Excused' = torn' \cup outdated' \cup WrittenBy(calls')
    BY DEF Excused
  <2> QED
    BY <1>1, <1>2, <2>1 DEF Excused
<1> QED
  BY <1>1, <1>3 DEF MatchInv, OthersMatch

(* An answer that arrives makes the network match when it is the last of a *)
(* save or a deletion; before that the network stays excused.              *)
LEMMA AnsweredKeepsMatch ==
    ASSUME TypeOK, Shape, IdsDrawn, ProgressMade, MatchInv,
           NEW s \in Due, Answered(s)
    PROVE  MatchInv'
<1>0. PICK c : c = Head(calls)
  OBVIOUS
<1>1. calls # <<>> /\ Execute(s) /\ saved' = saved
  BY DEF Answered, heldVars
<1>2. /\ OutdatedHaveRows'
      /\ \A n \in Networks \ Excused : Matches(n)'
      /\ \A n \in outdated : n \in outdated' \/ n \in WrittenBy(calls)
  BY <1>1, ExecutedKeeps
<1>3. CASE Statements(c) \subseteq done \cup {s}
  <2>1. /\ WrittenBy(calls) = IF c.op \in Writers THEN {c.network} ELSE {}
        /\ WrittenBy(calls') = {}
        /\ torn' = IF c.op \in Writers THEN torn \ {c.network} ELSE torn
    <3>1. calls' = Tail(calls)
          /\ torn' = IF c.op \in Writers THEN torn \ {c.network} ELSE torn
      BY <1>0, <1>3 DEF Answered
    <3> QED
      BY <1>0, <1>1, <3>1, ShapeWritten
  <2>2. Effect(c)'
    BY <1>0, <1>3, LastStatement
  <2>3. ASSUME c.op \in Writers, c.network \notin outdated'
        PROVE  Matches(c.network)'
    <3>1. CASE c.op = "save_network"
      <4>1. c.network \in DOMAIN saved /\ c.config = saved[c.network]
        BY <1>0, <1>1, <3>1, ShapeCases
      <4> QED
        BY <1>1, <2>2, <2>3, <3>1, <4>1 DEF Effect, Matches
    <3>2. CASE c.op = "delete_network"
      <4>1. c.network \notin DOMAIN saved
        BY <1>0, <1>1, <3>2, ShapeCases
      <4> QED
        BY <1>1, <2>2, <3>2, <4>1 DEF Effect, Matches
    <3> QED
      BY <2>3, <3>1, <3>2 DEF Writers
  <2>4. ASSUME NEW n \in Networks, n \notin Excused'
        PROVE  Matches(n)'
    <3>1. n \notin torn' /\ n \notin outdated'
      BY <2>4 DEF Excused
    <3>2. CASE c.op \in Writers /\ n = c.network
      BY <2>3, <3>1, <3>2
    <3>3. CASE ~(c.op \in Writers /\ n = c.network)
      <4>1. n \notin WrittenBy(calls) /\ n \notin torn
        BY <2>1, <3>1, <3>3
      <4>2. n \notin Excused
        BY <1>2, <3>1, <4>1 DEF Excused
      <4> QED
        BY <1>2, <4>2
    <3> QED
      BY <3>2, <3>3
  <2> QED
    BY <1>2, <2>4 DEF MatchInv, OthersMatch
<1>4. CASE ~(Statements(c) \subseteq done \cup {s})
  <2>1. UNCHANGED <<calls, torn>>
    BY <1>0, <1>4 DEF Answered
  <2>2. \A n \in Networks : n \notin Excused' => n \notin Excused
    BY <1>2, <2>1 DEF Excused
  <2> QED
    BY <1>2, <2>2 DEF MatchInv, OthersMatch
<1> QED
  BY <1>3, <1>4

(* What list_networks returns is what the tables hold.                     *)
LEMMA ListedKeepsMatch ==
    ASSUME TypeOK, Shape, MatchInv, NEW s \in Due, Listed(s)
    PROVE  MatchInv'
<1>1. /\ db' = db /\ calls # <<>>
      /\ outdated' \subseteq outdated
      /\ torn' = torn \ DOMAIN db.rows
      /\ DOMAIN saved' = DOMAIN db.rows
      /\ \A n \in DOMAIN db.rows :
            saved'[n] = [value |-> db.rows[n].value,
                         channels |-> db.channels[n]]
  BY DEF Listed
<1>2. Head(calls).op = "list_networks"
  BY <1>1, ShapeHead, StatementOf DEF Listed, Due
<1>3. WrittenBy(calls) = {}
  BY <1>1, <1>2, ShapeWritten DEF Writers
<1>4. ASSUME NEW n \in Networks, n \notin Excused'
      PROVE  Matches(n)'
  <2>1. CASE n \in DOMAIN db.rows
    <3>1. saved'[n] = [value |-> db.rows[n].value,
                       channels |-> db.channels[n]]
      BY <1>1, <2>1
    <3>2. /\ saved'[n].value = db.rows[n].value
          /\ saved'[n].channels = db.channels[n]
      BY <3>1
    <3> QED
      BY <1>1, <2>1, <3>2 DEF Matches
  <2>2. CASE n \notin DOMAIN db.rows
    <3>1. n \notin Excused
      BY <1>1, <1>3, <1>4, <2>2 DEF Excused, MatchInv, OutdatedHaveRows
    <3>2. Matches(n)
      BY <3>1 DEF MatchInv, OthersMatch
    <3> QED
      BY <1>1, <2>2, <3>2 DEF Matches
  <2> QED
    BY <2>1, <2>2
<1> QED
  BY <1>1, <1>4 DEF MatchInv, OthersMatch, OutdatedHaveRows

(* An attempt keeps the tables in agreement with the last calls.           *)
LEMMA RunKeepsMatch ==
    ASSUME TypeOK, Shape, IdsDrawn, ProgressMade, MatchInv, calls # <<>>, Run
    PROVE  MatchInv'
<1>1. CASE Reconnect
  BY <1>1 DEF Reconnect, procVars, heldVars, MatchInv, OutdatedHaveRows,
              OthersMatch, Excused, Matches
<1>2. CASE StatementLost
  BY <1>2, FailureKeepsMatch DEF StatementLost, heldVars
<1>3. CASE ConnectionRefused
  BY <1>3, FailureKeepsMatch DEF ConnectionRefused, heldVars
<1>4. ASSUME NEW s \in Due, Answered(s)
      PROVE  MatchInv'
  BY <1>4, AnsweredKeepsMatch
<1>5. ASSUME NEW s \in Due, AnswerLost(s)
      PROVE  MatchInv'
  BY <1>5, FailureKeepsMatch DEF AnswerLost, heldVars
<1>6. ASSUME NEW s \in Due, StatementRejected(s)
      PROVE  MatchInv'
  BY <1>6, FailureKeepsMatch DEF StatementRejected, heldVars
<1>7. ASSUME NEW s \in Due, Listed(s)
      PROVE  MatchInv'
  BY <1>7, ListedKeepsMatch
<1> QED
  BY <1>1, <1>2, <1>3, <1>4, <1>5, <1>6, <1>7 DEF Run

(* A handler asks for a change of the network it writes only.              *)
LEMMA BeginKeepsMatch ==
    ASSUME TypeOK, MatchInv, NEW cs, Begin(cs),
           \A n \in Networks \ WrittenBy(cs) :
               /\ n \in DOMAIN saved' <=> n \in DOMAIN saved
               /\ n \in DOMAIN saved => saved'[n] = saved[n]
    PROVE  MatchInv'
<1>1. calls = <<>> /\ calls' = cs /\ UNCHANGED <<db, torn, outdated>>
  BY DEF Begin
<1>2. WrittenBy(calls) = {}
  BY <1>1 DEF WrittenBy
<1>3. ASSUME NEW n \in Networks, n \notin Excused'
      PROVE  Matches(n)'
  <2>1. n \notin Excused /\ n \notin WrittenBy(cs)
    BY <1>1, <1>2, <1>3 DEF Excused
  <2>2. Matches(n)
    BY <2>1 DEF MatchInv, OthersMatch
  <2> QED
    BY <1>1, <2>1, <2>2 DEF Matches
<1> QED
  BY <1>1, <1>3 DEF MatchInv, OthersMatch, OutdatedHaveRows

(* The beginning of a handler keeps the agreement.                         *)
LEMMA HandleKeepsMatch ==
    ASSUME TypeOK, MatchInv, Handle
    PROVE  MatchInv'
<1>1. ASSUME NEW cs, Begin(cs), saved' = saved
      PROVE  MatchInv'
  BY <1>1, BeginKeepsMatch
<1>2. ASSUME NEW n \in Networks, NEW config, Begin(<<Save(n, config)>>),
             saved' = With(saved, n, config)
      PROVE  MatchInv'
  <2> DEFINE cs == <<Save(n, config)>>
  <2>1. n \in WrittenBy(cs)
    <3>1. Save(n, config).op \in Writers /\ Save(n, config).network = n
      BY DEF Save, Writers
    <3> QED
      BY <3>1, WrittenByFew
  <2>2. \A m \in Networks \ {n} :
            /\ m \in DOMAIN saved' <=> m \in DOMAIN saved
            /\ m \in DOMAIN saved => saved'[m] = saved[m]
    BY <1>2 DEF With
  <2>3. Begin(cs)
    BY <1>2
  <2> HIDE DEF cs
  <2> QED
    BY <2>1, <2>2, <2>3, BeginKeepsMatch
<1>3. ASSUME NEW n \in Networks, DeleteNetwork(n)
      PROVE  MatchInv'
  <2> DEFINE cs == <<Delete(n), RemoveData(n)>>
  <2>1. n \in WrittenBy(cs)
    <3>1. Delete(n).op \in Writers /\ Delete(n).network = n
      BY DEF Delete, Writers
    <3> QED
      BY <3>1, WrittenByFew
  <2>2. \A m \in Networks \ {n} :
            /\ m \in DOMAIN saved' <=> m \in DOMAIN saved
            /\ m \in DOMAIN saved => saved'[m] = saved[m]
    BY <1>3 DEF DeleteNetwork, Without
  <2>3. Begin(cs)
    BY <1>3 DEF DeleteNetwork
  <2> HIDE DEF cs
  <2> QED
    BY <2>1, <2>2, <2>3, BeginKeepsMatch
<1>4. ASSUME NEW n \in Networks, NEW value \in Values,
             CreateNetwork(n, value)
      PROVE  MatchInv'
  BY <1>2, <1>4 DEF CreateNetwork
<1>5. ASSUME NEW n \in Networks, NEW config \in Config, SaveNetwork(n, config)
      PROVE  MatchInv'
  BY <1>2, <1>5 DEF SaveNetwork
<1>6. CASE \/ \E n \in Networks, t \in Targets :
                 StoreMessage(n, t) \/ CloseQuery(n, t) \/ PutSession(n, t)
           \/ Read
  <2>1. \E cs : Begin(cs) /\ saved' = saved
    BY <1>6 DEF StoreMessage, CloseQuery, PutSession, Read
  <2> QED
    BY <1>1, <2>1
<1> QED
  BY <1>3, <1>4, <1>5, <1>6 DEF Handle

(* The process stops and starts, and passwd works beside it.               *)
LEMMA SurroundingsKeepMatch ==
    ASSUME TypeOK, SeenAgrees, MatchInv, Surroundings
    PROVE  MatchInv'
<1>1. WrittenBy(<<>>) = {}
  BY DEF WrittenBy
<1>2. CASE Crash
  <2>1. /\ calls' = <<>> /\ torn' = torn \cup WrittenBy(calls)
        /\ UNCHANGED <<db, saved, outdated>>
    BY <1>2 DEF Crash
  <2>2. Excused' = Excused
    BY <1>1, <2>1 DEF Excused
  <2> QED
    BY <2>1, <2>2 DEF MatchInv, OutdatedHaveRows, OthersMatch, Matches
<1>3. CASE ServerStarts \/ ServerStops \/ PasswdAborts
           \/ \E p \in Passphrases : PasswdReads(p)
  <2>1. UNCHANGED <<db, procVars, outdated>>
    BY <1>3 DEF ServerStarts, ServerStops, PasswdAborts, PasswdReads
  <2> QED
    BY <2>1 DEF procVars, heldVars, MatchInv, OutdatedHaveRows, OthersMatch,
                Excused, Matches
<1>4. CASE PasswdCommits
  <2>1. /\ DOMAIN db'.rows = DOMAIN db.rows
        /\ \A n \in DOMAIN db.rows :
              n \notin outdated => db'.rows[n].value = db.rows[n].value
        /\ db'.channels = db.channels
        /\ UNCHANGED <<saved, calls, torn, outdated>>
    BY <1>4, PasswdKeepsValues DEF procVars, heldVars
  <2>2. ASSUME NEW n \in Networks, n \notin Excused'
        PROVE  Matches(n)'
    <3>1. n \notin Excused /\ n \notin outdated
      BY <2>1, <2>2 DEF Excused
    <3>2. Matches(n)
      BY <3>1 DEF MatchInv, OthersMatch
    <3> QED
      BY <2>1, <3>1, <3>2 DEF Matches
  <2> QED
    BY <2>1, <2>2 DEF MatchInv, OutdatedHaveRows, OthersMatch
<1>5. ASSUME NEW p \in Passphrases, Boot(p)
      PROVE  MatchInv'
  <2>1. /\ calls = <<>> /\ calls' = <<ListNetworks>>
        /\ UNCHANGED <<db, saved, torn, outdated>>
    BY <1>5 DEF Boot, heldVars, TypeOK
  <2>2. WrittenBy(<<ListNetworks>>) = {}
    BY WrittenByFew DEF ListNetworks, Writers
  <2>3. Excused' = Excused
    BY <1>1, <2>1, <2>2 DEF Excused
  <2> QED
    BY <2>1, <2>3 DEF MatchInv, OutdatedHaveRows, OthersMatch, Matches
<1> QED
  BY <1>2, <1>3, <1>4, <1>5 DEF Surroundings

(* Every step keeps the tables in agreement with the last calls.           *)
LEMMA StepKeepsMatch ==
    TypeOK /\ Shape /\ SeenAgrees /\ IdsDrawn /\ ProgressMade /\ MatchInv
        /\ [Next]_vars => MatchInv'
<1> SUFFICES ASSUME TypeOK, Shape, SeenAgrees, IdsDrawn, ProgressMade,
                    MatchInv, [Next]_vars
             PROVE  MatchInv'
  OBVIOUS
<1>1. CASE UNCHANGED vars
  BY <1>1 DEF vars, procVars, heldVars, MatchInv, OutdatedHaveRows,
              OthersMatch, Excused, Matches
<1> QED
  BY <1>1, RunKeepsMatch, HandleKeepsMatch, SurroundingsKeepMatch DEF Next

(* Between two calls the tables hold what the last read or save of each    *)
(* network said, and no row or channel of networks deleted last, except of *)
(* those a save or deletion of which raised or was cut off and of those    *)
(* saved beside passwd (save_network, delete_network, list_networks).      *)
THEOREM LastCallKept == Spec => []LastCallStands
<1> DEFINE Inv == TypeOK /\ Shape /\ KeysAgree /\ SeenAgrees /\ LossInv
                     /\ ProgressMade /\ MatchInv
<1>1. Init => Inv
  <2> SUFFICES ASSUME Init PROVE Inv
    OBVIOUS
  <2>1. /\ DOMAIN db.rows = {} /\ outdated = {} /\ DOMAIN saved = {}
        /\ db.channels = [n \in Networks |-> {}]
        /\ rekey = NotRunning /\ calls = <<>>
    BY DEF Init
  <2>2. KeysAgree /\ SeenAgrees
    BY <2>1 DEF KeysAgree, SeenAgrees
  <2>3. LossInv
    BY DEF Init, LossInv, IdsDrawn, LossesCounted, OneLossIsSurvived, Pending
  <2>4. ProgressMade
    BY <2>1 DEF ProgressMade
  <2>5. MatchInv
    BY <2>1 DEF MatchInv, OutdatedHaveRows, OthersMatch, Matches
  <2> QED
    BY <2>2, <2>3, <2>4, <2>5, InitTyped
<1>2. Inv /\ [Next]_vars => Inv'
  BY StepTyped, StepKeepsKeys, StepCounts, StepProgresses, StepKeepsMatch
     DEF LossInv
<1>3. Inv => LastCallStands
  <2> SUFFICES ASSUME MatchInv, calls = <<>>,
                      NEW n \in Networks \ (torn \cup outdated)
               PROVE  Matches(n)
    BY DEF LastCallStands, Matches
  <2>1. WrittenBy(calls) = {}
    BY DEF WrittenBy
  <2> QED
    BY <2>1 DEF MatchInv, OthersMatch, Excused
<1> HIDE DEF Inv
<1>4. Spec => []Inv
  BY <1>1, <1>2, PTL DEF Spec
<1> QED
  BY <1>3, <1>4, PTL

-----------------------------------------------------------------------------
(* The refinement of MessageStore.  The strengthening: the id of a message *)
(* that is about to be stored is the last one of the sequence.             *)

Appending == calls # <<>> /\ Head(calls).op = "append_message"

(* It is not stored yet.                                                   *)
Waits == Appending /\ \A m \in db.messages : m.id # drawn

LatestDrawn == Appending => drawn = db.seq

(* A step that stores the message.                                         *)
Appends ==
    /\ Waits /\ ~Waits' /\ db'.seq = db.seq
    /\ \E n, t : db'.messages = db.messages \cup
                     {[id |-> drawn, network |-> n, target |-> t]}

(* Of the messages of a place, all stay or all go.                         *)
KeepsPlaces ==
    /\ db'.messages \subseteq db.messages
    /\ \A gone \in db.messages \ db'.messages, kept \in db'.messages :
          gone.network # kept.network \/ gone.target # kept.target

(* A step that stores none.                                                *)
AppendsNot ==
    /\ KeepsPlaces
    /\ \/ db'.seq = db.seq /\ (Waits' => Waits)
       \/ db'.seq = db.seq + 1

(* What is left alone, and that no append begins.                          *)
LEMMA QuietStores ==
    ASSUME LatestDrawn, db'.seq = db.seq, db'.messages = db.messages,
           \/ UNCHANGED <<calls, drawn>>
           \/ calls' = <<>>
           \/ Head(calls').op # "append_message"
    PROVE  LatestDrawn' /\ AppendsNot
BY DEF LatestDrawn, Appending, AppendsNot, KeepsPlaces, Waits

(* A statement stores the message that waits, draws an id or removes whole *)
(* places.                                                                 *)
LEMMA ExecutedStores ==
    ASSUME TypeOK, Shape, LatestDrawn, NEW s \in Due, calls # <<>>,
           Execute(s), ~Rejected(s),
           \/ calls' = Tail(calls) \/ calls' = calls \/ calls' = <<>>,
           \/ drawn' = drawn /\ s.do # "next_message_id"
           \/ drawn' = db'.seq /\ s.do = "next_message_id"
           \/ drawn' = drawn /\ (calls' = calls \/ calls' = <<>>)
    PROVE  LatestDrawn' /\ (Appends \/ AppendsNot)
<1> DEFINE c == Head(calls)
<1>1. c \in Calls /\ s \in Statements(c)
  BY ShapeHead DEF Due
<1>2. /\ c.op = "append_message" <=> s.do = "append_message"
      /\ c.op = "next_message_id" <=> s.do = "next_message_id"
  BY <1>1, StatementOf
<1>3. ASSUME calls' = Tail(calls), calls' # <<>>,
             Head(calls').op = "append_message"
      PROVE  s.do = "next_message_id"
  BY <1>2, <1>3, AppendAfterId
<1>4. CASE s.do = "append_message"
  <2>1. /\ db'.seq = db.seq /\ drawn' = drawn
        /\ \E n, t : db'.messages = db.messages \cup
                         {[id |-> drawn, network |-> n, target |-> t]}
    <3>1. /\ db'.seq = db.seq
          /\ db'.messages = db.messages \cup
                 {[id |-> drawn, network |-> c.network,
                   target |-> c.target]}
      BY <1>4, MessagesExecuted
    <3>2. drawn' = drawn
      BY <1>4
    <3> QED
      BY <3>1, <3>2
  <2>2. \E m \in db'.messages : m.id = drawn'
    <3>1. PICK n, t : db'.messages = db.messages \cup
                          {[id |-> drawn, network |-> n, target |-> t]}
      BY <2>1
    <3>2. [id |-> drawn, network |-> n, target |-> t].id = drawn
      OBVIOUS
    <3> QED
      BY <2>1, <3>1, <3>2
  <2>3. Waits
    BY <1>2, <1>4 DEF Waits, Appending, Rejected
  <2>4. ~Waits'
    BY <2>2 DEF Waits
  <2>5. LatestDrawn'
    BY <2>1, <2>3 DEF LatestDrawn, Waits, Appending
  <2> QED
    BY <2>1, <2>3, <2>4, <2>5 DEF Appends
<1>5. CASE s.do = "next_message_id"
  <2>1. db'.seq = db.seq + 1 /\ db'.messages = db.messages
    BY <1>5 DEF Execute, After, MessagesAfter
  <2>2. LatestDrawn'
    BY <1>2, <1>5 DEF LatestDrawn, Appending
  <2> QED
    BY <2>1, <2>2 DEF AppendsNot, KeepsPlaces
<1>6. CASE s.do \notin {"append_message", "next_message_id"}
  <2>1. db'.seq = db.seq /\ drawn' = drawn
    BY <1>6, MessagesExecuted
  <2>2. KeepsPlaces
    <3>1. \/ db'.messages = db.messages
          \/ db'.messages = {m \in db.messages :
                                m.network # c.network \/ m.target # c.target}
          \/ db'.messages = {m \in db.messages : m.network # c.network}
      BY <1>6 DEF Execute, After, MessagesAfter
    <3> QED
      BY <3>1 DEF KeepsPlaces
  <2>3. ~Appending'
    BY <1>2, <1>3, <1>6 DEF Appending
  <2> QED
    BY <2>1, <2>2, <2>3 DEF LatestDrawn, AppendsNot, Waits
<1> QED
  BY <1>4, <1>5, <1>6

(* Every step stores the message that waits, or none.                      *)
LEMMA StepStores ==
    ASSUME TypeOK, Shape, LatestDrawn, [Next]_vars
    PROVE  LatestDrawn' /\ (Appends \/ AppendsNot)
<1>1. CASE UNCHANGED <<db, procVars>>
  BY <1>1, QuietStores DEF procVars
<1>2. ASSUME AttemptFails
      PROVE  calls' = calls \/ calls' = <<>>
  BY <1>2 DEF AttemptFails, Retry, Raise
<1>3. CASE calls # <<>> /\ Run
  <2>1. CASE Reconnect
    BY <1>1, <2>1 DEF Reconnect
  <2>2. CASE \/ StatementLost \/ ConnectionRefused
             \/ \E s \in Due : StatementRejected(s)
    BY <1>2, <2>2, QuietStores
       DEF StatementLost, ConnectionRefused, StatementRejected, Raise
  <2>3. ASSUME NEW s \in Due, Answered(s)
        PROVE  LatestDrawn' /\ (Appends \/ AppendsNot)
    BY <1>3, <2>3, ExecutedStores DEF Answered
  <2>4. ASSUME NEW s \in Due, AnswerLost(s)
        PROVE  LatestDrawn' /\ (Appends \/ AppendsNot)
    BY <1>2, <1>3, <2>4, ExecutedStores DEF AnswerLost
  <2>5. ASSUME NEW s \in Due, Listed(s)
        PROVE  LatestDrawn' /\ AppendsNot
    <3>1. Head(calls).op = "list_networks"
      BY <1>3, <2>5, ShapeHead, StatementOf DEF Listed, Due
    <3>2. calls' = <<>> /\ db' = db
      BY <1>3, <2>5, <3>1, ListedLast DEF Listed
    <3> QED
      BY <3>2, QuietStores
  <2> QED
    BY <1>3, <2>1, <2>2, <2>3, <2>4, <2>5 DEF Run
<1>4. CASE Handle
  <2>1. PICK cs : Begin(cs) /\ Head(cs).op # "append_message"
    BY <1>4, HandlerBegins
  <2> QED
    BY <2>1, QuietStores DEF Begin
<1>5. CASE Surroundings
  <2>1. CASE Crash
    BY <2>1, QuietStores DEF Crash
  <2>2. CASE ServerStarts \/ ServerStops \/ PasswdAborts
             \/ \E p \in Passphrases : PasswdReads(p)
    BY <1>1, <2>2 DEF ServerStarts, ServerStops, PasswdAborts, PasswdReads
  <2>3. CASE PasswdCommits
    <3>1. db \in Tables
      BY DEF TypeOK
    <3>2. /\ db'.seq = db.seq /\ db'.messages = db.messages
          /\ UNCHANGED <<calls, drawn>>
      BY <2>3, <3>1 DEF PasswdCommits, Tables, procVars
    <3> QED
      BY <3>2, QuietStores
  <2>4. ASSUME NEW p \in Passphrases, Boot(p)
        PROVE  LatestDrawn' /\ AppendsNot
    <3>1. calls' = <<ListNetworks>> /\ db' = db
      BY <2>4 DEF Boot
    <3>2. Head(calls').op # "append_message"
      BY <3>1, OneCall DEF ListNetworks
    <3> QED
      BY <3>1, <3>2, QuietStores
  <2> QED
    BY <1>5, <2>1, <2>2, <2>3, <2>4 DEF Surroundings
<1> QED
  BY <1>1, <1>3, <1>4, <1>5 DEF Next, vars, procVars

(* A message as one of the abstract store.                                 *)
Stored(m) == [id |-> m.id, place |-> <<m.network, m.target>>]

(* Messages of one place are of one network and one target.                *)
LEMMA StoredIs ==
    ASSUME NEW m, NEW k, Stored(m).place = Stored(k).place
    PROVE  m.network = k.network /\ m.target = k.target
BY DEF Stored

(* The abstract store holds the messages of the table.                     *)
LEMMA KeptIs ==
    /\ Kept = {Stored(m) : m \in db.messages}
    /\ Kept' = {Stored(m) : m \in db'.messages}
BY DEF Kept, Stored

(* The last id that was taken, by the sequence.                            *)
LastInv ==
    /\ LastTaken = IF Waits THEN db.seq - 1 ELSE db.seq
    /\ db.seq \in Nat
    /\ Waits => db.seq > 0

(* It is, because an id that waits for its insert is the last one drawn.   *)
LEMMA LastIs == TypeOK /\ Shape /\ LatestDrawn => LastInv
<1> SUFFICES ASSUME TypeOK, Shape, LatestDrawn
             PROVE  LastInv
  OBVIOUS
<1>1. db.seq \in Nat /\ drawn \in Nat
  BY StoreAssumption DEF TypeOK, Tables
<1>2. Waits => drawn = db.seq /\ drawn > 0
  BY ShapeHead DEF Waits, Appending, LatestDrawn
<1> QED
  BY <1>1, <1>2 DEF LastInv, LastTaken, Waits, Appending

(* A message is stored under the id after the last one.                    *)
LEMMA AppendsIsStore ==
    ASSUME NEW seq \in Nat, seq > 0, drawn = seq, Appends,
           LastTaken = seq - 1, LastTaken' = seq
    PROVE  Abstract!Next
<1>1. PICK n, t : db'.messages = db.messages \cup
                      {[id |-> drawn, network |-> n, target |-> t]}
  BY DEF Appends
<1> DEFINE m == [id |-> drawn, network |-> n, target |-> t]
<1>2. m.id = seq /\ Stored(m).id = seq
  BY DEF Stored
<1>3. db'.messages = db.messages \cup {m}
  BY <1>1
<1> HIDE DEF m
<1>4. Abstract!Gone = {} /\ \A k \in Abstract!New : k = Stored(m)
  BY <1>3, KeptIs DEF Abstract!Gone, Abstract!New
<1>5. Abstract!NewIdsAreHigher
  BY <1>2, <1>4 DEF Abstract!NewIdsAreHigher
<1> QED
  BY <1>4, <1>5
     DEF Abstract!Next, Abstract!Store, Abstract!OldestAreForgotten

(* Places go as a whole, and an id may be left out.                        *)
LEMMA AppendsNotIsNext ==
    ASSUME KeepsPlaces, LastTaken \in Nat, LastTaken' \in Nat,
           LastTaken <= LastTaken'
    PROVE  Abstract!Next
<1>1. Abstract!New = {}
  BY KeptIs DEF KeepsPlaces, Abstract!New
<1>2. ASSUME NEW gone \in Abstract!Gone, NEW kept \in Kept'
      PROVE  gone.place # kept.place
  <2>1. gone \in Kept /\ gone \notin Kept'
    BY DEF Abstract!Gone
  <2>2. PICK g \in db.messages : gone = Stored(g)
    BY <2>1, KeptIs
  <2>3. PICK k \in db'.messages : kept = Stored(k)
    BY KeptIs
  <2>4. g \notin db'.messages
    BY <2>1, <2>2, KeptIs
  <2>5. g.network # k.network \/ g.target # k.target
    BY <2>2, <2>3, <2>4 DEF KeepsPlaces
  <2> QED
    BY <2>2, <2>3, <2>5, StoredIs
<1>3. LastTaken' > LastTaken \/ LastTaken' = LastTaken
  OBVIOUS
<1> QED
  BY <1>1, <1>2, <1>3
     DEF Abstract!Next, Abstract!Store, Abstract!Forget,
         Abstract!NewIdsAreHigher, Abstract!OldestAreForgotten

(***************************************************************************)
(* The tables of PostgresBackend implement MessageStore: the messages have *)
(* ids in the order in which they are stored, which are never used again,  *)
(* although the id and the insert are calls of their own that may fail, be *)
(* executed twice or never follow (next_message_id, _insert, _run).        *)
(***************************************************************************)
THEOREM StoreCorrect == Spec => ImplementsStore
<1> DEFINE Inv == TypeOK /\ Shape /\ LatestDrawn
<1>1. Init => Inv /\ Abstract!Init
  <2> SUFFICES ASSUME Init
               PROVE  LatestDrawn /\ Abstract!Init
    BY InitTyped
  <2>1. calls = <<>> /\ db.messages = {} /\ db.seq = 0
    BY DEF Init
  <2>2. Kept = {} /\ LastTaken = 0
    BY <2>1, KeptIs DEF LastTaken
  <2> QED
    BY <2>1, <2>2 DEF LatestDrawn, Appending, Abstract!Init
<1>2. Inv => LastInv
  BY LastIs
<1>3. Inv /\ [Next]_vars => Inv' /\ (Appends \/ AppendsNot)
  BY StepTyped, StepStores
<1>4. Inv /\ [Next]_vars => LastInv'
  <2> HIDE DEF Inv
  <2> QED
    BY <1>2, <1>3, PTL
<1>5. Inv /\ [Next]_vars => Inv' /\ [Abstract!Next]_<<Kept, LastTaken>>
  <2> SUFFICES ASSUME Inv, [Next]_vars
               PROVE  Abstract!Next
    BY <1>3
  <2>1. Inv' /\ (Appends \/ AppendsNot)
    BY <1>3
  <2>2. /\ LastTaken' = IF Waits' THEN db'.seq - 1 ELSE db'.seq
        /\ db'.seq \in Nat /\ (Waits' => db'.seq > 0)
    BY <1>4 DEF LastInv
  <2>3. /\ LastTaken = IF Waits THEN db.seq - 1 ELSE db.seq
        /\ db.seq \in Nat /\ (Waits => db.seq > 0)
    BY <1>2 DEF LastInv
  <2>4. CASE Appends
    <3>1. /\ drawn = db.seq /\ db.seq > 0
          /\ LastTaken = db.seq - 1 /\ LastTaken' = db.seq
      BY <2>2, <2>3, <2>4 DEF Appends, LatestDrawn, Waits
    <3> QED
      BY <2>3, <2>4, <3>1, AppendsIsStore
  <2>5. CASE AppendsNot
    <3>1. /\ LastTaken \in Nat /\ LastTaken' \in Nat
          /\ LastTaken <= LastTaken'
      BY <2>2, <2>3, <2>5 DEF AppendsNot
    <3> QED
      BY <2>5, <3>1, AppendsNotIsNext DEF AppendsNot
  <2> QED
    BY <2>1, <2>4, <2>5
<1> HIDE DEF Inv
<1> QED
  BY <1>1, <1>5, PTL DEF Spec, ImplementsStore, Abstract!Spec
=============================================================================
