----------------------- MODULE DatabaseMonitorProofs -----------------------
(***************************************************************************)
(* Theorems about DatabaseMonitor with its event streams, for any          *)
(* networks, channels, streams, filters, queue size and number of          *)
(* failures.                                                               *)
(***************************************************************************)
EXTENDS DatabaseMonitor, FiniteSetTheorems, SequenceTheorems, TLAPS

-----------------------------------------------------------------------------
(* Sequences.                                                              *)

(* Putting events into a queue keeps its front and appends some of them.   *)
LEMMA FittingIs ==
    ASSUME NEW q \in Seq(Event), NEW es \in Seq(Event), Len(q) <= QueueMax
    PROVE  /\ Fitting(q, es) \in Seq(Event)
           /\ Len(Fitting(q, es)) <= QueueMax
           /\ Len(Fitting(q, es)) \in Len(q)..(Len(q) + Len(es))
           /\ \A i \in 1..Len(q) : Fitting(q, es)[i] = q[i]
           /\ \A i \in (Len(q) + 1)..Len(Fitting(q, es)) :
                 Fitting(q, es)[i] = es[i - Len(q)]
<1>1. QueueMax \in Nat
  BY StreamAssumption
<1> DEFINE all == q \o es
           len == IF Len(all) < QueueMax THEN Len(all) ELSE QueueMax
<1>2. /\ all \in Seq(Event) /\ Len(all) = Len(q) + Len(es)
      /\ \A i \in 1..Len(q) : all[i] = q[i]
      /\ \A i \in (Len(q) + 1)..Len(all) : all[i] = es[i - Len(q)]
  OBVIOUS
<1>3. len \in Len(q)..Len(all) /\ len <= QueueMax
  BY <1>1, <1>2
<1>4. Fitting(q, es) = SubSeq(all, 1, len)
  BY DEF Fitting
<1>5. /\ SubSeq(all, 1, len) \in Seq(Event)
      /\ Len(SubSeq(all, 1, len)) = len
      /\ \A i \in 1..len : SubSeq(all, 1, len)[i] = all[i]
  <2> HIDE DEF all, len
  <2>1. Len(all) \in Nat /\ Len(q) \in Nat /\ len \in Nat /\ len <= Len(all)
    BY <1>2, <1>3
  <2> QED
    BY <1>2, <2>1
<1> HIDE DEF all, len
<1> QED
  BY <1>1, <1>2, <1>3, <1>4, <1>5

(* The elements of two sequences, one after the other.                      *)
LEMMA ConcatIs ==
    ASSUME NEW S, NEW a \in Seq(S), NEW b \in Seq(S)
    PROVE  /\ a \o b \in Seq(S) /\ Len(a \o b) = Len(a) + Len(b)
           /\ \A i \in 1..Len(a) : (a \o b)[i] = a[i]
           /\ \A i \in (Len(a) + 1)..(Len(a) + Len(b)) :
                 (a \o b)[i] = b[i - Len(a)]
OBVIOUS

(* What is left of the networks when one is removed.                       *)
LEMMA RemovedIs ==
    ASSUME NEW S, NEW q \in Seq(S), NEW i \in DOMAIN q,
           NEW r, r = SubSeq(q, 1, i - 1) \o SubSeq(q, i + 1, Len(q))
    PROVE  /\ r \in Seq(S) /\ Len(r) = Len(q) - 1
           /\ \A j \in 1..(i - 1) : r[j] = q[j]
           /\ \A j \in i..(Len(q) - 1) : r[j] = q[j + 1]
<1>1. i \in 1..Len(q) /\ Len(q) \in Nat
  OBVIOUS
<1> DEFINE a == SubSeq(q, 1, i - 1)
           b == SubSeq(q, i + 1, Len(q))
<1>2. /\ a \in Seq(S) /\ Len(a) = i - 1
      /\ \A j \in 1..(i - 1) : a[j] = q[j]
  BY <1>1
<1>3. /\ b \in Seq(S) /\ Len(b) = Len(q) - i
      /\ \A j \in 1..(Len(q) - i) : b[j] = q[i + j]
  BY <1>1
<1>4. r = a \o b
  OBVIOUS
<1> HIDE DEF a, b
<1>5. /\ r \in Seq(S) /\ Len(r) = Len(a) + Len(b)
      /\ \A j \in 1..Len(a) : r[j] = a[j]
      /\ \A j \in (Len(a) + 1)..(Len(a) + Len(b)) : r[j] = b[j - Len(a)]
  <2>1. /\ a \o b \in Seq(S) /\ Len(a \o b) = Len(a) + Len(b)
        /\ \A j \in 1..Len(a) : (a \o b)[j] = a[j]
        /\ \A j \in (Len(a) + 1)..(Len(a) + Len(b)) :
              (a \o b)[j] = b[j - Len(a)]
    BY <1>2, <1>3, ConcatIs
  <2> QED
    BY <1>4, <2>1
<1>6. Len(a) = i - 1 /\ Len(b) = Len(q) - i
  BY <1>2, <1>3
<1>7. /\ \A j \in 1..(i - 1) : r[j] = a[j]
      /\ \A j \in i..(Len(q) - 1) : r[j] = b[j - (i - 1)]
      /\ Len(r) = Len(q) - 1
  <2>1. /\ i - 1 + 1 = i /\ i - 1 + (Len(q) - i) = Len(q) - 1
    BY <1>1
  <2> QED
    BY <1>5, <1>6, <2>1
<1>8. ASSUME NEW j \in i..(Len(q) - 1)
      PROVE  r[j] = q[j + 1]
  <2>1. j - (i - 1) \in 1..(Len(q) - i) /\ i + (j - (i - 1)) = j + 1
    BY <1>1
  <2> QED
    BY <1>3, <1>7, <2>1
<1> QED
  BY <1>2, <1>5, <1>7, <1>8

(* The order of the table of networks lists every network once.            *)
LEMMA OrderedIs ==
    ASSUME NEW S, IsFiniteSet(S)
    PROVE  /\ Cardinality(S) \in Nat
           /\ Ordered(S) \in [1..Cardinality(S) -> S]
           /\ Elements(Ordered(S)) = S
           /\ \A i, j \in 1..Cardinality(S) :
                 Ordered(S)[i] = Ordered(S)[j] => i = j
<1> DEFINE k == Cardinality(S)
<1>1. k \in Nat /\ ExistsBijection(1..k, S)
  BY FS_CardinalityType
<1>2. PICK f \in Bijection(1..k, S) : TRUE
  BY <1>1 DEF ExistsBijection
<1>3. f \in [1..k -> S] /\ Elements(f) = S
  BY <1>2 DEF Bijection, Injection, Surjection, Elements
<1>4. \E q \in [1..k -> S] : Elements(q) = S
  BY <1>3
<1>5. Ordered(S) \in [1..k -> S] /\ Elements(Ordered(S)) = S
  BY <1>4 DEF Ordered
<1>6. Ordered(S) \in Surjection(1..k, S)
  BY <1>5 DEF Surjection, Elements
<1>7. IsFiniteSet(1..k) /\ Cardinality(1..k) = k
  <2>1. 1..k = {} \/ k >= 1
    BY <1>1
  <2> QED
    BY <1>1, FS_Interval
<1>8. Ordered(S) \in Injection(1..k, S)
  BY <1>6, <1>7, FS_SurjSameCardinalityImpliesInj
<1> QED
  BY <1>1, <1>5, <1>8 DEF Injection, IsInjective

(* Facts and their entries.                                                *)
LEMMA FactsAre ==
    ASSUME TypeOK, NEW kind \in Kinds
    PROVE  /\ Facts(kind) \in Seq(Fact) /\ Len(Facts(kind)) = Len(networks)
           /\ \A i \in DOMAIN Facts(kind) :
                 /\ i \in DOMAIN networks
                 /\ Facts(kind)[i] = NewFact(kind, networks[i], None)
<1>1. networks \in Seq(Networks) /\ now \in Nat
  BY MonitorAssumption DEF TypeOK
<1>2. \A i \in DOMAIN networks : NewFact(kind, networks[i], None) \in Fact
  BY <1>1 DEF NewFact, Fact
<1> QED
  BY <1>1, <1>2 DEF Facts

(* The entries for some facts have the next ids, in their order.            *)
LEMMA EntriesAre ==
    ASSUME last_id \in Nat, NEW facts \in Seq(Fact)
    PROVE  /\ Entries(facts) \in Seq(Event)
           /\ Len(Entries(facts)) = Len(facts)
           /\ \A i \in 1..Len(facts) :
                 /\ Entries(facts)[i].id = last_id + i
                 /\ Entries(facts)[i].fact = facts[i]
<1>1. \A i \in 1..Len(facts) :
          [id |-> last_id + i, fact |-> facts[i]] \in Event
  BY DEF Event
<1> QED
  BY <1>1 DEF Entries

(* Events for facts that are not stored have no id.                         *)
LEMMA TemporaryAre ==
    ASSUME NEW facts \in Seq(Fact)
    PROVE  /\ Temporary(facts) \in Seq(Event)
           /\ Len(Temporary(facts)) = Len(facts)
           /\ \A i \in 1..Len(facts) :
                 /\ Temporary(facts)[i].id = 0
                 /\ Temporary(facts)[i].fact = facts[i]
<1>1. \A i \in 1..Len(facts) : [id |-> 0, fact |-> facts[i]] \in Event
  BY DEF Event
<1> QED
  BY <1>1 DEF Temporary

-----------------------------------------------------------------------------
(* Type correctness.                                                       *)

(* Publishing keeps the types of the streams and the size of the queues.    *)
LEMMA PublishTyped ==
    ASSUME StreamTypeOK, NEW es \in Seq(Event), Publish(es)
    PROVE  StreamTypeOK'
<1>1. \A s \in Streams : /\ queue'[s] \in Seq(Event)
                         /\ Len(queue'[s]) <= QueueMax
  BY FittingIs DEF StreamTypeOK, Publish
<1>2. queue' \in [Streams -> Seq(Event)]
  BY <1>1 DEF Publish
<1>3. dropped' \subseteq Fact
  <2>1. FactsOf(es) \subseteq Fact
    <3>1. \A i \in DOMAIN es : es[i] \in Event
      OBVIOUS
    <3>2. \A e \in Event : e.fact \in Fact
      BY DEF Event
    <3> QED
      BY <3>1, <3>2 DEF FactsOf
  <2> QED
    BY <2>1 DEF StreamTypeOK, Publish
<1> QED
  BY <1>1, <1>2, <1>3 DEF StreamTypeOK, Publish

(* What the handler and the generator do keeps the types.                   *)
LEMMA GeneratorTyped ==
    ASSUME StreamTypeOK, NEW s \in Streams,
           \/ OpenStream(s) \/ GeneratorStep(s) \/ ResponseNeverStarts(s)
           \/ Cancelled(s)
    PROVE  StreamTypeOK'
<1>1. <<>> \in Seq(Event) /\ Len(<<>>) = 0 /\ 0 <= QueueMax
  BY StreamAssumption
<1>2. ASSUME queue' = [queue EXCEPT ![s] = <<>>]
      PROVE  /\ queue' \in [Streams -> Seq(Event)]
             /\ \A r \in Streams : Len(queue'[r]) <= QueueMax
  BY <1>1, <1>2 DEF StreamTypeOK
<1>3. CASE OpenStream(s)
  BY <1>2, <1>3 DEF OpenStream, StreamTypeOK
<1>4. CASE ResponseStarts(s) \/ ResponseNeverStarts(s) \/ TimesOut(s)
  BY <1>4 DEF ResponseStarts, ResponseNeverStarts, TimesOut, StreamTypeOK
<1>5. CASE Checks(s)
  BY <1>2, <1>5 DEF Checks, Unsubscribe, StreamTypeOK
<1>6. CASE Cancelled(s)
  BY <1>2, <1>6 DEF Cancelled, Unsubscribe, StreamTypeOK
<1>7. CASE Gets(s)
  <2>1. queue[s] \in Seq(Event) /\ queue[s] # <<>>
        /\ Len(queue[s]) <= QueueMax
    BY <1>7 DEF Gets, StreamTypeOK
  <2>2. /\ Tail(queue[s]) \in Seq(Event)
        /\ Len(Tail(queue[s])) <= QueueMax /\ Head(queue[s]) \in Event
    BY <2>1, StreamAssumption
  <2>3. queue' = [queue EXCEPT ![s] = Tail(queue[s])]
    BY <1>7 DEF Gets
  <2>4. /\ queue' \in [Streams -> Seq(Event)]
        /\ \A r \in Streams : Len(queue'[r]) <= QueueMax
    BY <2>2, <2>3 DEF StreamTypeOK
  <2>5. have' \subseteq Fact /\ since' \in [Networks -> Nat]
    <3> DEFINE e == Head(queue[s])
    <3>1. e.id \in Nat /\ e.fact \in Fact /\ e.fact.network \in Networks
      BY <2>2 DEF Event, Fact
    <3> HIDE DEF e
    <3>2. CASE Receive(e)
      BY <3>1, <3>2 DEF Receive, StreamTypeOK
    <3>3. CASE UNCHANGED <<have, since>>
      BY <3>3 DEF StreamTypeOK
    <3> QED
      BY <1>7, <3>2, <3>3 DEF Gets, e
  <2> QED
    BY <1>7, <2>4, <2>5 DEF Gets, StreamTypeOK
<1> QED
  BY <1>3, <1>4, <1>5, <1>6, <1>7 DEF GeneratorStep

(* What the streams and the client do keeps the types.                      *)
LEMMA StreamTyped ==
    ASSUME StreamTypeOK, log \subseteq Event, StreamStep(log)
    PROVE  StreamTypeOK'
<1>1. CASE ClientLeaves
  BY <1>1 DEF ClientLeaves, StreamTypeOK
<1>2. ASSUME NEW n \in Networks, CatchUp(n, log)
      PROVE  StreamTypeOK'
  <2>1. \A e \in log : e.id \in Nat /\ e.fact \in Fact
    BY DEF Event
  <2>2. since' \in [Networks -> Nat]
    BY <1>2, <2>1 DEF CatchUp, StreamTypeOK
  <2>3. have' \subseteq Fact
    BY <1>2, <2>1 DEF CatchUp, StreamTypeOK
  <2> QED
    BY <1>2, <2>2, <2>3 DEF CatchUp, StreamTypeOK
<1> QED
  BY <1>1, <1>2, GeneratorTyped DEF StreamStep

(* The networks are distinct, and those with a row are finitely many.      *)
Distinct == \A i, j \in DOMAIN networks : networks[i] = networks[j] => i = j

NetworksOK == Distinct /\ IsFiniteSet(rows)

(* The elements of a sequence with one more.                                *)
LEMMA AppendedIs ==
    ASSUME NEW S, NEW q \in Seq(S), NEW x \in S
    PROVE  /\ Append(q, x) \in Seq(S)
           /\ DOMAIN Append(q, x) = 1..(Len(q) + 1)
           /\ \A i \in 1..Len(q) : Append(q, x)[i] = q[i]
           /\ Append(q, x)[Len(q) + 1] = x
OBVIOUS

(* Creating a network adds it to the table and keeps the names distinct.    *)
LEMMA CreateIs ==
    ASSUME TypeOK, NetworksOK, NEW n \in Networks, CreateNetwork(n)
    PROVE  /\ networks' \in Seq(Networks) /\ NetworksOK'
           /\ Elements(networks') = Elements(networks) \cup {n}
           /\ rows' \subseteq Networks
<1>1. networks \in Seq(Networks) /\ Len(networks) \in Nat
      /\ DOMAIN networks = 1..Len(networks)
  BY DEF TypeOK
<1>2. /\ networks' \in Seq(Networks)
      /\ DOMAIN networks' = 1..(Len(networks) + 1)
      /\ \A i \in 1..Len(networks) : networks'[i] = networks[i]
      /\ networks'[Len(networks) + 1] = n
  <2>1. networks' = Append(networks, n)
    BY DEF CreateNetwork
  <2> QED
    BY <1>1, <2>1, AppendedIs
<1>3. \A i \in 1..Len(networks) : networks[i] # n
  BY <1>1 DEF CreateNetwork, Elements
<1>4. \A i \in 1..(Len(networks) + 1) :
          i = Len(networks) + 1 \/ i \in 1..Len(networks)
  BY <1>1
<1>5. Distinct'
  BY <1>1, <1>2, <1>3, <1>4 DEF NetworksOK, Distinct
<1>6. Elements(networks') = Elements(networks) \cup {n}
  <2>1. 1..Len(networks) \subseteq 1..(Len(networks) + 1)
        /\ Len(networks) + 1 \in 1..(Len(networks) + 1)
    BY <1>1
  <2> QED
    BY <1>1, <1>2, <1>4, <2>1 DEF Elements
<1>7. IsFiniteSet(rows') /\ rows' \subseteq Networks
  BY FS_AddElement DEF CreateNetwork, NetworksOK, TypeOK
<1> QED
  BY <1>2, <1>5, <1>6, <1>7 DEF NetworksOK

(* Deleting a network removes it from the table, and nothing else.          *)
LEMMA DeleteIs ==
    ASSUME TypeOK, NetworksOK, NEW n \in Networks, NEW k \in 0..2,
           DeleteNetwork(n, k)
    PROVE  /\ networks' \in Seq(Networks) /\ NetworksOK'
           /\ Elements(networks') = Elements(networks) \ {n}
           /\ rows' \subseteq Networks
<1>1. networks \in Seq(Networks) /\ Len(networks) \in Nat
      /\ DOMAIN networks = 1..Len(networks)
  BY DEF TypeOK
<1>2. PICK i \in DOMAIN networks :
          /\ networks[i] = n
          /\ networks' = SubSeq(networks, 1, i - 1)
                             \o SubSeq(networks, i + 1, Len(networks))
  BY DEF DeleteNetwork
<1>3. /\ networks' \in Seq(Networks) /\ Len(networks') = Len(networks) - 1
      /\ \A j \in 1..(i - 1) : networks'[j] = networks[j]
      /\ \A j \in i..(Len(networks) - 1) : networks'[j] = networks[j + 1]
  <2>1. \A r : r = SubSeq(networks, 1, i - 1)
                    \o SubSeq(networks, i + 1, Len(networks)) =>
            /\ r \in Seq(Networks) /\ Len(r) = Len(networks) - 1
            /\ \A j \in 1..(i - 1) : r[j] = networks[j]
            /\ \A j \in i..(Len(networks) - 1) : r[j] = networks[j + 1]
    BY <1>1, RemovedIs
  <2> QED
    BY <1>2, <2>1
<1>4. DOMAIN networks' = 1..(Len(networks) - 1)
  BY <1>3
<1> DEFINE old(j) == IF j < i THEN j ELSE j + 1
<1>5. \A j \in DOMAIN networks' :
          old(j) \in DOMAIN networks \ {i} /\ networks'[j] = networks[old(j)]
  <2> SUFFICES ASSUME NEW j \in 1..(Len(networks) - 1)
               PROVE  /\ old(j) \in DOMAIN networks \ {i}
                      /\ networks'[j] = networks[old(j)]
    BY <1>4
  <2>1. i \in 1..Len(networks) /\ j \in Int
    BY <1>1
  <2>2. CASE j < i
    BY <1>1, <1>3, <2>1, <2>2
  <2>3. CASE ~(j < i)
    BY <1>1, <1>3, <2>1, <2>3
  <2> QED
    BY <2>2, <2>3
<1>6. Distinct'
  <2> SUFFICES ASSUME NEW j1 \in DOMAIN networks', NEW j2 \in DOMAIN networks',
                      networks'[j1] = networks'[j2]
               PROVE  j1 = j2
    BY DEF Distinct
  <2>1. old(j1) = old(j2)
    BY <1>5 DEF NetworksOK, Distinct
  <2>2. j1 \in Int /\ j2 \in Int /\ i \in Int
    BY <1>1, <1>4
  <2> QED
    BY <2>1, <2>2
<1>7. Elements(networks') = Elements(networks) \ {n}
  <2>1. \A j \in DOMAIN networks \ {i} :
            \E j2 \in DOMAIN networks' : old(j2) = j
    <3> SUFFICES ASSUME NEW j \in 1..Len(networks), j # i
                 PROVE  \E j2 \in 1..(Len(networks) - 1) : old(j2) = j
      BY <1>1, <1>4
    <3>1. i \in 1..Len(networks)
      BY <1>1
    <3>2. CASE j < i
      <4>1. j \in 1..(Len(networks) - 1) /\ old(j) = j
        BY <1>1, <3>1, <3>2
      <4> QED
        BY <4>1
    <3>3. CASE ~(j < i)
      <4>1. j - 1 \in 1..(Len(networks) - 1) /\ old(j - 1) = j
        BY <1>1, <3>1, <3>3
      <4> QED
        BY <4>1
    <3> QED
      BY <3>2, <3>3
  <2>2. \A j \in DOMAIN networks \ {i} : networks[j] # n
    BY <1>2 DEF NetworksOK, Distinct
  <2> HIDE DEF old
  <2>3. ASSUME NEW j \in DOMAIN networks'
        PROVE  networks'[j] \in Elements(networks) \ {n}
    BY <1>5, <2>2 DEF Elements
  <2>4. ASSUME NEW j \in DOMAIN networks, networks[j] # n
        PROVE  networks[j] \in Elements(networks')
    <3>1. j # i
      BY <1>2, <2>4
    <3>2. PICK j2 \in DOMAIN networks' : old(j2) = j
      BY <2>1, <3>1
    <3> QED
      BY <1>5, <3>2 DEF Elements
  <2> QED
    BY <2>3, <2>4 DEF Elements
<1>8. IsFiniteSet(rows') /\ rows' \subseteq Networks
  BY FS_RemoveElement DEF DeleteNetwork, NetworksOK, TypeOK
<1> QED
  BY <1>3, <1>6, <1>7, <1>8 DEF NetworksOK

(* The elements of a part of a sequence.                                    *)
LEMMA SubSeqIs ==
    ASSUME NEW S, NEW q \in Seq(S), NEW m \in 1..(Len(q) + 1),
           NEW k \in 0..Len(q)
    PROVE  /\ SubSeq(q, m, k) \in Seq(S)
           /\ Len(SubSeq(q, m, k)) = IF m <= k THEN k - m + 1 ELSE 0
           /\ \A i \in DOMAIN SubSeq(q, m, k) :
                 /\ m + i - 1 \in m..k
                 /\ SubSeq(q, m, k)[i] = q[m + i - 1]
<1>1. \A i \in m..k : q[i] \in S
  OBVIOUS
<1>2. m \in Int /\ k \in Int
  OBVIOUS
<1>3. /\ SubSeq(q, m, k) \in Seq(S)
      /\ Len(SubSeq(q, m, k)) = IF m <= k THEN k - m + 1 ELSE 0
      /\ \A i \in 1..(k - m + 1) : SubSeq(q, m, k)[i] = q[m + i - 1]
  BY <1>1, <1>2, SubSeqProperties
<1> QED
  BY <1>2, <1>3

(* What a probe writes and publishes when the database is back.            *)
Restored == Entries(pending \o Facts("restored"))

(* It is made of the notes that wait and one note for each network.         *)
LEMMA RestoredIs ==
    ASSUME TypeOK
    PROVE  /\ Restored \in Seq(Event)
           /\ Len(Restored) = Len(pending) + Len(networks)
           /\ \A i \in DOMAIN Restored : Restored[i].id = last_id + i
           /\ \A i \in 1..Len(pending) : Restored[i].fact = pending[i]
           /\ \A i \in (Len(pending) + 1)..Len(Restored) :
                 /\ i - Len(pending) \in DOMAIN networks
                 /\ Restored[i].fact = NewFact("restored",
                                           networks[i - Len(pending)], None)
<1>1. pending \in Seq(Fact) /\ last_id \in Nat /\ networks \in Seq(Networks)
  BY DEF TypeOK
<1>2. /\ Facts("restored") \in Seq(Fact)
      /\ Len(Facts("restored")) = Len(networks)
      /\ \A i \in DOMAIN Facts("restored") :
            /\ i \in DOMAIN networks
            /\ Facts("restored")[i] = NewFact("restored", networks[i], None)
  BY FactsAre DEF Kinds
<1> DEFINE more == Facts("restored")
           facts == pending \o more
<1> HIDE DEF more
<1>3. /\ facts \in Seq(Fact) /\ Len(facts) = Len(pending) + Len(networks)
      /\ \A i \in 1..Len(pending) : facts[i] = pending[i]
      /\ \A i \in (Len(pending) + 1)..(Len(pending) + Len(networks)) :
            facts[i] = Facts("restored")[i - Len(pending)]
  <2>1. more \in Seq(Fact) /\ Len(more) = Len(networks)
    BY <1>2 DEF more
  <2>2. /\ pending \o more \in Seq(Fact)
        /\ Len(pending \o more) = Len(pending) + Len(more)
        /\ \A i \in 1..Len(pending) : (pending \o more)[i] = pending[i]
        /\ \A i \in (Len(pending) + 1)..(Len(pending) + Len(more)) :
              (pending \o more)[i] = more[i - Len(pending)]
    BY <1>1, <2>1, ConcatIs
  <2>3. \A i : more[i] = Facts("restored")[i]
    BY DEF more
  <2> QED
    BY <2>1, <2>2, <2>3
<1> USE DEF more
<1> HIDE DEF facts
<1>4. /\ Restored \in Seq(Event) /\ Len(Restored) = Len(facts)
      /\ \A i \in 1..Len(facts) : /\ Restored[i].id = last_id + i
                                  /\ Restored[i].fact = facts[i]
  <2>1. Restored = Entries(facts)
    BY DEF Restored, facts
  <2> QED
    BY <1>1, <1>3, <2>1, EntriesAre
<1>5. /\ DOMAIN Restored = 1..Len(facts)
      /\ Len(pending) \in Nat /\ Len(networks) \in Nat
  BY <1>1, <1>4
<1>6. ASSUME NEW i \in (Len(pending) + 1)..Len(Restored)
      PROVE  /\ i - Len(pending) \in DOMAIN networks
             /\ Restored[i].fact = NewFact("restored",
                                       networks[i - Len(pending)], None)
  <2>1. i \in 1..Len(facts) /\ i - Len(pending) \in 1..Len(networks)
    BY <1>3, <1>4, <1>5
  <2>2. i - Len(pending) \in DOMAIN Facts("restored")
    BY <1>2, <2>1
  <2> QED
    BY <1>2, <1>3, <1>4, <2>1, <2>2
<1>7. \A i \in 1..Len(pending) : i \in 1..Len(facts)
  BY <1>3, <1>5
<1> QED
  BY <1>3, <1>4, <1>5, <1>6, <1>7

(* The entries that such a probe writes, and the events it publishes.       *)
LEMMA ProbeRestoredIs ==
    ASSUME TypeOK, NEW fails, NEW written, ProbeRestored(fails, written),
           NEW published,
           published = SubSeq(Restored, Len(pending) + 1, fails - 1)
    PROVE  /\ fails \in 1..(Len(Restored) + 1)
           /\ written \in {fails - 1, fails} /\ written \in 0..Len(Restored)
           /\ log' = log \cup {Restored[i] : i \in 1..written}
           /\ published \in Seq(Event)
           /\ \A i \in DOMAIN published :
                 /\ Len(pending) + i \in (Len(pending) + 1)..(fails - 1)
                 /\ published[i] = Restored[Len(pending) + i]
           /\ \A i \in (Len(pending) + 1)..(fails - 1) :
                 i - Len(pending) \in DOMAIN published
           /\ Publish(published)
           /\ fails <= Len(Restored) =>
                 cut' = cut \cup {Restored[i].fact : i \in 1..written}
<1>1. /\ Restored \in Seq(Event) /\ Len(Restored) \in Nat
      /\ Len(Restored) = Len(pending) + Len(networks)
      /\ Len(pending) \in Nat /\ Len(networks) \in Nat
  BY RestoredIs DEF TypeOK
<1>2. /\ fails \in 1..(Len(Restored) + 1)
      /\ written \in {fails - 1, fails} /\ written <= Len(Restored)
  BY DEF ProbeRestored, Restored
<1>3. written \in 0..Len(Restored) /\ fails - 1 \in 0..Len(Restored)
      /\ Len(pending) + 1 \in 1..(Len(Restored) + 1)
  BY <1>1, <1>2
<1> DEFINE entries == SubSeq(Restored, 1, written)
<1>4. /\ DOMAIN entries = 1..written
      /\ \A i \in 1..written : entries[i] = Restored[i]
  BY <1>1, <1>3
<1>5. /\ published \in Seq(Event)
      /\ \A i \in DOMAIN published :
            /\ Len(pending) + 1 + i - 1 \in (Len(pending) + 1)..(fails - 1)
            /\ published[i] = Restored[Len(pending) + 1 + i - 1]
      /\ Len(published) = IF Len(pending) + 1 <= fails - 1
                            THEN fails - 1 - (Len(pending) + 1) + 1 ELSE 0
  <2> DEFINE r == SubSeq(Restored, Len(pending) + 1, fails - 1)
  <2>1. /\ r \in Seq(Event)
        /\ \A i \in DOMAIN r :
              /\ Len(pending) + 1 + i - 1 \in (Len(pending) + 1)..(fails - 1)
              /\ r[i] = Restored[Len(pending) + 1 + i - 1]
        /\ Len(r) = IF Len(pending) + 1 <= fails - 1
                      THEN fails - 1 - (Len(pending) + 1) + 1 ELSE 0
    BY <1>1, <1>3, SubSeqIs
  <2> QED
    BY <2>1
<1>6. \A i \in DOMAIN published : Len(pending) + 1 + i - 1 = Len(pending) + i
  BY <1>1, <1>5
<1>9. \A i \in (Len(pending) + 1)..(fails - 1) :
          i - Len(pending) \in DOMAIN published
  <2>1. DOMAIN published = 1..Len(published)
    BY <1>5
  <2> QED
    BY <1>1, <1>3, <1>5, <2>1
<1>7. /\ log' = log \cup Elements(entries) /\ Publish(published)
      /\ fails <= Len(Restored) => cut' = cut \cup FactsOf(entries)
  BY <1>1, <1>2 DEF ProbeRestored, Restored
<1> HIDE DEF entries
<1>8. Elements(entries) = {Restored[i] : i \in 1..written}
      /\ FactsOf(entries) = {Restored[i].fact : i \in 1..written}
  BY <1>4 DEF Elements, FactsOf
<1> QED
  BY <1>2, <1>3, <1>5, <1>6, <1>7, <1>8, <1>9

(* A message or a note adds one entry.                                     *)
LEMMA OneEntry ==
    ASSUME last_id \in Nat, NEW fact \in Fact
    PROVE  /\ Entries(<<fact>>) \in Seq(Event) /\ Len(Entries(<<fact>>)) = 1
           /\ Entries(<<fact>>)[1] = [id |-> last_id + 1, fact |-> fact]
           /\ Elements(Entries(<<fact>>))
                 = {[id |-> last_id + 1, fact |-> fact]}
<1>1. /\ <<fact>> \in Seq(Fact) /\ DOMAIN <<fact>> = {1}
      /\ <<fact>>[1] = fact /\ Len(<<fact>>) = 1
  OBVIOUS
<1>2. Entries(<<fact>>) \in Seq(Event) /\ Len(Entries(<<fact>>)) = 1
  BY <1>1, EntriesAre
<1>3. Entries(<<fact>>)
          = [i \in {1} |-> [id |-> last_id + i, fact |-> <<fact>>[i]]]
  BY <1>1 DEF Entries
<1> QED
  BY <1>1, <1>2, <1>3 DEF Elements

(* What a new process has and writes.                                      *)
Started(i) ==
    [id |-> last_id + i, fact |-> NewFact("started", Ordered(rows)[i], None)]

(* The networks of a new process are those with a row, once each.           *)
LEMMA RestartIs ==
    ASSUME TypeOK, NetworksOK, Restart
    PROVE  /\ Cardinality(rows) \in Nat
           /\ networks' \in Seq(Networks) /\ NetworksOK'
           /\ Elements(networks') = rows
           /\ \A i \in 1..Cardinality(rows) :
                 Started(i) \in Event /\ Ordered(rows)[i] \in rows
           /\ log' = log \cup {Started(i) : i \in 1..Cardinality(rows)}
<1> DEFINE k == Cardinality(rows)
<1>1. /\ k \in Nat /\ Ordered(rows) \in [1..k -> rows]
      /\ Elements(Ordered(rows)) = rows
      /\ \A i, j \in 1..k : Ordered(rows)[i] = Ordered(rows)[j] => i = j
  BY OrderedIs DEF NetworksOK
<1>2. networks' = Ordered(rows) /\ rows' = rows
  BY DEF Restart
<1>3. rows \subseteq Networks /\ last_id \in Nat /\ now \in Nat
  BY MonitorAssumption DEF TypeOK
<1>4. networks' \in Seq(Networks)
  <2>1. Ordered(rows) \in [1..k -> Networks]
    BY <1>1, <1>3
  <2> HIDE DEF k
  <2> QED
    BY <1>1, <1>2, <2>1
<1>5. NetworksOK' /\ Elements(networks') = rows
  <2>1. DOMAIN Ordered(rows) = 1..k
    BY <1>1
  <2> QED
    BY <1>1, <1>2, <2>1 DEF NetworksOK, Distinct
<1> DEFINE facts == [i \in 1..k |-> NewFact("started", Ordered(rows)[i], None)]
<1>6. \A i \in 1..k : /\ Started(i) \in Event /\ Ordered(rows)[i] \in rows
                      /\ facts[i] = Started(i).fact
  BY <1>1, <1>3 DEF Started, NewFact, Event, Fact, Kinds
<1>7. log' = log \cup Elements(Entries(facts)) /\ DOMAIN facts = 1..k
  BY DEF Restart
<1> HIDE DEF facts
<1>8. Elements(Entries(facts)) = {Started(i) : i \in 1..k}
  <2>1. Entries(facts)
            = [i \in 1..k |-> [id |-> last_id + i, fact |-> facts[i]]]
    BY <1>7 DEF Entries
  <2>2. \A i \in 1..k : [id |-> last_id + i, fact |-> facts[i]] = Started(i)
    BY <1>6 DEF Started
  <2>3. \A i \in 1..k : Entries(facts)[i] = Started(i)
    BY <2>1, <2>2
  <2>4. DOMAIN Entries(facts) = 1..k
    BY <2>1
  <2> QED
    BY <2>3, <2>4 DEF Elements
<1> QED
  BY <1>1, <1>4, <1>5, <1>6, <1>7, <1>8

(* The end of all streams keeps the types.                                  *)
LEMMA StreamsEndTyped ==
    ASSUME StreamTypeOK, StreamsEnd
    PROVE  StreamTypeOK'
<1>1. <<>> \in Seq(Event) /\ Len(<<>>) = 0 /\ 0 <= QueueMax
  BY StreamAssumption
<1> QED
  BY <1>1 DEF StreamsEnd, StreamTypeOK

(* Streams that are left alone keep their types.                            *)
LEMMA StreamsStand ==
    ASSUME StreamTypeOK, UNCHANGED streamVars
    PROVE  StreamTypeOK'
BY DEF StreamTypeOK, streamVars

(* A failure of the database is within the bound.                           *)
LEMMA FailsTyped ==
    ASSUME TypeOK, DatabaseFails
    PROVE  dbUp' = FALSE /\ dbUp' \in BOOLEAN /\ now' \in 0..MaxTime
<1>1. dbUp' = FALSE /\ now' = now + 1 /\ now < MaxTime /\ now \in 0..MaxTime
  BY DEF DatabaseFails, Tick, TypeOK
<1>2. now' \in 0..MaxTime
  BY <1>1, MonitorAssumption
<1> QED
  BY <1>1, <1>2

(* Messages and notes keep the types.                                       *)
LEMMA WriteTyped ==
    ASSUME TypeOK, NetworksOK, NEW n \in Networks,
           NEW ch \in Channels \cup {None},
           Message(n, ch) \/ MessageUnanswered(n, ch) \/ Note(n)
    PROVE  TypeOK' /\ NetworksOK'
<1>1. last_id \in Nat /\ now \in Nat /\ now \in 0..MaxTime /\ MaxTime \in Nat
  BY MonitorAssumption DEF TypeOK
<1> DEFINE fact(kind, c) == NewFact(kind, n, c)
<1>2. /\ NewFact("message", n, ch) \in Fact
      /\ NewFact("note", n, None) \in Fact
  BY <1>1 DEF NewFact, Fact, Kinds
<1>3. Tick => now' \in 0..MaxTime
  BY <1>1 DEF Tick
<1>4. \A f \in Fact : [id |-> last_id + 1, fact |-> f] \in Event
  BY <1>1 DEF Event
<1>5. NetworksOK' /\ UNCHANGED <<networks, rows>>
  BY DEF Message, MessageUnanswered, Note, NetworksOK, Distinct
<1>6. CASE Message(n, ch)
  <2> DEFINE e == Entries(<<NewFact("message", n, ch)>>)
  <2>1. e \in Seq(Event) /\ Elements(e) \subseteq Event
    BY <1>1, <1>2, <1>4, OneEntry
  <2>2. Publish(e)
    BY <1>6 DEF Message
  <2>3. StreamTypeOK'
    <3> HIDE DEF e
    <3> QED
      BY <2>1, <2>2, PublishTyped DEF TypeOK
  <2> QED
    BY <1>1, <1>3, <1>5, <1>6, <2>1, <2>3 DEF Message, TypeOK
<1>7. CASE MessageUnanswered(n, ch)
  <2>1. Elements(Entries(<<NewFact("message", n, ch)>>)) \subseteq Event
    BY <1>1, <1>2, <1>4, OneEntry
  <2>2. StreamTypeOK'
    BY <1>7, StreamsStand DEF MessageUnanswered, TypeOK
  <2>3. dbUp' \in BOOLEAN /\ now' \in 0..MaxTime
    BY <1>7, FailsTyped DEF MessageUnanswered
  <2>4. /\ log' \subseteq Event /\ last_id' \in Nat /\ cut' \subseteq Fact
        /\ UNCHANGED <<db_ok, networks, rows, pending, noticed, forgotten,
                       stalled, leftover>>
    BY <1>1, <1>2, <1>7, <2>1 DEF MessageUnanswered, TypeOK
  <2> QED
    BY <1>5, <2>2, <2>3, <2>4 DEF TypeOK
<1>8. CASE Note(n)
  <2>1. Elements(Entries(<<NewFact("note", n, None)>>)) \subseteq Event
    BY <1>1, <1>2, <1>4, OneEntry
  <2>2. StreamTypeOK'
    BY <1>8, StreamsStand DEF Note, TypeOK
  <2> QED
    BY <1>1, <1>3, <1>5, <1>8, <2>1, <2>2 DEF Note, TypeOK
<1> QED
  BY <1>6, <1>7, <1>8

(* Probes keep the types.                                                   *)
LEMMA ProbeTyped ==
    ASSUME TypeOK, NetworksOK, Probe
    PROVE  TypeOK' /\ NetworksOK'
<1>1. last_id \in Nat /\ now \in 0..MaxTime /\ MaxTime \in Nat
  BY MonitorAssumption DEF TypeOK
<1>2. CASE ProbeUnchanged
  BY <1>2 DEF ProbeUnchanged, vars, streamVars, monitorVars, TypeOK,
              StreamTypeOK, NetworksOK, Distinct
<1>3. CASE ProbeLost
  <2> DEFINE facts == Facts("lost")
  <2>1. facts \in Seq(Fact)
    BY FactsAre DEF Kinds
  <2>2. /\ pending' = pending \o facts /\ Publish(Temporary(facts))
        /\ noticed' = noticed \cup Elements(facts)
    BY <1>3 DEF ProbeLost
  <2>3. UNCHANGED <<networks, rows, dbUp, log, last_id, now, forgotten, cut,
                    stalled, leftover>> /\ db_ok' = FALSE
    BY <1>3 DEF ProbeLost
  <2> HIDE DEF facts
  <2>4. StreamTypeOK'
    <3>1. Temporary(facts) \in Seq(Event)
      BY <2>1, TemporaryAre
    <3> QED
      BY <2>2, <3>1, PublishTyped DEF TypeOK
  <2>5. pending' \in Seq(Fact) /\ Elements(facts) \subseteq Fact
    <3>1. pending \in Seq(Fact)
      BY DEF TypeOK
    <3>2. \A i \in DOMAIN facts : facts[i] \in Fact
      BY <2>1
    <3> QED
      BY <2>1, <2>2, <3>1, <3>2 DEF Elements
  <2> QED
    BY <2>2, <2>3, <2>4, <2>5 DEF TypeOK, NetworksOK, Distinct
<1>4. ASSUME NEW fails, NEW written, ProbeRestored(fails, written)
      PROVE  TypeOK' /\ NetworksOK'
  <2> DEFINE published == SubSeq(Restored, Len(pending) + 1, fails - 1)
  <2>1. /\ fails \in 1..(Len(Restored) + 1) /\ written \in 0..Len(Restored)
        /\ log' = log \cup {Restored[i] : i \in 1..written}
        /\ published \in Seq(Event) /\ Publish(published)
        /\ fails <= Len(Restored) =>
              cut' = cut \cup {Restored[i].fact : i \in 1..written}
    <3>1. \A p : p = SubSeq(Restored, Len(pending) + 1, fails - 1) =>
             /\ fails \in 1..(Len(Restored) + 1)
             /\ written \in 0..Len(Restored)
             /\ log' = log \cup {Restored[i] : i \in 1..written}
             /\ p \in Seq(Event) /\ Publish(p)
             /\ fails <= Len(Restored) =>
                   cut' = cut \cup {Restored[i].fact : i \in 1..written}
      BY <1>4, ProbeRestoredIs
    <3> QED
      BY <3>1
  <2> HIDE DEF published
  <2>2. StreamTypeOK'
    BY <2>1, PublishTyped DEF TypeOK
  <2>3. Restored \in Seq(Event) /\ Len(Restored) \in Nat
    BY RestoredIs
  <2>4. \A i \in 1..written : /\ Restored[i] \in Event
                              /\ Restored[i].fact \in Fact
    <3>1. \A i \in 1..written : i \in DOMAIN Restored
      BY <2>1, <2>3
    <3>2. \A i \in DOMAIN Restored : Restored[i] \in Event
      BY <2>3
    <3>3. \A e \in Event : e.fact \in Fact
      BY DEF Event
    <3> QED
      BY <3>1, <3>2, <3>3
  <2>5. log' \subseteq Event /\ last_id' \in Nat
    <3>1. last_id' = last_id + written
      BY <1>4 DEF ProbeRestored
    <3> QED
      BY <1>1, <2>1, <2>3, <2>4, <3>1 DEF TypeOK
  <2>6. now' \in 0..MaxTime /\ dbUp' \in BOOLEAN /\ cut' \subseteq Fact
    <3>1. \/ UNCHANGED <<dbUp, now, cut>>
          \/ DatabaseFails /\ fails <= Len(Restored)
      BY <1>4, <2>1, <2>3 DEF ProbeRestored, Restored
    <3>2. DatabaseFails => now' \in 0..MaxTime /\ dbUp' \in BOOLEAN
      BY FailsTyped
    <3>3. \A f \in {Restored[i].fact : i \in 1..written} : f \in Fact
      BY <2>4
    <3> QED
      BY <1>1, <2>1, <3>1, <3>2, <3>3 DEF TypeOK
  <2>7. pending' \in Seq(Fact) /\ stalled' \in BOOLEAN
    BY <1>4 DEF ProbeRestored, PendingAfter, TypeOK
  <2>8. /\ db_ok' = TRUE
        /\ UNCHANGED <<networks, rows, noticed, forgotten, leftover>>
    BY <1>4 DEF ProbeRestored
  <2> QED
    BY <2>2, <2>5, <2>6, <2>7, <2>8 DEF TypeOK, NetworksOK, Distinct
<1> QED
  BY <1>2, <1>3, <1>4 DEF Probe

(* All steps of the monitor, the handlers and the process keep the types.   *)
LEMMA MonitorTyped ==
    ASSUME TypeOK, NetworksOK, MonitorStep
    PROVE  TypeOK' /\ NetworksOK'
<1>1. ASSUME NEW n \in Networks, CreateNetwork(n)
      PROVE  TypeOK' /\ NetworksOK'
  <2>1. networks' \in Seq(Networks) /\ NetworksOK' /\ rows' \subseteq Networks
    BY <1>1, CreateIs
  <2>2. StreamTypeOK'
    BY <1>1, StreamsStand DEF CreateNetwork, TypeOK
  <2> QED
    BY <1>1, <2>1, <2>2 DEF CreateNetwork, TypeOK
<1>2. ASSUME NEW n \in Networks, NEW k \in 0..2, DeleteNetwork(n, k)
      PROVE  TypeOK' /\ NetworksOK'
  <2>1. networks' \in Seq(Networks) /\ NetworksOK' /\ rows' \subseteq Networks
    BY <1>2, DeleteIs
  <2>2. StreamTypeOK'
    BY <1>2, StreamsStand DEF DeleteNetwork, TypeOK
  <2>3. log' \subseteq log /\ noticed' \subseteq noticed
    BY <1>2 DEF DeleteNetwork, LogAfterDelete
  <2>4. leftover' \subseteq Networks
    BY <1>2 DEF DeleteNetwork, TypeOK
  <2>5. dbUp' \in BOOLEAN /\ now' \in 0..MaxTime
    <3>1. CASE DatabaseFails
      BY <3>1, FailsTyped
    <3>2. CASE UNCHANGED <<dbUp, now>>
      BY <3>2 DEF TypeOK
    <3> QED
      BY <1>2, <3>1, <3>2 DEF DeleteNetwork
  <2>6. UNCHANGED <<db_ok, pending, last_id, forgotten, cut, stalled>>
    BY <1>2 DEF DeleteNetwork
  <2> QED
    BY <2>1, <2>2, <2>3, <2>4, <2>5, <2>6 DEF TypeOK
<1>3. CASE OutageBegins \/ OutageEnds
  <2>1. StreamTypeOK'
    BY <1>3, StreamsStand DEF OutageBegins, OutageEnds, TypeOK
  <2>2. dbUp' \in BOOLEAN /\ now' \in 0..MaxTime
    <3>1. CASE DatabaseFails
      BY <3>1, FailsTyped
    <3>2. CASE dbUp' = TRUE /\ UNCHANGED now
      BY <3>2 DEF TypeOK
    <3> QED
      BY <1>3, <3>1, <3>2 DEF OutageBegins, OutageEnds
  <2> QED
    BY <1>3, <2>1, <2>2
       DEF OutageBegins, OutageEnds, TypeOK, NetworksOK, Distinct
<1>4. CASE Restart
  <2>1. /\ networks' \in Seq(Networks) /\ NetworksOK'
        /\ Cardinality(rows) \in Nat
        /\ \A i \in 1..Cardinality(rows) : Started(i) \in Event
        /\ log' = log \cup {Started(i) : i \in 1..Cardinality(rows)}
    BY <1>4, RestartIs
  <2>2. StreamTypeOK'
    BY <1>4, StreamsEndTyped DEF Restart, TypeOK
  <2>3. log' \subseteq Event
    BY <2>1 DEF TypeOK
  <2>4. last_id' \in Nat /\ now' \in 0..MaxTime
    <3>1. last_id' = last_id + Cardinality(rows) /\ Tick
      BY <1>4 DEF Restart
    <3> QED
      BY <2>1, <3>1, MonitorAssumption DEF Tick, TypeOK
  <2>5. leftover' \subseteq Networks
    <3>1. \A f \in StoredFacts : f.network \in Networks
      BY DEF StoredFacts, TypeOK, Event, Fact
    <3> QED
      BY <1>4, <3>1 DEF Restart, TypeOK
  <2>6. /\ pending' = <<>> /\ db_ok' = TRUE /\ stalled' = FALSE
        /\ UNCHANGED <<dbUp, rows, noticed, cut>>
    BY <1>4 DEF Restart
  <2>7. pending' \in Seq(Fact)
    BY <2>6
  <2>8. forgotten' \subseteq Fact
    <3>1. pending \in Seq(Fact) /\ forgotten \subseteq Fact
      BY DEF TypeOK
    <3>2. Elements(pending) \subseteq Fact
      BY <3>1 DEF Elements
    <3> QED
      BY <1>4, <3>1, <3>2 DEF Restart
  <2> QED
    BY <2>1, <2>2, <2>3, <2>4, <2>5, <2>6, <2>7, <2>8 DEF TypeOK
<1> QED
  BY <1>1, <1>2, <1>3, <1>4, WriteTyped, ProbeTyped DEF MonitorStep

(* Every step keeps the types.                                              *)
LEMMA StepTyped ==
    ASSUME TypeOK, NetworksOK, [Next]_vars
    PROVE  TypeOK' /\ NetworksOK'
<1>1. CASE StreamStep(log) /\ UNCHANGED monitorVars
  <2>1. StreamTypeOK'
    BY <1>1, StreamTyped DEF TypeOK
  <2> QED
    BY <1>1, <2>1 DEF monitorVars, TypeOK, NetworksOK, Distinct
<1>2. CASE UNCHANGED vars
  BY <1>2, StreamsStand DEF vars, monitorVars, TypeOK, NetworksOK, Distinct
<1> QED
  BY <1>1, <1>2, MonitorTyped DEF Next

(* The types hold at the beginning.                                         *)
LEMMA InitTyped == Init => TypeOK /\ NetworksOK
<1> SUFFICES ASSUME Init PROVE TypeOK /\ NetworksOK
  OBVIOUS
<1>1. /\ <<>> \in Seq(Event) /\ Len(<<>>) = 0 /\ 0 <= QueueMax
      /\ <<>> \in Seq(Networks) /\ <<>> \in Seq(Fact)
  BY StreamAssumption
<1>2. StreamTypeOK
  BY <1>1 DEF Init, StreamInit, StreamTypeOK
<1>3. NetworksOK
  <2>1. DOMAIN networks = {}
    BY DEF Init
  <2> QED
    BY <2>1, FS_EmptySet DEF Init, NetworksOK, Distinct
<1>4. 0 \in 0..MaxTime /\ TRUE \in BOOLEAN /\ FALSE \in BOOLEAN
  BY MonitorAssumption
<1> QED
  BY <1>1, <1>2, <1>3, <1>4 DEF Init, TypeOK

(***************************************************************************)
(* Every variable of the monitor and the streams keeps its type: no queue  *)
(* grows beyond its size, whatever is published and whoever reads.         *)
(***************************************************************************)
THEOREM TypeCorrect == Spec => []TypeOK
<1>1. Init => TypeOK /\ NetworksOK
  BY InitTyped
<1>2. TypeOK /\ NetworksOK /\ [Next]_vars => TypeOK' /\ NetworksOK'
  BY StepTyped
<1> QED
  BY <1>1, <1>2, PTL DEF Spec

-----------------------------------------------------------------------------
(* Losses, and deleted networks.                                           *)

(* A probe that forgets the notes has written all of them.                 *)
LEMMA ForgottenAreWritten ==
    ASSUME TypeOK, NEW fails, NEW written, ProbeRestored(fails, written)
    PROVE  /\ StoredFacts \subseteq StoredFacts'
           /\ \/ pending' = pending
              \/ pending' = <<>> /\ Elements(pending) \subseteq StoredFacts'
<1>1. /\ fails \in 1..(Len(Restored) + 1)
      /\ written \in {fails - 1, fails} /\ written \in 0..Len(Restored)
      /\ log' = log \cup {Restored[i] : i \in 1..written}
  BY ProbeRestoredIs
<1>2. /\ Len(Restored) = Len(pending) + Len(networks)
      /\ \A i \in 1..Len(pending) : Restored[i].fact = pending[i]
      /\ Len(pending) \in Nat /\ Len(networks) \in Nat
      /\ DOMAIN pending = 1..Len(pending)
  <2>1. pending \in Seq(Fact) /\ networks \in Seq(Networks)
    BY DEF TypeOK
  <2>2. /\ Len(pending) \in Nat /\ Len(networks) \in Nat
        /\ DOMAIN pending = 1..Len(pending)
    BY <2>1
  <2> QED
    BY <2>2, RestoredIs
<1>3. CASE fails > Len(pending)
  <2>1. \A i \in 1..Len(pending) : i \in 1..written
    BY <1>1, <1>2, <1>3
  <2>2. \A i \in DOMAIN pending : \E e \in log' : e.fact = pending[i]
    BY <1>1, <1>2, <2>1
  <2>3. pending' = <<>>
    BY <1>3 DEF ProbeRestored, PendingAfter
  <2> QED
    BY <1>1, <2>2, <2>3 DEF StoredFacts, Elements
<1>4. CASE ~(fails > Len(pending))
  BY <1>1, <1>4 DEF ProbeRestored, PendingAfter, StoredFacts
<1> QED
  BY <1>3, <1>4

(* A loss adds one note for each network to those that wait.                *)
LEMMA LostIs ==
    ASSUME TypeOK, ProbeLost
    PROVE  /\ Elements(pending')
                 = Elements(pending) \cup Elements(Facts("lost"))
           /\ \A f \in Elements(Facts("lost")) :
                 f.network \in Elements(networks)
<1> DEFINE facts == Facts("lost")
<1>1. /\ facts \in Seq(Fact) /\ Len(facts) = Len(networks)
      /\ \A i \in DOMAIN facts :
            /\ i \in DOMAIN networks
            /\ facts[i] = NewFact("lost", networks[i], None)
  BY FactsAre DEF Kinds
<1>2. /\ pending \in Seq(Fact) /\ pending' = pending \o facts
  BY DEF ProbeLost, TypeOK
<1> HIDE DEF facts
<1>3. /\ pending' \in Seq(Fact) /\ Len(pending') = Len(pending) + Len(facts)
      /\ \A i \in 1..Len(pending) : pending'[i] = pending[i]
      /\ \A i \in (Len(pending) + 1)..(Len(pending) + Len(facts)) :
            pending'[i] = facts[i - Len(pending)]
  BY <1>1, <1>2
<1>4. /\ Len(pending) \in Nat /\ Len(facts) \in Nat
      /\ DOMAIN pending = 1..Len(pending) /\ DOMAIN facts = 1..Len(facts)
      /\ DOMAIN pending' = 1..(Len(pending) + Len(facts))
  BY <1>1, <1>2, <1>3
<1>5. ASSUME NEW i \in DOMAIN pending'
      PROVE  pending'[i] \in Elements(pending) \cup Elements(facts)
  <2>1. CASE i \in 1..Len(pending)
    BY <1>3, <1>4, <2>1 DEF Elements
  <2>2. CASE i \notin 1..Len(pending)
    <3>1. /\ i \in (Len(pending) + 1)..(Len(pending) + Len(facts))
          /\ i - Len(pending) \in DOMAIN facts
      BY <1>4, <2>2
    <3> QED
      BY <1>3, <3>1 DEF Elements
  <2> QED
    BY <2>1, <2>2
<1>6. ASSUME NEW i \in DOMAIN pending
      PROVE  pending[i] \in Elements(pending')
  <2>1. i \in DOMAIN pending' /\ i \in 1..Len(pending)
    BY <1>4
  <2> QED
    BY <1>3, <2>1 DEF Elements
<1>7. ASSUME NEW i \in DOMAIN facts
      PROVE  facts[i] \in Elements(pending')
  <2>1. /\ Len(pending) + i \in DOMAIN pending'
        /\ Len(pending) + i
              \in (Len(pending) + 1)..(Len(pending) + Len(facts))
        /\ Len(pending) + i - Len(pending) = i
    BY <1>4
  <2> QED
    BY <1>3, <2>1 DEF Elements
<1>8. Elements(pending') = Elements(pending) \cup Elements(facts)
  <2>1. \A x \in Elements(pending') :
            \E i \in DOMAIN pending' : x = pending'[i]
    BY DEF Elements
  <2>2. \A x \in Elements(pending) \cup Elements(facts) :
            \/ \E i \in DOMAIN pending : x = pending[i]
            \/ \E i \in DOMAIN facts : x = facts[i]
    BY DEF Elements
  <2> QED
    BY <1>5, <1>6, <1>7, <2>1, <2>2
<1>9. \A f \in Elements(facts) : f.network \in Elements(networks)
  BY <1>1 DEF Elements, NewFact
<1> QED
  BY <1>8, <1>9 DEF facts

(* The notes that wait are those of networks that are there, or were.      *)
PendingOwned ==
    \A f \in Elements(pending) : f.network \in Elements(networks) \cup leftover

LossInv == NoLossForgotten /\ DeletedStayGone /\ PendingOwned

(* What the new entries of a step say, for those that only add to the log. *)
LEMMA OneStored ==
    ASSUME TypeOK, NEW n \in Networks, NEW ch \in Channels \cup {None},
           Message(n, ch) \/ MessageUnanswered(n, ch) \/ Note(n)
    PROVE  \E fact \in Fact : /\ fact.network = n
                              /\ StoredFacts' = StoredFacts \cup {fact}
<1>1. last_id \in Nat /\ now \in Nat
  BY MonitorAssumption DEF TypeOK
<1>2. ASSUME NEW fact \in Fact, fact.network = n,
             log' = log \cup Elements(Entries(<<fact>>))
      PROVE  StoredFacts' = StoredFacts \cup {fact}
  <2> DEFINE e == [id |-> last_id + 1, fact |-> fact]
  <2>1. Elements(Entries(<<fact>>)) = {e} /\ e.fact = fact
    BY <1>1, OneEntry
  <2> HIDE DEF e
  <2>2. log' = log \cup {e}
    BY <1>2, <2>1
  <2> QED
    BY <2>1, <2>2 DEF StoredFacts
<1>3. /\ NewFact("message", n, ch) \in Fact
      /\ NewFact("message", n, ch).network = n
      /\ NewFact("note", n, None) \in Fact
      /\ NewFact("note", n, None).network = n
  BY <1>1 DEF NewFact, Fact, Kinds
<1>4. \/ log' = log \cup Elements(Entries(<<NewFact("message", n, ch)>>))
      \/ log' = log \cup Elements(Entries(<<NewFact("note", n, None)>>))
  BY DEF Message, MessageUnanswered, Note
<1> QED
  BY <1>2, <1>3, <1>4

(* Every step keeps the losses and the deleted networks in order.           *)
LEMMA StepKeepsLosses ==
    ASSUME TypeOK, NetworksOK, LossInv, [Next]_vars
    PROVE  LossInv'
<1> USE DEF LossInv
<1>1. ASSUME NEW n \in Networks, NEW ch \in Channels \cup {None},
             Message(n, ch) \/ MessageUnanswered(n, ch) \/ Note(n)
      PROVE  LossInv'
  <2>1. PICK fact \in Fact : /\ fact.network = n
                             /\ StoredFacts' = StoredFacts \cup {fact}
    BY <1>1, OneStored
  <2>2. /\ UNCHANGED <<networks, pending, noticed, forgotten, leftover>>
        /\ n \in Elements(networks)
    BY <1>1 DEF Message, MessageUnanswered, Note
  <2> QED
    BY <2>1, <2>2 DEF NoLossForgotten, DeletedStayGone, PendingOwned
<1>2. ASSUME NEW n \in Networks, CreateNetwork(n)
      PROVE  LossInv'
  <2>1. Elements(networks') = Elements(networks) \cup {n}
    BY <1>2, CreateIs
  <2>2. UNCHANGED <<pending, noticed, forgotten, leftover, log>>
    BY <1>2 DEF CreateNetwork
  <2> QED
    BY <2>1, <2>2
       DEF NoLossForgotten, DeletedStayGone, PendingOwned, StoredFacts
<1>3. ASSUME NEW n \in Networks, NEW k \in 0..2, DeleteNetwork(n, k)
      PROVE  LossInv'
  <2>1. Elements(networks') = Elements(networks) \ {n}
    BY <1>3, DeleteIs
  <2>2. /\ UNCHANGED <<pending, forgotten>>
        /\ noticed' = {f \in noticed : f.network # n}
        /\ log' = IF k = 2 THEN {e \in log : e.fact.network # n} ELSE log
        /\ leftover' =
              IF \/ k < 2 /\ \E f \in StoredFacts : f.network = n
                 \/ \E f \in Elements(pending) : f.network = n
                THEN leftover \cup {n} ELSE leftover \ {n}
    BY <1>3 DEF DeleteNetwork, LogAfterDelete
  <2>3. /\ \A f \in StoredFacts : f.network # n => f \in StoredFacts'
        /\ StoredFacts' \subseteq StoredFacts
        /\ k = 2 => \A f \in StoredFacts' : f.network # n
    BY <2>2 DEF StoredFacts
  <2>4. k = 2 \/ k < 2
    OBVIOUS
  <2>5. NoLossForgotten'
    BY <2>2, <2>3 DEF NoLossForgotten
  <2>6. DeletedStayGone'
    BY <2>1, <2>2, <2>3, <2>4 DEF DeletedStayGone
  <2>7. PendingOwned'
    BY <2>1, <2>2 DEF PendingOwned
  <2> QED
    BY <2>5, <2>6, <2>7
<1>4. CASE ProbeLost
  <2>1. /\ Elements(pending') = Elements(pending) \cup Elements(Facts("lost"))
        /\ \A f \in Elements(Facts("lost")) : f.network \in Elements(networks)
    BY <1>4, LostIs
  <2>2. /\ noticed' = noticed \cup Elements(Facts("lost"))
        /\ UNCHANGED <<networks, forgotten, leftover, log>>
    BY <1>4 DEF ProbeLost
  <2> QED
    BY <2>1, <2>2
       DEF NoLossForgotten, DeletedStayGone, PendingOwned, StoredFacts
<1>5. ASSUME NEW fails, NEW written, ProbeRestored(fails, written)
      PROVE  LossInv'
  <2>1. /\ StoredFacts \subseteq StoredFacts'
        /\ \/ pending' = pending
           \/ pending' = <<>> /\ Elements(pending) \subseteq StoredFacts'
    BY <1>5, ForgottenAreWritten
  <2>2. UNCHANGED <<networks, noticed, forgotten, leftover>>
    BY <1>5 DEF ProbeRestored
  <2>3. pending' = <<>> => Elements(pending') = {}
    BY DEF Elements
  <2>4. \A f \in StoredFacts' :
            \/ f \in StoredFacts \/ f \in Elements(pending)
            \/ f.network \in Elements(networks)
    <3>1. /\ written \in 0..Len(Restored)
          /\ log' = log \cup {Restored[i] : i \in 1..written}
      BY <1>5, ProbeRestoredIs
    <3>2. /\ Len(Restored) = Len(pending) + Len(networks)
          /\ \A i \in 1..Len(pending) : Restored[i].fact = pending[i]
          /\ \A i \in (Len(pending) + 1)..Len(Restored) :
                /\ i - Len(pending) \in DOMAIN networks
                /\ Restored[i].fact = NewFact("restored",
                                          networks[i - Len(pending)], None)
          /\ Len(pending) \in Nat /\ Len(networks) \in Nat
          /\ DOMAIN pending = 1..Len(pending)
      <4>1. pending \in Seq(Fact) /\ networks \in Seq(Networks)
        BY DEF TypeOK
      <4>2. /\ Len(pending) \in Nat /\ Len(networks) \in Nat
            /\ DOMAIN pending = 1..Len(pending)
        BY <4>1
      <4> QED
        BY <4>2, RestoredIs
    <3>3. ASSUME NEW i \in 1..written
          PROVE  \/ Restored[i].fact \in Elements(pending)
                 \/ Restored[i].fact.network \in Elements(networks)
      <4>1. \/ i \in 1..Len(pending)
            \/ i \in (Len(pending) + 1)..Len(Restored)
        BY <3>1, <3>2
      <4>2. CASE i \in 1..Len(pending)
        BY <3>2, <4>2 DEF Elements
      <4>3. CASE i \in (Len(pending) + 1)..Len(Restored)
        <5>1. /\ i - Len(pending) \in DOMAIN networks
              /\ Restored[i].fact.network = networks[i - Len(pending)]
          <6>1. \A n : NewFact("restored", n, None).network = n
            BY DEF NewFact
          <6> QED
            BY <3>2, <4>3, <6>1
        <5> QED
          BY <5>1 DEF Elements
      <4> QED
        BY <4>1, <4>2, <4>3
    <3> QED
      BY <3>1, <3>3 DEF StoredFacts
  <2>5. Elements(pending') \subseteq Elements(pending)
    BY <2>1, <2>3
  <2>6. NoLossForgotten'
    BY <2>1, <2>2 DEF NoLossForgotten
  <2>7. DeletedStayGone' /\ PendingOwned'
    BY <2>2, <2>4, <2>5 DEF DeletedStayGone, PendingOwned
  <2> QED
    BY <2>6, <2>7
<1>6. CASE Restart
  <2>1. /\ Elements(networks') = rows
        /\ \A i \in 1..Cardinality(rows) : Ordered(rows)[i] \in rows
        /\ log' = log \cup {Started(i) : i \in 1..Cardinality(rows)}
    BY <1>6, RestartIs
  <2>2. /\ pending' = <<>> /\ noticed' = noticed
        /\ forgotten' = forgotten \cup (Elements(pending) \ StoredFacts)
        /\ leftover' = leftover
              \cup {f.network : f \in {g \in StoredFacts :
                                          g.network \notin rows}}
    BY <1>6 DEF Restart
  <2>3. \A i \in 1..Cardinality(rows) : Started(i).fact.network \in rows
    BY <2>1 DEF Started, NewFact
  <2>4. \A f \in StoredFacts' : f \in StoredFacts \/ f.network \in rows
    BY <2>1, <2>3 DEF StoredFacts
  <2>5. StoredFacts \subseteq StoredFacts' /\ Elements(pending') = {}
    BY <2>1, <2>2 DEF StoredFacts, Elements
  <2> QED
    BY <2>1, <2>2, <2>4, <2>5
       DEF NoLossForgotten, DeletedStayGone, PendingOwned
<1>7. CASE UNCHANGED <<networks, pending, noticed, forgotten, leftover, log>>
  BY <1>7 DEF NoLossForgotten, DeletedStayGone, PendingOwned, StoredFacts
<1>8. CASE \/ OutageBegins \/ OutageEnds \/ ProbeUnchanged
           \/ UNCHANGED vars \/ UNCHANGED monitorVars
  BY <1>7, <1>8
     DEF OutageBegins, OutageEnds, ProbeUnchanged, vars, monitorVars
<1> QED
  <2>1. CASE Probe
    BY <1>4, <1>5, <1>8, <2>1 DEF Probe
  <2> QED
    BY <1>1, <1>2, <1>3, <1>6, <1>8, <2>1 DEF Next, MonitorStep

(* The inductive invariant about losses and deleted networks holds.         *)
LEMMA LossesInductive == Spec => [](TypeOK /\ NetworksOK /\ LossInv)
<1>1. Init => TypeOK /\ NetworksOK /\ LossInv
  <2>1. Init => LossInv
    BY DEF Init, LossInv, NoLossForgotten, DeletedStayGone, PendingOwned,
           StoredFacts, Elements
  <2> QED
    BY <2>1, InitTyped
<1>2. TypeOK /\ NetworksOK /\ LossInv /\ [Next]_vars =>
          TypeOK' /\ NetworksOK' /\ LossInv'
  BY StepTyped, StepKeepsLosses
<1> QED
  BY <1>1, <1>2, PTL DEF Spec

(***************************************************************************)
(* Every loss of the database that was noted for a network is in its log   *)
(* or waits to be written, whatever fails while the notes are written,     *)
(* unless the process ended while the note waited: _pending_db_meta is in  *)
(* its memory only (state.py, _on_db_lost and _on_db_restored).            *)
(***************************************************************************)
THEOREM LossesKept == Spec => []NoLossForgotten
<1>1. TypeOK /\ NetworksOK /\ LossInv => NoLossForgotten
  BY DEF LossInv
<1> QED
  BY <1>1, LossesInductive, PTL

(***************************************************************************)
(* A deleted network stays out of the log, but for what the deletion could *)
(* not remove, or what was noted for it before.                            *)
(***************************************************************************)
THEOREM DeletedGone == Spec => []DeletedStayGone
<1>1. TypeOK /\ NetworksOK /\ LossInv => DeletedStayGone
  BY DEF LossInv
<1> QED
  BY <1>1, LossesInductive, PTL

-----------------------------------------------------------------------------
(* Nothing is noted twice.                                                 *)

(***************************************************************************)
(* Facts carry the count of messages, failures and restarts at which they  *)
(* come about: those of the present are notes of a loss, once it has been  *)
(* noticed, and of a return, while the database is up.                     *)
(***************************************************************************)
Timely ==
    \A f \in StoredFacts \cup Elements(pending) :
        /\ f.at <= now
        /\ f.at = now => \/ f.kind = "lost" /\ (dbUp \/ ~db_ok)
                         \/ f.kind = "restored" /\ dbUp /\ db_ok

(* What waits are losses, and none waits twice.                            *)
Waiting ==
    /\ \A f \in Elements(pending) : f.kind = "lost"
    /\ \A i, j \in DOMAIN pending : pending[i] = pending[j] => i = j

OnceInv == NotedOnce /\ Timely /\ Waiting

(* What is new in a step is not in the log yet, and does not wait.         *)
LEMMA NewIsNew ==
    ASSUME Timely, NEW kind, NEW n, NEW ch,
           \/ kind \in {"message", "note", "started"}
           \/ kind = "restored" /\ ~db_ok
           \/ kind = "lost" /\ ~dbUp /\ db_ok
    PROVE  NewFact(kind, n, ch) \notin StoredFacts \cup Elements(pending)
<1>1. NewFact(kind, n, ch).at = now /\ NewFact(kind, n, ch).kind = kind
  BY DEF NewFact
<1>2. "message" # "lost" /\ "message" # "restored" /\ "note" # "lost"
      /\ "note" # "restored" /\ "started" # "lost" /\ "started" # "restored"
      /\ "lost" # "restored"
  OBVIOUS
<1> QED
  BY <1>1, <1>2 DEF Timely

(* When the count moves on, what has come about is of the past.             *)
LEMMA TimePasses ==
    ASSUME TypeOK, Timely, Tick,
           \A f \in StoredFacts' \cup Elements(pending') :
              f \in StoredFacts \cup Elements(pending) \/ f.at = now
    PROVE  Timely'
<1>1. now' = now + 1 /\ now \in Nat
  BY MonitorAssumption DEF TypeOK, Tick
<1>2. \A f \in StoredFacts \cup Elements(pending) : f \in Fact
  <2>1. pending \in Seq(Fact) /\ log \subseteq Event
    BY DEF TypeOK
  <2>2. \A i \in DOMAIN pending : pending[i] \in Fact
    BY <2>1
  <2>3. \A e \in Event : e.fact \in Fact
    BY DEF Event
  <2> QED
    BY <2>1, <2>2, <2>3 DEF StoredFacts, Elements
<1>3. \A f \in Fact : f.at \in Nat
  BY DEF Fact
<1>4. \A f \in StoredFacts' \cup Elements(pending') :
          f.at \in Nat /\ f.at <= now
  BY <1>1, <1>2, <1>3 DEF Timely
<1>5. \A f \in StoredFacts' \cup Elements(pending') :
          f.at <= now' /\ f.at # now'
  BY <1>1, <1>4
<1> QED
  BY <1>5 DEF Timely

(* A message or a note is new, or was cut off.                             *)
LEMMA WriteOnce ==
    ASSUME TypeOK, OnceInv, NEW n \in Networks,
           NEW ch \in Channels \cup {None},
           Message(n, ch) \/ MessageUnanswered(n, ch) \/ Note(n)
    PROVE  OnceInv'
<1>1. last_id \in Nat /\ now \in Nat
  BY MonitorAssumption DEF TypeOK
<1>2. PICK kind \in {"message", "note"}, c \in Channels \cup {None} :
          log' = log \cup Elements(Entries(<<NewFact(kind, n, c)>>))
  BY DEF Message, MessageUnanswered, Note
<1> DEFINE fact == NewFact(kind, n, c)
           e == [id |-> last_id + 1, fact |-> fact]
<1>3. fact \in Fact /\ fact.at = now
  BY <1>1 DEF NewFact, Fact, Kinds
<1>4. fact \notin StoredFacts \cup Elements(pending)
  BY NewIsNew DEF OnceInv
<1> HIDE DEF fact
<1>5. log' = log \cup {e} /\ e.fact = fact
  BY <1>1, <1>2, <1>3, OneEntry DEF fact
<1> HIDE DEF e
<1>6. pending' = pending /\ cut \subseteq cut' /\ Tick
  BY DEF Message, MessageUnanswered, Note, DatabaseFails
<1>7. StoredFacts' = StoredFacts \cup {fact}
  BY <1>5 DEF StoredFacts
<1>8. NotedOnce'
  <2>1. \A d \in log : d.fact # fact
    BY <1>4 DEF StoredFacts
  <2> QED
    BY <1>4, <1>5, <1>6, <1>7, <2>1 DEF NotedOnce, OnceInv
<1>9. Timely'
  <2>1. \A f \in StoredFacts' \cup Elements(pending') :
            f \in StoredFacts \cup Elements(pending) \/ f.at = now
    BY <1>3, <1>6, <1>7
  <2> QED
    BY <1>6, <2>1, TimePasses DEF OnceInv
<1> QED
  BY <1>6, <1>8, <1>9 DEF OnceInv, Waiting

(* A loss is noted once for each network.                                  *)
LEMMA LostOnce ==
    ASSUME TypeOK, NetworksOK, OnceInv, ProbeLost
    PROVE  OnceInv'
<1> DEFINE facts == Facts("lost")
<1>1. /\ facts \in Seq(Fact) /\ Len(facts) = Len(networks)
      /\ \A i \in DOMAIN facts :
            /\ i \in DOMAIN networks
            /\ facts[i] = NewFact("lost", networks[i], None)
  BY FactsAre DEF Kinds
<1>2. Elements(pending') = Elements(pending) \cup Elements(facts)
  BY LostIs
<1>3. /\ pending \in Seq(Fact) /\ pending' = pending \o facts
      /\ ~dbUp /\ db_ok /\ ~db_ok' /\ UNCHANGED <<dbUp, log, now, cut>>
  BY DEF ProbeLost, TypeOK
<1>4. \A i \in DOMAIN facts :
          /\ facts[i] \notin StoredFacts \cup Elements(pending)
          /\ facts[i].kind = "lost" /\ facts[i].at = now
          /\ facts[i].network = networks[i]
  <2>1. \A n : /\ NewFact("lost", n, None)
                     \notin StoredFacts \cup Elements(pending)
               /\ NewFact("lost", n, None).kind = "lost"
               /\ NewFact("lost", n, None).at = now
               /\ NewFact("lost", n, None).network = n
    <3>1. \A n : /\ NewFact("lost", n, None).kind = "lost"
                 /\ NewFact("lost", n, None).at = now
                 /\ NewFact("lost", n, None).network = n
      BY DEF NewFact
    <3>2. \A n : NewFact("lost", n, None)
                     \notin StoredFacts \cup Elements(pending)
      BY <1>3, NewIsNew DEF OnceInv
    <3> QED
      BY <3>1, <3>2
  <2> QED
    BY <1>1, <2>1
<1> HIDE DEF facts
<1>5. /\ pending' \in Seq(Fact) /\ Len(pending') = Len(pending) + Len(facts)
      /\ \A i \in 1..Len(pending) : pending'[i] = pending[i]
      /\ \A i \in (Len(pending) + 1)..(Len(pending) + Len(facts)) :
            pending'[i] = facts[i - Len(pending)]
  <2>1. facts \in Seq(Fact) /\ pending \in Seq(Fact)
    BY <1>1, <1>3
  <2>2. /\ pending \o facts \in Seq(Fact)
        /\ Len(pending \o facts) = Len(pending) + Len(facts)
        /\ \A i \in 1..Len(pending) : (pending \o facts)[i] = pending[i]
        /\ \A i \in (Len(pending) + 1)..(Len(pending) + Len(facts)) :
              (pending \o facts)[i] = facts[i - Len(pending)]
    BY <2>1, ConcatIs
  <2> QED
    BY <1>3, <2>2
<1>6. /\ Len(pending) \in Nat /\ Len(facts) \in Nat
      /\ DOMAIN pending = 1..Len(pending) /\ DOMAIN facts = 1..Len(facts)
      /\ DOMAIN pending' = 1..(Len(pending) + Len(facts))
  BY <1>1, <1>3, <1>5
<1>7. \A i, j \in DOMAIN facts : facts[i] = facts[j] => i = j
  BY <1>1, <1>4 DEF NetworksOK, Distinct
<1>8. \A i \in DOMAIN pending' :
          \/ i \in DOMAIN pending /\ pending'[i] = pending[i]
          \/ /\ i \notin DOMAIN pending /\ i - Len(pending) \in DOMAIN facts
             /\ pending'[i] = facts[i - Len(pending)]
  <2> SUFFICES ASSUME NEW i \in DOMAIN pending'
               PROVE  \/ i \in DOMAIN pending /\ pending'[i] = pending[i]
                      \/ /\ i \notin DOMAIN pending
                         /\ i - Len(pending) \in DOMAIN facts
                         /\ pending'[i] = facts[i - Len(pending)]
    OBVIOUS
  <2>1. CASE i \in DOMAIN pending
    BY <1>5, <1>6, <2>1
  <2>2. CASE i \notin DOMAIN pending
    <3>1. /\ i \in (Len(pending) + 1)..(Len(pending) + Len(facts))
          /\ i - Len(pending) \in DOMAIN facts
      BY <1>6, <2>2
    <3> QED
      BY <1>5, <2>2, <3>1
  <2> QED
    BY <2>1, <2>2
<1>9. Waiting'
  <2>1. \A i, j \in DOMAIN pending' : pending'[i] = pending'[j] => i = j
    <3> SUFFICES ASSUME NEW i \in DOMAIN pending', NEW j \in DOMAIN pending',
                        pending'[i] = pending'[j]
                 PROVE  i = j
      OBVIOUS
    <3>1. i \in Int /\ j \in Int
      BY <1>6
    <3>2. CASE i \in DOMAIN pending /\ j \in DOMAIN pending
      BY <1>8, <3>2 DEF OnceInv, Waiting
    <3>3. CASE i \notin DOMAIN pending /\ j \notin DOMAIN pending
      <4>1. i - Len(pending) = j - Len(pending)
        BY <1>7, <1>8, <3>3
      <4> QED
        BY <1>6, <3>1, <4>1
    <3>4. CASE i \in DOMAIN pending /\ j \notin DOMAIN pending
      BY <1>4, <1>8, <3>4 DEF Elements
    <3>5. CASE i \notin DOMAIN pending /\ j \in DOMAIN pending
      BY <1>4, <1>8, <3>5 DEF Elements
    <3> QED
      BY <3>2, <3>3, <3>4, <3>5
  <2>2. \A f \in Elements(facts) : f.kind = "lost"
    BY <1>4 DEF Elements
  <2> QED
    BY <1>2, <2>1, <2>2 DEF OnceInv, Waiting
<1>10. \A f \in Elements(facts) :
           /\ f \notin StoredFacts /\ f.kind = "lost" /\ f.at = now
  BY <1>4 DEF Elements
<1>11. NotedOnce'
  BY <1>2, <1>3, <1>10 DEF OnceInv, NotedOnce, StoredFacts
<1>12. Timely'
  <2>1. now \in Nat
    BY MonitorAssumption DEF TypeOK
  <2> QED
    BY <1>2, <1>3, <1>10, <2>1 DEF OnceInv, Timely, StoredFacts
<1> QED
  BY <1>9, <1>11, <1>12 DEF OnceInv

(* What a probe writes when the database is back: the notes that wait, and *)
(* one new note for each network.                                          *)
LEMMA RestoredAreNew ==
    ASSUME TypeOK, NetworksOK, OnceInv, ~db_ok
    PROVE  \A i, j \in DOMAIN Restored :
              /\ Restored[i].fact = Restored[j].fact => i = j
              /\ \/ /\ i \in DOMAIN pending /\ Restored[i].fact = pending[i]
                    /\ Restored[i].fact.kind = "lost"
                 \/ /\ i \notin DOMAIN pending /\ i > Len(pending)
                    /\ Restored[i].fact
                          \notin StoredFacts \cup Elements(pending)
                    /\ Restored[i].fact.kind = "restored"
                    /\ Restored[i].fact.at = now
<1>1. /\ Restored \in Seq(Event)
      /\ Len(Restored) = Len(pending) + Len(networks)
      /\ \A i \in 1..Len(pending) : Restored[i].fact = pending[i]
      /\ \A i \in (Len(pending) + 1)..Len(Restored) :
            /\ i - Len(pending) \in DOMAIN networks
            /\ Restored[i].fact = NewFact("restored",
                                      networks[i - Len(pending)], None)
  BY RestoredIs
<1>2. /\ Len(pending) \in Nat /\ Len(networks) \in Nat
      /\ DOMAIN pending = 1..Len(pending)
      /\ DOMAIN Restored = 1..Len(Restored)
  BY <1>1 DEF TypeOK
<1>3. \A n : /\ NewFact("restored", n, None)
                   \notin StoredFacts \cup Elements(pending)
             /\ NewFact("restored", n, None).kind = "restored"
             /\ NewFact("restored", n, None).at = now
             /\ NewFact("restored", n, None).network = n
  <2>1. \A n : /\ NewFact("restored", n, None).kind = "restored"
               /\ NewFact("restored", n, None).at = now
               /\ NewFact("restored", n, None).network = n
    BY DEF NewFact
  <2>2. \A n : NewFact("restored", n, None)
                   \notin StoredFacts \cup Elements(pending)
    BY NewIsNew DEF OnceInv
  <2> QED
    BY <2>1, <2>2
<1>4. \A i \in DOMAIN Restored :
          \/ /\ i \in DOMAIN pending /\ Restored[i].fact = pending[i]
             /\ Restored[i].fact.kind = "lost"
          \/ /\ i \notin DOMAIN pending /\ i > Len(pending)
             /\ i - Len(pending) \in DOMAIN networks
             /\ Restored[i].fact \notin StoredFacts \cup Elements(pending)
             /\ Restored[i].fact.kind = "restored"
             /\ Restored[i].fact.at = now
             /\ Restored[i].fact.network = networks[i - Len(pending)]
  <2> SUFFICES ASSUME NEW i \in DOMAIN Restored
               PROVE  \/ /\ i \in DOMAIN pending
                         /\ Restored[i].fact = pending[i]
                         /\ Restored[i].fact.kind = "lost"
                      \/ /\ i \notin DOMAIN pending /\ i > Len(pending)
                         /\ i - Len(pending) \in DOMAIN networks
                         /\ Restored[i].fact
                               \notin StoredFacts \cup Elements(pending)
                         /\ Restored[i].fact.kind = "restored"
                         /\ Restored[i].fact.at = now
                         /\ Restored[i].fact.network
                               = networks[i - Len(pending)]
    OBVIOUS
  <2>1. CASE i \in DOMAIN pending
    <3>1. Restored[i].fact = pending[i] /\ pending[i] \in Elements(pending)
      BY <1>1, <1>2, <2>1 DEF Elements
    <3> QED
      BY <2>1, <3>1 DEF OnceInv, Waiting
  <2>2. CASE i \notin DOMAIN pending
    <3>1. i \in (Len(pending) + 1)..Len(Restored) /\ i > Len(pending)
      BY <1>1, <1>2, <2>2
    <3> QED
      BY <1>1, <1>3, <2>2, <3>1
  <2> QED
    BY <2>1, <2>2
<1>5. ASSUME NEW i \in DOMAIN Restored, NEW j \in DOMAIN Restored,
             Restored[i].fact = Restored[j].fact
      PROVE  i = j
  <2>1. i \in Int /\ j \in Int
    BY <1>1, <1>2
  <2>2. CASE i \in DOMAIN pending
    <3>1. j \in DOMAIN pending
      BY <1>4, <1>5, <2>2
    <3> QED
      BY <1>4, <1>5, <2>2, <3>1 DEF OnceInv, Waiting
  <2>3. CASE i \notin DOMAIN pending
    <3>1. j \notin DOMAIN pending
      BY <1>4, <1>5, <2>3
    <3>2. i - Len(pending) = j - Len(pending)
      BY <1>4, <1>5, <2>3, <3>1 DEF NetworksOK, Distinct
    <3> QED
      BY <1>2, <2>1, <3>2
  <2> QED
    BY <2>2, <2>3
<1> QED
  BY <1>4, <1>5

(* A probe that writes the notes writes each once, or is cut off.           *)
LEMMA RestoredOnce ==
    ASSUME TypeOK, NetworksOK, OnceInv, NEW fails, NEW written,
           ProbeRestored(fails, written)
    PROVE  OnceInv'
<1>1. /\ fails \in 1..(Len(Restored) + 1)
      /\ written \in {fails - 1, fails} /\ written \in 0..Len(Restored)
      /\ log' = log \cup {Restored[i] : i \in 1..written}
      /\ fails <= Len(Restored) =>
            cut' = cut \cup {Restored[i].fact : i \in 1..written}
  BY ProbeRestoredIs
<1>2. /\ dbUp /\ ~db_ok /\ db_ok' = TRUE /\ cut \subseteq cut'
      /\ \/ fails > Len(Restored) /\ UNCHANGED <<dbUp, now, cut>>
         \/ fails <= Len(Restored) /\ Tick
      /\ pending' = IF fails > Len(pending) THEN <<>> ELSE pending
  <2>1. /\ dbUp /\ ~db_ok /\ db_ok' = TRUE
        /\ \/ fails > Len(Restored) /\ UNCHANGED <<dbUp, now, cut>>
           \/ ~(fails > Len(Restored)) /\ DatabaseFails
        /\ pending' = IF fails > Len(pending) THEN <<>> ELSE pending
    BY DEF ProbeRestored, ReturnNoticed, PendingAfter, Restored
  <2>2. fails \in Int /\ Len(Restored) \in Int
    BY <1>1, RestoredIs
  <2>3. ~(fails > Len(Restored)) => fails <= Len(Restored)
    BY <2>2
  <2> QED
    BY <1>1, <2>1, <2>3 DEF DatabaseFails
<1>3. /\ Restored \in Seq(Event) /\ Len(Restored) \in Nat
      /\ Len(Restored) = Len(pending) + Len(networks)
      /\ Len(pending) \in Nat /\ Len(networks) \in Nat
      /\ DOMAIN Restored = 1..Len(Restored)
      /\ DOMAIN pending = 1..Len(pending)
  BY RestoredIs DEF TypeOK
<1>4. 1..written \subseteq DOMAIN Restored
  BY <1>1, <1>3
<1>5. \A i, j \in DOMAIN Restored :
          /\ Restored[i].fact = Restored[j].fact => i = j
          /\ \/ /\ i \in DOMAIN pending /\ Restored[i].fact = pending[i]
                /\ Restored[i].fact.kind = "lost"
             \/ /\ i \notin DOMAIN pending /\ i > Len(pending)
                /\ Restored[i].fact \notin StoredFacts \cup Elements(pending)
                /\ Restored[i].fact.kind = "restored"
                /\ Restored[i].fact.at = now
  BY <1>2, RestoredAreNew
<1>6. \A f \in StoredFacts' : \/ f \in StoredFacts
                              \/ \E i \in 1..written : f = Restored[i].fact
  BY <1>1 DEF StoredFacts
<1>7. Elements(pending') \subseteq Elements(pending)
  BY <1>2 DEF Elements
<1>8. Waiting'
  BY <1>2, <1>7 DEF OnceInv, Waiting
<1>9. \A i \in 1..written :
          /\ Restored[i].fact \in StoredFacts => Restored[i].fact \in cut'
          /\ fails <= Len(Restored) => Restored[i].fact \in cut'
  <2> SUFFICES ASSUME NEW i \in 1..written
               PROVE  /\ Restored[i].fact \in StoredFacts =>
                            Restored[i].fact \in cut'
                      /\ fails <= Len(Restored) => Restored[i].fact \in cut'
    OBVIOUS
  <2>1. fails <= Len(Restored) => Restored[i].fact \in cut'
    BY <1>1
  <2>2. i \in DOMAIN pending => Restored[i].fact \in Elements(pending)
    BY <1>4, <1>5 DEF Elements
  <2>3. Restored[i].fact \in StoredFacts => Restored[i].fact \in cut
    BY <1>4, <1>5, <2>2 DEF OnceInv, NotedOnce
  <2> QED
    BY <1>2, <2>1, <2>3
<1>10. NotedOnce'
  <2>1. ASSUME NEW e1 \in log', NEW e2 \in log', e1.fact = e2.fact
        PROVE  e1 = e2 \/ e1.fact \in cut'
    <3>1. CASE e1 \in log /\ e2 \in log
      BY <1>2, <2>1, <3>1 DEF OnceInv, NotedOnce
    <3>2. CASE e1 \in log /\ e2 \notin log
      <4>1. PICK i \in 1..written : e2 = Restored[i]
        BY <1>1, <3>2
      <4> QED
        BY <1>9, <2>1, <3>2, <4>1 DEF StoredFacts
    <3>3. CASE e1 \notin log /\ e2 \in log
      <4>1. PICK i \in 1..written : e1 = Restored[i]
        BY <1>1, <3>3
      <4>2. e1.fact \in StoredFacts
        BY <2>1, <3>3 DEF StoredFacts
      <4> QED
        BY <1>9, <4>1, <4>2
    <3>4. CASE e1 \notin log /\ e2 \notin log
      <4>1. PICK i \in 1..written : e1 = Restored[i]
        BY <1>1, <3>4
      <4>2. PICK j \in 1..written : e2 = Restored[j]
        BY <1>1, <3>4
      <4> QED
        BY <1>4, <1>5, <2>1, <4>1, <4>2
    <3> QED
      BY <3>1, <3>2, <3>3, <3>4
  <2>2. ASSUME NEW f \in Elements(pending'), f \in StoredFacts'
        PROVE  f \in cut'
    <3>1. fails <= Len(pending) /\ fails <= Len(Restored)
      <4>1. pending' # <<>>
        BY <2>2 DEF Elements
      <4>2. ~(fails > Len(pending))
        BY <1>2, <4>1
      <4> QED
        BY <1>1, <1>3, <4>2
    <3> QED
      BY <1>2, <1>6, <1>7, <1>9, <2>2, <3>1 DEF OnceInv, NotedOnce
  <2> QED
    BY <2>1, <2>2 DEF NotedOnce
<1>11. \A f \in StoredFacts' \cup Elements(pending') :
           \/ f \in StoredFacts \cup Elements(pending)
           \/ f.at = now /\ f.kind = "restored"
  <2>1. \A i \in 1..written :
            \/ Restored[i].fact \in Elements(pending)
            \/ Restored[i].fact.at = now /\ Restored[i].fact.kind = "restored"
    BY <1>4, <1>5 DEF Elements
  <2> QED
    BY <1>6, <1>7, <2>1
<1>12. Timely'
  <2>1. CASE Tick
    BY <1>11, <2>1, TimePasses DEF OnceInv
  <2>2. CASE UNCHANGED <<dbUp, now>>
    <3>1. now \in Nat
      BY MonitorAssumption DEF TypeOK
    <3> QED
      BY <1>2, <1>11, <2>2, <3>1 DEF OnceInv, Timely
  <2> QED
    BY <1>2, <2>1, <2>2
<1> QED
  BY <1>8, <1>10, <1>12 DEF OnceInv

(* A new process notes its start once for each network.                     *)
LEMMA RestartOnce ==
    ASSUME TypeOK, NetworksOK, OnceInv, Restart
    PROVE  OnceInv'
<1> DEFINE k == Cardinality(rows)
<1>1. /\ k \in Nat
      /\ log' = log \cup {Started(i) : i \in 1..k}
  BY RestartIs
<1>2. \A i, j \in 1..k : Ordered(rows)[i] = Ordered(rows)[j] => i = j
  BY OrderedIs DEF NetworksOK
<1> HIDE DEF k
<1>3. \A i \in 1..k : /\ Started(i).fact \notin StoredFacts
                      /\ Started(i).fact.at = now
                      /\ Started(i).fact.network = Ordered(rows)[i]
  <2>1. \A n : NewFact("started", n, None) \notin StoredFacts
    BY NewIsNew DEF OnceInv
  <2>2. \A n : /\ NewFact("started", n, None).at = now
               /\ NewFact("started", n, None).network = n
    BY DEF NewFact
  <2>3. \A i \in 1..k :
            Started(i).fact = NewFact("started", Ordered(rows)[i], None)
    BY DEF Started
  <2> QED
    BY <2>1, <2>2, <2>3
<1>4. pending' = <<>> /\ UNCHANGED cut /\ Tick
  BY DEF Restart
<1>5. Elements(pending') = {} /\ DOMAIN pending' = {}
  BY <1>4 DEF Elements
<1>6. \A e \in log' : \/ e \in log
                      \/ \E i \in 1..k : e = Started(i)
  BY <1>1
<1>7. NotedOnce'
  <2>1. ASSUME NEW e1 \in log', NEW e2 \in log', e1.fact = e2.fact
        PROVE  e1 = e2 \/ e1.fact \in cut'
    <3>1. CASE e1 \in log /\ e2 \in log
      BY <1>4, <2>1, <3>1 DEF OnceInv, NotedOnce
    <3>2. CASE e1 \in log /\ e2 \notin log
      BY <1>3, <1>6, <2>1, <3>2 DEF StoredFacts
    <3>3. CASE e1 \notin log /\ e2 \in log
      BY <1>3, <1>6, <2>1, <3>3 DEF StoredFacts
    <3>4. CASE e1 \notin log /\ e2 \notin log
      BY <1>2, <1>3, <1>6, <2>1, <3>4
    <3> QED
      BY <3>1, <3>2, <3>3, <3>4
  <2> QED
    BY <1>5, <2>1 DEF NotedOnce
<1>8. Timely'
  <2>1. \A f \in StoredFacts' \cup Elements(pending') :
            f \in StoredFacts \cup Elements(pending) \/ f.at = now
    BY <1>3, <1>5, <1>6 DEF StoredFacts
  <2> QED
    BY <1>4, <2>1, TimePasses DEF OnceInv
<1> QED
  BY <1>5, <1>7, <1>8 DEF OnceInv, Waiting

(* Every step keeps the log and the notes that wait without repetition.     *)
LEMMA StepKeepsOnce ==
    ASSUME TypeOK, NetworksOK, OnceInv, [Next]_vars
    PROVE  OnceInv'
<1>1. ASSUME log' \subseteq log, UNCHANGED <<pending, db_ok, cut>>,
             Tick \/ UNCHANGED <<dbUp, now>>
      PROVE  OnceInv'
  <2>1. StoredFacts' \subseteq StoredFacts
    BY <1>1 DEF StoredFacts
  <2>2. NotedOnce' /\ Waiting'
    BY <1>1, <2>1 DEF OnceInv, NotedOnce, Waiting
  <2>3. Timely'
    <3>1. CASE Tick
      BY <1>1, <2>1, <3>1, TimePasses DEF OnceInv
    <3>2. CASE UNCHANGED <<dbUp, now>>
      BY <1>1, <2>1, <3>2 DEF OnceInv, Timely
    <3> QED
      BY <1>1, <3>1, <3>2
  <2> QED
    BY <2>2, <2>3 DEF OnceInv
<1>2. ASSUME NEW n \in Networks, NEW k \in 0..2, DeleteNetwork(n, k)
      PROVE  OnceInv'
  <2>1. /\ log' \subseteq log /\ UNCHANGED <<pending, db_ok, cut>>
        /\ Tick \/ UNCHANGED <<dbUp, now>>
    BY <1>2 DEF DeleteNetwork, LogAfterDelete, DatabaseFails
  <2> QED
    BY <1>1, <2>1
<1>3. CASE OutageEnds
  <2>1. /\ UNCHANGED <<pending, db_ok, cut, log, now>>
        /\ ~dbUp /\ dbUp' = TRUE
    BY <1>3 DEF OutageEnds
  <2>2. NotedOnce' /\ Waiting'
    BY <2>1 DEF OnceInv, NotedOnce, Waiting, StoredFacts
  <2>3. Timely'
    BY <2>1 DEF OnceInv, Timely, StoredFacts
  <2> QED
    BY <2>2, <2>3 DEF OnceInv
<1>4. ASSUME \/ \E n \in Networks : CreateNetwork(n)
             \/ OutageBegins \/ ProbeUnchanged \/ UNCHANGED vars
             \/ UNCHANGED monitorVars
      PROVE  OnceInv'
  <2>1. /\ UNCHANGED <<log, pending, db_ok, cut>>
        /\ Tick \/ UNCHANGED <<dbUp, now>>
    BY <1>4 DEF CreateNetwork, OutageBegins, ProbeUnchanged, vars,
                monitorVars, DatabaseFails
  <2> QED
    BY <1>1, <2>1
<1> QED
  <2>1. CASE Probe
    BY <1>4, <2>1, LostOnce, RestoredOnce DEF Probe
  <2> QED
    BY <1>2, <1>3, <1>4, <2>1, WriteOnce, RestartOnce DEF Next, MonitorStep

(* The inductive invariant about repetition holds.                          *)
LEMMA OnceInductive == Spec => [](TypeOK /\ NetworksOK /\ OnceInv)
<1>1. Init => TypeOK /\ NetworksOK /\ OnceInv
  <2>1. Init => OnceInv
    BY DEF Init, OnceInv, NotedOnce, Timely, Waiting, StoredFacts, Elements
  <2> QED
    BY <2>1, InitTyped
<1>2. TypeOK /\ NetworksOK /\ OnceInv /\ [Next]_vars =>
          TypeOK' /\ NetworksOK' /\ OnceInv'
  BY StepTyped, StepKeepsOnce
<1> QED
  BY <1>1, <1>2, PTL DEF Spec

(***************************************************************************)
(* Nothing is in the log twice, nor waits for it while it is there, but    *)
(* for the notes that were being written when the database failed.         *)
(***************************************************************************)
THEOREM OnlyOnce == Spec => []NotedOnce
<1>1. TypeOK /\ NetworksOK /\ OnceInv => NotedOnce
  BY DEF OnceInv
<1> QED
  BY <1>1, OnceInductive, PTL

-----------------------------------------------------------------------------
(* The client that follows.                                                *)

(* The real ids of a queue are in order, and given out already; only a     *)
(* loss has none.  What is in a queue is not in the log under a lower id.  *)
QueueOK(q, l, last) ==
    /\ \A i \in DOMAIN q : q[i].id <= last
    /\ \A i \in DOMAIN q : q[i].id = 0 => q[i].fact.kind = "lost"
    /\ \A i, j \in DOMAIN q : i < j /\ q[j].id # 0 => q[i].id < q[j].id
    /\ \A i \in DOMAIN q : \A e \in l : q[i].fact = e.fact => q[i].id <= e.id

(* Facts that the client may lack for good.                                *)
Excused(fact) ==
    \/ ~Passes(fact) \/ fact \in dropped \cup cut
    \/ fact.kind \in {"note", "started", "lost"}

Has(fact) == fact \in have \/ Excused(fact)

(* The client has what is stored up to the ids that it remembers.          *)
FollowInv ==
    /\ current # None => current \in subscribers
    /\ \A e \in log : e.id <= last_id
    /\ \A n \in Networks : since[n] <= last_id
    /\ \A s \in Streams : QueueOK(queue[s], log, last_id)
    /\ \A e \in log : e.id <= since[e.fact.network] => Has(e.fact)
    /\ current # None =>
          \A e \in log : \/ e.fact.network \in behind \/ Has(e.fact)
                         \/ e.fact \in FactsOf(queue[current])

(* The invariant of the client says more than the property.                 *)
LEMMA FollowInvImplies ==
    ASSUME FollowInv
    PROVE  FollowerMissesNothing
BY DEF FollowInv, FollowerMissesNothing, Has, Excused, StoredFacts

(* A step that adds to the log only, and to the queues, keeps all of it    *)
(* when what it adds to the log is published or excused.                   *)
LEMMA GrowthKeeps ==
    ASSUME TypeOK, FollowInv, last_id' \in Nat, last_id <= last_id',
           UNCHANGED <<subscribers, filter, current, behind, since, have>>,
           dropped \subseteq dropped', cut \subseteq cut',
           \A s \in Streams : QueueOK(queue'[s], log', last_id'),
           current # None =>
              FactsOf(queue[current]) \subseteq FactsOf(queue'[current]),
           \A e \in log' : \/ e \in log
                           \/ /\ e.id \in (last_id + 1)..last_id'
                              /\ e.fact.network \in Networks
                              /\ current # None =>
                                    \/ Excused(e.fact)'
                                    \/ e.fact \in FactsOf(queue'[current])
    PROVE  FollowInv'
<1>1. last_id \in Nat /\ \A n \in Networks : since[n] \in Nat
  BY DEF TypeOK, StreamTypeOK
<1>2. \A e \in log : e.id \in Nat
  BY DEF TypeOK, Event
<1>3. \A fact : Has(fact) => Has(fact)'
  BY DEF Has, Excused, Passes
<1>4. \A fact : Excused(fact)' => Has(fact)'
  BY DEF Has
<1>5. \A e \in log' : e.id <= last_id'
  BY <1>1, <1>2 DEF FollowInv
<1>6. \A n \in Networks : since'[n] <= last_id'
  BY <1>1 DEF FollowInv
<1>7. \A e \in log' : e.id <= since'[e.fact.network] => Has(e.fact)'
  BY <1>1, <1>3 DEF FollowInv
<1>8. current # None =>
          \A e \in log' : \/ e.fact.network \in behind \/ Has(e.fact)'
                          \/ e.fact \in FactsOf(queue'[current])
  BY <1>3, <1>4 DEF FollowInv
<1>9. current' # None => current' \in subscribers'
  BY DEF FollowInv
<1> QED
  BY <1>5, <1>6, <1>7, <1>8, <1>9 DEF FollowInv

(* Publishing events with new ids, or losses with none, keeps a queue      *)
(* right.                                                                  *)
LEMMA FittingKeeps ==
    ASSUME TypeOK, NEW q \in Seq(Event), Len(q) <= QueueMax,
           QueueOK(q, log, last_id), NEW es \in Seq(Event),
           last_id' \in Nat, last_id <= last_id',
           \A e \in log' : e \in log \/ e.id \in (last_id + 1)..last_id',
           \A i \in DOMAIN es :
              \/ es[i].id = 0 /\ es[i].fact.kind = "lost"
              \/ es[i].id \in (last_id + 1)..last_id',
           \A i, j \in DOMAIN es : i < j /\ es[j].id # 0 =>
              es[i].id < es[j].id,
           \A i \in DOMAIN es : \A e \in log' :
              es[i].fact = e.fact => es[i].id <= e.id
    PROVE  /\ QueueOK(Fitting(q, es), log', last_id')
           /\ FactsOf(q) \subseteq FactsOf(Fitting(q, es))
<1> DEFINE r == Fitting(q, es)
<1>1. /\ r \in Seq(Event) /\ Len(r) \in Len(q)..(Len(q) + Len(es))
      /\ \A i \in 1..Len(q) : r[i] = q[i]
      /\ \A i \in (Len(q) + 1)..Len(r) : r[i] = es[i - Len(q)]
  BY FittingIs
<1> HIDE DEF r
<1>2. /\ Len(q) \in Nat /\ Len(es) \in Nat /\ Len(r) \in Nat
      /\ DOMAIN q = 1..Len(q) /\ DOMAIN es = 1..Len(es)
      /\ DOMAIN r = 1..Len(r)
  BY <1>1
<1>3. \A i \in DOMAIN r :
          \/ i \in DOMAIN q /\ r[i] = q[i]
          \/ /\ i \notin DOMAIN q /\ i > Len(q) /\ i - Len(q) \in DOMAIN es
             /\ r[i] = es[i - Len(q)]
  <2> SUFFICES ASSUME NEW i \in DOMAIN r
               PROVE  \/ i \in DOMAIN q /\ r[i] = q[i]
                      \/ /\ i \notin DOMAIN q /\ i > Len(q)
                         /\ i - Len(q) \in DOMAIN es
                         /\ r[i] = es[i - Len(q)]
    OBVIOUS
  <2>1. CASE i \in DOMAIN q
    BY <1>1, <1>2, <2>1
  <2>2. CASE i \notin DOMAIN q
    <3>1. /\ i \in (Len(q) + 1)..Len(r) /\ i - Len(q) \in DOMAIN es
          /\ i > Len(q)
      BY <1>1, <1>2, <2>2
    <3> QED
      BY <1>1, <2>2, <3>1
  <2> QED
    BY <2>1, <2>2
<1>4. /\ \A i \in DOMAIN q : q[i].id \in Nat
      /\ \A i \in DOMAIN es : es[i].id \in Nat
      /\ last_id \in Nat
  <2>1. \A i \in DOMAIN q : q[i] \in Event
    OBVIOUS
  <2>2. \A i \in DOMAIN es : es[i] \in Event
    OBVIOUS
  <2>3. \A e \in Event : e.id \in Nat
    BY DEF Event
  <2> QED
    BY <2>1, <2>2, <2>3 DEF TypeOK
<1>5. \A i \in DOMAIN r : /\ r[i].id <= last_id'
                          /\ r[i].id = 0 => r[i].fact.kind = "lost"
  <2> SUFFICES ASSUME NEW i \in DOMAIN r
               PROVE  /\ r[i].id <= last_id'
                      /\ r[i].id = 0 => r[i].fact.kind = "lost"
    OBVIOUS
  <2>1. CASE i \in DOMAIN q /\ r[i] = q[i]
    BY <1>4, <2>1 DEF QueueOK
  <2>2. CASE i - Len(q) \in DOMAIN es /\ r[i] = es[i - Len(q)]
    BY <1>4, <2>2
  <2> QED
    BY <1>3, <2>1, <2>2
<1>6. ASSUME NEW i \in DOMAIN r, NEW j \in DOMAIN r, i < j, r[j].id # 0
      PROVE  r[i].id < r[j].id
  <2>1. i \in Int /\ j \in Int
    BY <1>2
  <2>2. CASE j \in DOMAIN q
    <3>1. i \in DOMAIN q
      BY <1>2, <1>6, <2>1, <2>2
    <3>2. r[i] = q[i] /\ r[j] = q[j]
      BY <1>3, <2>2, <3>1
    <3> QED
      BY <1>6, <2>2, <3>1, <3>2 DEF QueueOK
  <2>3. CASE j \notin DOMAIN q
    <3>1. j - Len(q) \in DOMAIN es /\ r[j] = es[j - Len(q)]
      BY <1>3, <2>3
    <3>2. CASE i \in DOMAIN q
      <4>1. r[i] = q[i] /\ q[i].id <= last_id /\ q[i].id \in Nat
        BY <1>3, <1>4, <3>2 DEF QueueOK
      <4>2. r[j].id \in (last_id + 1)..last_id'
        BY <1>6, <3>1
      <4> QED
        BY <1>4, <4>1, <4>2
    <3>3. CASE i \notin DOMAIN q
      <4>1. i - Len(q) \in DOMAIN es /\ r[i] = es[i - Len(q)]
        BY <1>3, <3>3
      <4>2. i - Len(q) < j - Len(q)
        BY <1>2, <1>6, <2>1
      <4> QED
        BY <1>6, <3>1, <4>1, <4>2
    <3> QED
      BY <3>2, <3>3
  <2> QED
    BY <2>2, <2>3
<1>7. ASSUME NEW i \in DOMAIN r, NEW e \in log', r[i].fact = e.fact
      PROVE  r[i].id <= e.id
  <2>1. CASE i \in DOMAIN q /\ r[i] = q[i]
    <3>1. CASE e \in log
      BY <1>7, <2>1, <3>1 DEF QueueOK
    <3>2. CASE e.id \in (last_id + 1)..last_id'
      <4>1. q[i].id <= last_id
        BY <2>1 DEF QueueOK
      <4> QED
        BY <1>4, <2>1, <3>2, <4>1
    <3> QED
      BY <3>1, <3>2
  <2>2. CASE i - Len(q) \in DOMAIN es /\ r[i] = es[i - Len(q)]
    BY <1>7, <2>2
  <2> QED
    BY <1>3, <2>1, <2>2
<1>8. QueueOK(r, log', last_id')
  BY <1>5, <1>6, <1>7 DEF QueueOK
<1>9. FactsOf(q) \subseteq FactsOf(r)
  <2>1. \A i \in DOMAIN q : i \in DOMAIN r /\ r[i] = q[i]
    BY <1>1, <1>2
  <2> QED
    BY <2>1 DEF FactsOf
<1> QED
  BY <1>8, <1>9 DEF r

(* A step that leaves the streams alone.                                   *)
LEMMA StandKeeps ==
    ASSUME TypeOK, FollowInv, UNCHANGED streamVars, last_id' \in Nat,
           last_id <= last_id', cut \subseteq cut',
           \A e \in log' : \/ e \in log
                           \/ /\ e.id \in (last_id + 1)..last_id'
                              /\ e.fact.network \in Networks
                              /\ \/ e.fact \in cut'
                                 \/ e.fact.kind \in {"note", "started", "lost"}
    PROVE  FollowInv'
<1>1. last_id \in Nat
  BY DEF TypeOK
<1>2. ASSUME NEW s \in Streams
      PROVE  QueueOK(queue'[s], log', last_id')
  <2> DEFINE q == queue[s]
  <2>1. q \in Seq(Event) /\ QueueOK(q, log, last_id) /\ queue'[s] = q
    BY DEF TypeOK, StreamTypeOK, FollowInv, streamVars
  <2> HIDE DEF q
  <2>2. \A i \in DOMAIN q : q[i].id \in Nat
    <3>1. \A i \in DOMAIN q : q[i] \in Event
      BY <2>1
    <3>2. \A e \in Event : e.id \in Nat
      BY DEF Event
    <3> QED
      BY <3>1, <3>2
  <2>3. ASSUME NEW i \in DOMAIN q
        PROVE  /\ q[i].id <= last_id'
               /\ \A e \in log' : q[i].fact = e.fact => q[i].id <= e.id
    BY <1>1, <2>1, <2>2 DEF QueueOK
  <2>4. QueueOK(q, log', last_id')
    BY <2>1, <2>3 DEF QueueOK
  <2> QED
    BY <2>1, <2>4
<1>3. \A e \in log' : \/ e.fact \in cut'
                      \/ e.fact.kind \in {"note", "started", "lost"}
                      => Excused(e.fact)'
  BY DEF Excused
<1>4. /\ UNCHANGED <<subscribers, filter, current, behind, since, have>>
      /\ dropped \subseteq dropped'
      /\ FactsOf(queue[current]) \subseteq FactsOf(queue'[current])
  BY DEF streamVars
<1>5. \A e \in log' : \/ e \in log
                      \/ /\ e.id \in (last_id + 1)..last_id'
                         /\ e.fact.network \in Networks
                         /\ current # None =>
                               \/ Excused(e.fact)'
                               \/ e.fact \in FactsOf(queue'[current])
  BY <1>3
<1> QED
  BY <1>2, <1>4, <1>5, GrowthKeeps

(* A step that publishes events.                                           *)
LEMMA PublishKeeps ==
    ASSUME TypeOK, FollowInv, NEW es \in Seq(Event), Publish(es),
           last_id' \in Nat, last_id <= last_id', cut \subseteq cut',
           \A i \in DOMAIN es :
              \/ es[i].id = 0 /\ es[i].fact.kind = "lost"
              \/ es[i].id \in (last_id + 1)..last_id',
           \A i, j \in DOMAIN es : i < j /\ es[j].id # 0 =>
              es[i].id < es[j].id,
           \A i \in DOMAIN es : \A e \in log' :
              es[i].fact = e.fact => es[i].id <= e.id,
           \A e \in log' : \/ e \in log
                           \/ /\ e.id \in (last_id + 1)..last_id'
                              /\ e.fact.network \in Networks
                              /\ \/ e.fact \in FactsOf(es)
                                 \/ e.fact \in cut'
                                 \/ e.fact.kind \in {"note", "started", "lost"}
    PROVE  FollowInv'
<1>1. \A e \in log' : e \in log \/ e.id \in (last_id + 1)..last_id'
  OBVIOUS
<1>2. ASSUME NEW s \in Streams
      PROVE  /\ QueueOK(queue'[s], log', last_id')
             /\ FactsOf(queue[s]) \subseteq FactsOf(queue'[s])
  <2> DEFINE q == queue[s]
  <2>1. /\ q \in Seq(Event) /\ Len(q) <= QueueMax
        /\ QueueOK(q, log, last_id)
    BY DEF TypeOK, StreamTypeOK, FollowInv
  <2>2. queue'[s] = IF s \in subscribers THEN Fitting(q, es) ELSE q
    BY DEF Publish
  <2> HIDE DEF q
  <2>3. /\ QueueOK(Fitting(q, es), log', last_id')
        /\ FactsOf(q) \subseteq FactsOf(Fitting(q, es))
    BY <1>1, <2>1, FittingKeeps
  <2>4. QueueOK(q, log', last_id')
    <3>1. \A i \in DOMAIN q : q[i].id \in Nat
      <4>1. \A i \in DOMAIN q : q[i] \in Event
        BY <2>1
      <4>2. \A e \in Event : e.id \in Nat
        BY DEF Event
      <4> QED
        BY <4>1, <4>2
    <3>2. last_id \in Nat
      BY DEF TypeOK
    <3>3. ASSUME NEW i \in DOMAIN q
          PROVE  /\ q[i].id <= last_id'
                 /\ \A e \in log' : q[i].fact = e.fact => q[i].id <= e.id
      BY <1>1, <2>1, <3>1, <3>2 DEF QueueOK
    <3> QED
      BY <2>1, <3>3 DEF QueueOK
  <2> QED
    BY <2>2, <2>3, <2>4 DEF q
<1>3. /\ UNCHANGED <<subscribers, filter, current, behind, since, have>>
      /\ dropped \subseteq dropped'
  BY DEF Publish
<1>4. current # None =>
          /\ FactsOf(queue[current]) \subseteq FactsOf(queue'[current])
          /\ \A f \in FactsOf(es) : \/ f \in FactsOf(queue'[current])
                                    \/ f \in dropped'
  <2>1. current # None => current \in Streams /\ current \in subscribers
    BY DEF FollowInv, TypeOK, StreamTypeOK
  <2> QED
    BY <1>2, <2>1 DEF Publish
<1>5. \A fact : \/ fact \in cut' \/ fact \in dropped'
                \/ fact.kind \in {"note", "started", "lost"}
                => Excused(fact)'
  BY DEF Excused
<1>6. \A e \in log' : \/ e \in log
                      \/ /\ e.id \in (last_id + 1)..last_id'
                         /\ e.fact.network \in Networks
                         /\ current # None =>
                               \/ Excused(e.fact)'
                               \/ e.fact \in FactsOf(queue'[current])
  BY <1>4, <1>5
<1>7. \A s \in Streams : QueueOK(queue'[s], log', last_id')
  BY <1>2
<1>8. current # None =>
          FactsOf(queue[current]) \subseteq FactsOf(queue'[current])
  BY <1>4
<1> QED
  BY <1>3, <1>6, <1>7, <1>8, GrowthKeeps

(* An empty queue is in order.                                              *)
LEMMA EmptyQueueOK ==
    ASSUME NEW l, NEW last
    PROVE  QueueOK(<<>>, l, last) /\ FactsOf(<<>>) = {}
<1>1. DOMAIN <<>> = {}
  OBVIOUS
<1> QED
  BY <1>1 DEF QueueOK, FactsOf

(* A queue stays in order when its first event is taken.                    *)
LEMMA TailIs ==
    ASSUME NEW q \in Seq(Event), q # <<>>, NEW l, NEW last,
           QueueOK(q, l, last)
    PROVE  /\ Head(q) \in Event /\ Head(q) = q[1] /\ 1 \in DOMAIN q
           /\ QueueOK(Tail(q), l, last)
           /\ FactsOf(q) = FactsOf(Tail(q)) \cup {Head(q).fact}
<1> DEFINE t == Tail(q)
<1>1. /\ t \in Seq(Event) /\ Len(t) = Len(q) - 1 /\ Len(q) \in Nat
      /\ Len(q) >= 1 /\ Head(q) = q[1] /\ q[1] \in Event
      /\ \A i \in 1..Len(t) : t[i] = q[i + 1]
  OBVIOUS
<1> HIDE DEF t
<1>2. /\ DOMAIN t = 1..(Len(q) - 1) /\ DOMAIN q = 1..Len(q)
      /\ 1 \in DOMAIN q
  BY <1>1
<1>3. \A i \in DOMAIN t : /\ i + 1 \in DOMAIN q /\ t[i] = q[i + 1]
                          /\ i \in Int
  BY <1>1, <1>2
<1>4. \A i, j \in DOMAIN t : i < j => i + 1 < j + 1
  BY <1>3
<1>5. QueueOK(t, l, last)
  BY <1>3, <1>4 DEF QueueOK
<1>6. \A i \in DOMAIN q : i = 1 \/ (i - 1 \in DOMAIN t /\ q[i] = t[i - 1])
  <2> SUFFICES ASSUME NEW i \in DOMAIN q, i # 1
               PROVE  i - 1 \in DOMAIN t /\ q[i] = t[i - 1]
    OBVIOUS
  <2>1. i - 1 \in DOMAIN t /\ i - 1 + 1 = i
    BY <1>2
  <2> QED
    BY <1>3, <2>1
<1>7. \A i \in DOMAIN q : \/ q[i].fact = q[1].fact
                          \/ q[i].fact \in FactsOf(t)
  BY <1>6 DEF FactsOf
<1>8. FactsOf(t) \subseteq FactsOf(q) /\ q[1].fact \in FactsOf(q)
  BY <1>2, <1>3 DEF FactsOf
<1>9. FactsOf(q) \subseteq FactsOf(t) \cup {q[1].fact}
  BY <1>7 DEF FactsOf
<1> QED
  BY <1>1, <1>2, <1>5, <1>8, <1>9 DEF t

(* The client takes the next event of its queue.                           *)
LEMMA GetsKeeps ==
    ASSUME TypeOK, FollowInv, NEW s \in Streams, Gets(s),
           UNCHANGED monitorVars
    PROVE  FollowInv'
<1> DEFINE q == queue[s]
           h == Head(q)
<1>1. /\ q \in Seq(Event) /\ q # <<>> /\ QueueOK(q, log, last_id)
      /\ s \in DOMAIN queue /\ queue' = [queue EXCEPT ![s] = Tail(q)]
  BY DEF Gets, FollowInv, TypeOK, StreamTypeOK
<1>2. /\ UNCHANGED <<subscribers, filter, current, behind, dropped>>
      /\ UNCHANGED <<log, last_id, cut>>
      /\ IF current = s /\ Passes(h.fact)
           THEN Receive(h) ELSE UNCHANGED <<have, since>>
  BY DEF Gets, monitorVars
<1> HIDE DEF q, h
<1>3. /\ h \in Event /\ h = q[1] /\ 1 \in DOMAIN q
      /\ QueueOK(Tail(q), log, last_id)
      /\ FactsOf(q) = FactsOf(Tail(q)) \cup {h.fact}
  BY <1>1, TailIs DEF h
<1>4. \A r \in Streams : QueueOK(queue'[r], log, last_id)
  BY <1>1, <1>3 DEF FollowInv
<1>5. /\ h.id \in Nat /\ h.fact.network \in Networks /\ h.id <= last_id
      /\ last_id \in Nat /\ \A n \in Networks : since[n] \in Nat
      /\ since \in [Networks -> Nat]
  BY <1>1, <1>3 DEF Event, Fact, QueueOK, TypeOK, StreamTypeOK
<1>6. CASE current = s /\ Passes(h.fact)
  <2>1. /\ have' = have \cup {h.fact}
        /\ since' = IF h.fact.network \notin behind
                          /\ h.id > since[h.fact.network]
                      THEN [since EXCEPT ![h.fact.network] = h.id]
                      ELSE since
    BY <1>2, <1>6 DEF Receive
  <2>2. \A f : Has(f) \/ f = h.fact => Has(f)'
    BY <1>2, <2>1 DEF Has, Excused, Passes
  <2>3. FactsOf(q) \subseteq FactsOf(queue'[s]) \cup {h.fact}
    BY <1>1, <1>3
  <2>4. s # None /\ current # None
    BY <1>6, StreamAssumption
  <2>5. \A e \in log : \/ e.fact.network \in behind \/ Has(e.fact)
                       \/ e.fact \in FactsOf(q)
    BY <1>6, <2>4 DEF FollowInv, q
  <2>6. \A e \in log : \/ e.fact.network \in behind \/ Has(e.fact)'
                       \/ e.fact \in FactsOf(queue'[s])
    BY <2>2, <2>3, <2>5
  <2>7. \A n \in Networks : since'[n] <= last_id
    BY <1>5, <2>1 DEF FollowInv
  <2>8. ASSUME NEW e \in log, e.id <= since'[e.fact.network]
        PROVE  Has(e.fact)'
    <3>1. e.id \in Nat /\ e.fact.network \in Networks
      BY DEF TypeOK, Event, Fact
    <3>2. CASE e.id <= since[e.fact.network]
      BY <2>2, <3>2 DEF FollowInv
    <3>3. CASE ~(e.id <= since[e.fact.network])
      <4>1. /\ h.fact.network \notin behind /\ e.fact.network = h.fact.network
            /\ e.id <= h.id /\ h.id # 0
        BY <1>5, <2>1, <2>8, <3>1, <3>3
      <4>2. CASE Has(e.fact)
        BY <2>2, <4>2
      <4>3. CASE e.fact \in FactsOf(q)
        <5>1. PICK i \in DOMAIN q : q[i].fact = e.fact
          BY <4>3 DEF FactsOf
        <5>2. i \in Nat /\ i >= 1
          BY <1>1
        <5>3. CASE i = 1
          BY <1>3, <2>2, <5>1, <5>3
        <5>4. CASE i # 1 /\ q[i].id = 0
          <6>1. q[i].fact.kind = "lost"
            BY <1>1, <5>4 DEF QueueOK
          <6>2. Has(e.fact)
            BY <5>1, <6>1 DEF Has, Excused
          <6> QED
            BY <2>2, <6>2
        <5>5. CASE i # 1 /\ q[i].id # 0
          <6>1. 1 < i
            BY <5>2, <5>5
          <6>2. q[1].id < q[i].id /\ q[i].id <= e.id
            BY <1>1, <1>3, <5>1, <5>5, <6>1 DEF QueueOK
          <6>3. q[i].id \in Nat
            <7>1. q[i] \in Event
              BY <1>1
            <7> QED
              BY <7>1 DEF Event
          <6> QED
            BY <1>3, <1>5, <3>1, <4>1, <6>2, <6>3
        <5> QED
          BY <5>3, <5>4, <5>5
      <4> QED
        BY <2>5, <4>1, <4>2, <4>3
    <3> QED
      BY <3>2, <3>3
  <2> QED
    BY <1>2, <1>4, <1>6, <2>6, <2>7, <2>8 DEF FollowInv
<1>7. CASE ~(current = s /\ Passes(h.fact))
  <2>1. UNCHANGED <<have, since>>
    BY <1>2, <1>7
  <2>2. \A f : Has(f) => Has(f)'
    BY <1>2, <2>1 DEF Has, Excused, Passes
  <2>3. current # None =>
            \A e \in log : \/ e.fact.network \in behind \/ Has(e.fact)
                           \/ e.fact \in FactsOf(queue'[current])
    <3>1. CASE current = s
      <4>1. Has(h.fact)
        BY <1>7, <3>1 DEF Has, Excused
      <4>2. queue'[current] = Tail(q) /\ queue[current] = q
        BY <1>1, <3>1 DEF q
      <4> QED
        BY <1>3, <4>1, <4>2 DEF FollowInv
    <3>2. CASE current # s
      <4>1. queue'[current] = queue[current]
        BY <1>1, <3>2
      <4> QED
        BY <4>1 DEF FollowInv
    <3> QED
      BY <3>1, <3>2
  <2> QED
    BY <1>2, <1>4, <2>1, <2>2, <2>3 DEF FollowInv
<1> QED
  BY <1>6, <1>7

(* The client asks for the messages that it may have missed.               *)
LEMMA CatchUpKeeps ==
    ASSUME TypeOK, FollowInv, NEW n \in Networks, CatchUp(n, log),
           UNCHANGED monitorVars
    PROVE  FollowInv'
<1> DEFINE news == {e \in log : e.fact.network = n /\ e.id > since[n]}
           live == {e \in log : e.fact.network = n /\ e.fact \in have}
           ids == {since[n]} \cup {e.id : e \in news \cup live}
<1>1. PICK id \in ids : since' = [since EXCEPT ![n] = id]
  BY DEF CatchUp
<1>2. /\ behind' = behind \ {n} /\ have' = have \cup {e.fact : e \in news}
      /\ UNCHANGED <<subscribers, queue, filter, current, dropped>>
      /\ UNCHANGED <<log, last_id, cut>>
  BY DEF CatchUp, monitorVars
<1>3. /\ since \in [Networks -> Nat] /\ last_id \in Nat
      /\ \A e \in log : e.id \in Nat /\ e.fact.network \in Networks
  BY DEF TypeOK, StreamTypeOK, Event, Fact
<1>4. id <= last_id
  BY <1>1 DEF FollowInv
<1>5. \A f : Has(f) => Has(f)'
  BY <1>2 DEF Has, Excused, Passes
<1>6. \A e \in log : e.fact.network = n => Has(e.fact)'
  <2> SUFFICES ASSUME NEW e \in log, e.fact.network = n
               PROVE  Has(e.fact)'
    OBVIOUS
  <2>1. CASE e.id <= since[n]
    BY <1>5, <2>1 DEF FollowInv
  <2>2. CASE e.id > since[n]
    BY <1>2, <2>2 DEF Has
  <2> QED
    BY <1>3, <2>1, <2>2
<1> HIDE DEF news, live, ids
<1>7. \A m \in Networks : since'[m] <= last_id
  BY <1>1, <1>3, <1>4 DEF FollowInv
<1>8. \A e \in log : e.id <= since'[e.fact.network] => Has(e.fact)'
  BY <1>1, <1>3, <1>5, <1>6 DEF FollowInv
<1>9. current # None =>
          \A e \in log : \/ e.fact.network \in behind' \/ Has(e.fact)'
                         \/ e.fact \in FactsOf(queue[current])
  BY <1>2, <1>5, <1>6 DEF FollowInv
<1> QED
  BY <1>2, <1>7, <1>8, <1>9 DEF FollowInv

(* What the streams and the client do keeps the invariant of the client.    *)
LEMMA StreamKeeps ==
    ASSUME TypeOK, FollowInv, StreamStep(log), UNCHANGED monitorVars
    PROVE  FollowInv'
<1>1. UNCHANGED <<log, last_id, cut>>
  BY DEF monitorVars
<1>2. ASSUME UNCHANGED <<filter, since, have, dropped>>
      PROVE  \A f : Has(f)' <=> Has(f)
  BY <1>1, <1>2 DEF Has, Excused, Passes
<1>3. ASSUME NEW s \in Streams, OpenStream(s)
      PROVE  FollowInv'
  <2>1. /\ current' = s /\ behind' = Networks /\ s \in subscribers'
        /\ queue' = [queue EXCEPT ![s] = <<>>]
        /\ UNCHANGED <<filter, since, have, dropped>>
    BY <1>3 DEF OpenStream
  <2>2. \A r \in Streams : QueueOK(queue'[r], log, last_id)
    BY <2>1, EmptyQueueOK DEF FollowInv, TypeOK, StreamTypeOK
  <2>3. \A e \in log : e.fact.network \in Networks
    BY DEF TypeOK, Event, Fact
  <2> QED
    BY <1>1, <1>2, <2>1, <2>2, <2>3 DEF FollowInv
<1>4. ASSUME UNCHANGED <<subscribers, queue, filter, current, behind, since,
                         have, dropped>>
      PROVE  FollowInv'
  BY <1>1, <1>2, <1>4 DEF FollowInv
<1>5. ASSUME NEW s \in Streams, Unsubscribe(s), current # s,
             UNCHANGED <<filter, current, behind, since, have, dropped>>
      PROVE  FollowInv'
  <2>1. /\ queue' = [queue EXCEPT ![s] = <<>>]
        /\ subscribers' = subscribers \ {s}
    BY <1>5 DEF Unsubscribe
  <2>2. \A r \in Streams : QueueOK(queue'[r], log, last_id)
    BY <2>1, EmptyQueueOK DEF FollowInv, TypeOK, StreamTypeOK
  <2>3. queue'[current] = queue[current]
    BY <1>5, <2>1
  <2> QED
    BY <1>1, <1>2, <1>5, <2>1, <2>2, <2>3 DEF FollowInv
<1>6. ASSUME NEW s \in Streams, Checks(s) \/ Cancelled(s)
      PROVE  FollowInv'
  <2>1. CASE Checks(s)
    BY <1>4, <1>5, <2>1 DEF Checks
  <2>2. CASE Cancelled(s)
    BY <1>5, <2>2 DEF Cancelled
  <2> QED
    BY <1>6, <2>1, <2>2
<1>7. ASSUME NEW s \in Streams,
             ResponseStarts(s) \/ ResponseNeverStarts(s) \/ TimesOut(s)
      PROVE  FollowInv'
  BY <1>4, <1>7 DEF ResponseStarts, ResponseNeverStarts, TimesOut
<1>8. CASE ClientLeaves
  BY <1>1, <1>2, <1>8 DEF ClientLeaves, FollowInv
<1> QED
  BY <1>3, <1>6, <1>7, <1>8, GetsKeeps, CatchUpKeeps
     DEF StreamStep, GeneratorStep

(* Messages are published or excused, and notes are excused.                *)
LEMMA WriteKeeps ==
    ASSUME TypeOK, OnceInv, FollowInv, NEW n \in Networks,
           NEW ch \in Channels \cup {None},
           Message(n, ch) \/ MessageUnanswered(n, ch) \/ Note(n)
    PROVE  FollowInv'
<1>1. /\ last_id \in Nat /\ now \in Nat /\ last_id' = last_id + 1
      /\ last_id' \in Nat /\ last_id <= last_id'
      /\ last_id + 1 \in (last_id + 1)..last_id'
  <2>1. last_id \in Nat /\ now \in Nat
    BY MonitorAssumption DEF TypeOK
  <2>2. last_id' = last_id + 1
    BY DEF Message, MessageUnanswered, Note
  <2> QED
    BY <2>1, <2>2
<1>2. ASSUME NEW kind \in {"message", "note"}, NEW c \in Channels \cup {None}
      PROVE  /\ NewFact(kind, n, c) \in Fact
             /\ NewFact(kind, n, c).network = n
             /\ NewFact(kind, n, c).kind = kind
             /\ NewFact(kind, n, c) \notin StoredFacts
  <2>1. NewFact(kind, n, c) \notin StoredFacts
    BY NewIsNew DEF OnceInv
  <2> QED
    BY <1>1, <2>1 DEF NewFact, Fact, Kinds
<1>3. CASE Message(n, ch)
  <2> DEFINE fact == NewFact("message", n, ch)
             e == [id |-> last_id + 1, fact |-> fact]
             es == Entries(<<fact>>)
  <2>1. fact \in Fact /\ fact.network = n /\ fact \notin StoredFacts
    BY <1>2
  <2>2. Publish(es) /\ log' = log \cup Elements(es) /\ cut' = cut
    BY <1>3 DEF Message
  <2> HIDE DEF fact
  <2>3. /\ es \in Seq(Event) /\ Len(es) = 1 /\ es[1] = e
        /\ Elements(es) = {e} /\ e.id = last_id + 1 /\ e.fact = fact
    BY <1>1, <2>1, OneEntry
  <2> HIDE DEF e, es
  <2>4. DOMAIN es = {1}
    BY <2>3
  <2>5. \A d \in log : d.fact # fact
    BY <2>1 DEF StoredFacts
  <2>6. /\ \A i \in DOMAIN es : es[i].id \in (last_id + 1)..last_id'
        /\ \A i, j \in DOMAIN es : i < j /\ es[j].id # 0 =>
              es[i].id < es[j].id
    BY <1>1, <2>3, <2>4
  <2>7. \A i \in DOMAIN es : \A d \in log' :
            es[i].fact = d.fact => es[i].id <= d.id
    BY <1>1, <2>2, <2>3, <2>4, <2>5
  <2>8. \A d \in log' : \/ d \in log
                        \/ /\ d.id \in (last_id + 1)..last_id'
                           /\ d.fact.network \in Networks
                           /\ d.fact \in FactsOf(es)
    BY <1>1, <2>1, <2>2, <2>3, <2>4 DEF FactsOf
  <2> QED
    BY <1>1, <2>2, <2>3, <2>6, <2>7, <2>8, PublishKeeps
<1>4. ASSUME NEW fact \in Fact, fact.network = n, UNCHANGED streamVars,
             log' = log \cup Elements(Entries(<<fact>>)), cut \subseteq cut',
             fact \in cut' \/ fact.kind = "note"
      PROVE  FollowInv'
  <2> DEFINE e == [id |-> last_id + 1, fact |-> fact]
  <2>1. Elements(Entries(<<fact>>)) = {e}
    BY <1>1, OneEntry
  <2>2. e.id = last_id + 1 /\ e.fact = fact
    OBVIOUS
  <2> HIDE DEF e
  <2>3. \A d \in log' : \/ d \in log
                        \/ /\ d.id \in (last_id + 1)..last_id'
                           /\ d.fact.network \in Networks
                           /\ \/ d.fact \in cut'
                              \/ d.fact.kind \in {"note", "started", "lost"}
    BY <1>1, <1>4, <2>1, <2>2
  <2> QED
    BY <1>1, <1>4, <2>3, StandKeeps
<1>5. CASE MessageUnanswered(n, ch)
  <2>1. /\ UNCHANGED streamVars
        /\ log' = log \cup Elements(Entries(<<NewFact("message", n, ch)>>))
        /\ cut' = cut \cup {NewFact("message", n, ch)}
    BY <1>5 DEF MessageUnanswered
  <2> QED
    BY <1>2, <1>4, <2>1
<1>6. CASE Note(n)
  <2>1. /\ UNCHANGED streamVars
        /\ log' = log \cup Elements(Entries(<<NewFact("note", n, None)>>))
        /\ cut' = cut
    BY <1>6 DEF Note
  <2> QED
    BY <1>2, <1>4, <2>1
<1> QED
  BY <1>3, <1>5, <1>6

(* Losses are published without being stored.                               *)
LEMMA LostKeeps ==
    ASSUME TypeOK, FollowInv, ProbeLost
    PROVE  FollowInv'
<1> DEFINE facts == Facts("lost")
           es == Temporary(facts)
<1>1. facts \in Seq(Fact) /\ \A i \in DOMAIN facts : facts[i].kind = "lost"
  <2>1. /\ facts \in Seq(Fact)
        /\ \A i \in DOMAIN facts :
              facts[i] = NewFact("lost", networks[i], None)
    BY FactsAre DEF Kinds
  <2>2. \A n : NewFact("lost", n, None).kind = "lost"
    BY DEF NewFact
  <2> QED
    BY <2>1, <2>2
<1>2. Publish(es) /\ UNCHANGED <<log, last_id, cut>>
  BY DEF ProbeLost
<1> HIDE DEF facts
<1>3. /\ es \in Seq(Event) /\ Len(es) = Len(facts)
      /\ \A i \in 1..Len(facts) : es[i].id = 0 /\ es[i].fact = facts[i]
  BY <1>1, TemporaryAre
<1> HIDE DEF es
<1>4. \A i \in DOMAIN es : es[i].id = 0 /\ es[i].fact.kind = "lost"
  BY <1>1, <1>3
<1>5. last_id' \in Nat /\ last_id <= last_id' /\ cut \subseteq cut'
  BY <1>2 DEF TypeOK
<1>6. \A i \in DOMAIN es : \A e \in log' :
          es[i].fact = e.fact => es[i].id <= e.id
  <2>1. \A e \in log' : e.id \in Nat
    BY <1>2 DEF TypeOK, Event
  <2> QED
    BY <1>4, <2>1
<1>7. \A i, j \in DOMAIN es : i < j /\ es[j].id # 0 => es[i].id < es[j].id
  BY <1>4
<1> QED
  BY <1>2, <1>3, <1>4, <1>5, <1>6, <1>7, PublishKeeps

(* What a probe stores is published, a loss, or cut off.                    *)
LEMMA RestoredKeeps ==
    ASSUME TypeOK, NetworksOK, OnceInv, FollowInv, NEW fails, NEW written,
           ProbeRestored(fails, written)
    PROVE  FollowInv'
<1> DEFINE es == SubSeq(Restored, Len(pending) + 1, fails - 1)
<1>1. /\ fails \in 1..(Len(Restored) + 1)
      /\ written \in {fails - 1, fails} /\ written \in 0..Len(Restored)
      /\ log' = log \cup {Restored[i] : i \in 1..written}
      /\ es \in Seq(Event) /\ Publish(es)
      /\ \A i \in DOMAIN es :
            /\ Len(pending) + i \in (Len(pending) + 1)..(fails - 1)
            /\ es[i] = Restored[Len(pending) + i]
      /\ \A i \in (Len(pending) + 1)..(fails - 1) :
            i - Len(pending) \in DOMAIN es
      /\ fails <= Len(Restored) =>
            cut' = cut \cup {Restored[i].fact : i \in 1..written}
  <2>1. \A p : p = SubSeq(Restored, Len(pending) + 1, fails - 1) =>
           /\ fails \in 1..(Len(Restored) + 1)
           /\ written \in {fails - 1, fails} /\ written \in 0..Len(Restored)
           /\ log' = log \cup {Restored[i] : i \in 1..written}
           /\ p \in Seq(Event)
           /\ \A i \in DOMAIN p :
                 /\ Len(pending) + i \in (Len(pending) + 1)..(fails - 1)
                 /\ p[i] = Restored[Len(pending) + i]
           /\ \A i \in (Len(pending) + 1)..(fails - 1) :
                 i - Len(pending) \in DOMAIN p
           /\ Publish(p)
           /\ fails <= Len(Restored) =>
                 cut' = cut \cup {Restored[i].fact : i \in 1..written}
    BY ProbeRestoredIs
  <2> QED
    BY <2>1
<1> HIDE DEF es
<1>2. /\ Restored \in Seq(Event) /\ Len(Restored) \in Nat
      /\ Len(Restored) = Len(pending) + Len(networks)
      /\ Len(pending) \in Nat /\ Len(networks) \in Nat
      /\ DOMAIN Restored = 1..Len(Restored)
      /\ DOMAIN pending = 1..Len(pending)
      /\ \A i \in DOMAIN Restored : Restored[i].id = last_id + i
  BY RestoredIs DEF TypeOK
<1>3. /\ ~db_ok /\ last_id' = last_id + written /\ cut \subseteq cut'
  <2>1. ~db_ok /\ last_id' = last_id + written
    BY DEF ProbeRestored, ReturnNoticed
  <2>2. UNCHANGED cut \/ \E x : cut' = cut \cup x
    BY DEF ProbeRestored
  <2> QED
    BY <2>1, <2>2
<1>4. \A i, j \in DOMAIN Restored :
          /\ Restored[i].fact = Restored[j].fact => i = j
          /\ \/ /\ i \in DOMAIN pending /\ Restored[i].fact = pending[i]
                /\ Restored[i].fact.kind = "lost"
             \/ /\ i \notin DOMAIN pending /\ i > Len(pending)
                /\ Restored[i].fact \notin StoredFacts \cup Elements(pending)
                /\ Restored[i].fact.kind = "restored"
                /\ Restored[i].fact.at = now
  BY <1>3, RestoredAreNew
<1>5. last_id \in Nat /\ last_id' \in Nat /\ last_id <= last_id'
  BY <1>1, <1>2, <1>3 DEF TypeOK
<1>6. \A i \in 1..written :
          /\ i \in DOMAIN Restored
          /\ Restored[i].id \in (last_id + 1)..last_id'
          /\ Restored[i].fact.network \in Networks
  <2>1. \A i \in DOMAIN Restored : Restored[i].fact.network \in Networks
    <3>1. \A i \in DOMAIN Restored : Restored[i] \in Event
      BY <1>2
    <3>2. \A e \in Event : e.fact.network \in Networks
      BY DEF Event, Fact
    <3> QED
      BY <3>1, <3>2
  <2>2. \A i \in 1..written : /\ i \in DOMAIN Restored
                              /\ last_id + i \in (last_id + 1)..last_id'
    BY <1>1, <1>2, <1>3, <1>5
  <2> QED
    BY <1>2, <2>1, <2>2
<1>7. \A i \in DOMAIN es : /\ i \in Nat
                           /\ Len(pending) + i \in 1..written
                           /\ Len(pending) + i \in DOMAIN Restored
                           /\ Len(pending) + i \notin DOMAIN pending
                           /\ es[i] = Restored[Len(pending) + i]
  <2> SUFFICES ASSUME NEW i \in DOMAIN es
               PROVE  /\ i \in Nat
                      /\ Len(pending) + i \in 1..written
                      /\ Len(pending) + i \in DOMAIN Restored
                      /\ Len(pending) + i \notin DOMAIN pending
                      /\ es[i] = Restored[Len(pending) + i]
    OBVIOUS
  <2>1. i \in Nat /\ Len(pending) + i \in (Len(pending) + 1)..(fails - 1)
    BY <1>1
  <2>2. /\ Len(pending) + i \in 1..written
        /\ Len(pending) + i \notin DOMAIN pending
    BY <1>1, <1>2, <2>1
  <2> QED
    BY <1>1, <1>6, <2>1, <2>2
<1>8. \A i \in DOMAIN es : es[i].id \in (last_id + 1)..last_id'
  BY <1>6, <1>7
<1>9. \A i, j \in DOMAIN es : i < j /\ es[j].id # 0 => es[i].id < es[j].id
  <2>1. \A i \in DOMAIN es : es[i].id = last_id + (Len(pending) + i)
    BY <1>2, <1>7
  <2> QED
    BY <1>2, <1>5, <1>7, <2>1
<1>10. ASSUME NEW i \in DOMAIN es, NEW e \in log', es[i].fact = e.fact
       PROVE  es[i].id <= e.id
  <2>1. es[i].fact \notin StoredFacts
    BY <1>4, <1>7
  <2>2. e \notin log
    BY <1>10, <2>1 DEF StoredFacts
  <2>3. PICK j \in 1..written : e = Restored[j]
    BY <1>1, <2>2
  <2>4. es[i] = e
    BY <1>4, <1>6, <1>7, <1>10, <2>3
  <2>5. es[i].id \in Int
    BY <1>5, <1>8
  <2> QED
    BY <2>4, <2>5
<1>11. ASSUME NEW i \in 1..written
       PROVE  \/ Restored[i].fact \in FactsOf(es)
              \/ Restored[i].fact \in cut'
              \/ Restored[i].fact.kind \in {"note", "started", "lost"}
  <2>1. CASE i \in DOMAIN pending
    BY <1>4, <1>6, <2>1
  <2>2. CASE i \notin DOMAIN pending
    <3>1. CASE fails <= Len(Restored)
      BY <1>1, <3>1
    <3>2. CASE ~(fails <= Len(Restored))
      <4>1. /\ i \in (Len(pending) + 1)..(fails - 1)
            /\ Len(pending) + (i - Len(pending)) = i
        BY <1>1, <1>2, <2>2, <3>2
      <4>2. /\ i - Len(pending) \in DOMAIN es
            /\ es[i - Len(pending)] = Restored[i]
        BY <1>1, <4>1
      <4> QED
        BY <4>2 DEF FactsOf
    <3> QED
      BY <3>1, <3>2
  <2> QED
    BY <2>1, <2>2
<1>12. \A e \in log' : \/ e \in log
                       \/ /\ e.id \in (last_id + 1)..last_id'
                          /\ e.fact.network \in Networks
                          /\ \/ e.fact \in FactsOf(es)
                             \/ e.fact \in cut'
                             \/ e.fact.kind \in {"note", "started", "lost"}
  BY <1>1, <1>6, <1>11
<1> QED
  BY <1>1, <1>3, <1>5, <1>8, <1>9, <1>10, <1>12, PublishKeeps

(* A new process has no streams, and only notes its start.                  *)
LEMMA RestartKeeps ==
    ASSUME TypeOK, NetworksOK, FollowInv, Restart
    PROVE  FollowInv'
<1> DEFINE k == Cardinality(rows)
<1>1. k \in Nat /\ log' = log \cup {Started(i) : i \in 1..k}
  BY RestartIs
<1>2. /\ last_id' = last_id + k /\ last_id \in Nat /\ StreamsEnd /\ cut' = cut
      /\ since \in [Networks -> Nat]
  BY DEF Restart, TypeOK, StreamTypeOK
<1> HIDE DEF k
<1>3. \A i \in 1..k : /\ Started(i).id = last_id + i
                      /\ Started(i).fact.kind = "started"
                      /\ Started(i).id <= last_id'
  <2>1. \A i \in 1..k : /\ Started(i).id = last_id + i
                        /\ Started(i).fact.kind = "started"
    BY DEF Started, NewFact
  <2> QED
    BY <1>1, <1>2, <2>1
<1>4. /\ current' = None /\ UNCHANGED <<filter, since, have, dropped>>
      /\ \A s \in Streams : queue'[s] = <<>>
  BY <1>2 DEF StreamsEnd
<1>5. \A f : /\ Has(f) => Has(f)'
             /\ f.kind = "started" => Has(f)'
  BY <1>2, <1>4 DEF Has, Excused, Passes
<1>6. \A s \in Streams : QueueOK(queue'[s], log', last_id')
  BY <1>4, EmptyQueueOK
<1>7. \A e \in log : e.id \in Nat
  BY DEF TypeOK, Event
<1>8. /\ \A e \in log' : e.id <= last_id'
      /\ \A n \in Networks : since'[n] <= last_id'
  BY <1>1, <1>2, <1>3, <1>4, <1>7 DEF FollowInv
<1>9. \A e \in log' : e.id <= since'[e.fact.network] => Has(e.fact)'
  BY <1>1, <1>3, <1>4, <1>5 DEF FollowInv
<1> QED
  BY <1>4, <1>6, <1>8, <1>9 DEF FollowInv

(* Every step keeps the invariant of the client.                            *)
LEMMA StepKeepsFollowing ==
    ASSUME TypeOK, NetworksOK, OnceInv, FollowInv, [Next]_vars
    PROVE  FollowInv'
<1>1. ASSUME log' \subseteq log, UNCHANGED <<streamVars, last_id, cut>>
      PROVE  FollowInv'
  <2>1. UNCHANGED streamVars
    BY <1>1 DEF streamVars
  <2>2. last_id' \in Nat /\ last_id <= last_id' /\ cut \subseteq cut'
    BY <1>1 DEF TypeOK
  <2> QED
    BY <1>1, <2>1, <2>2, StandKeeps
<1>2. ASSUME NEW n \in Networks, NEW k \in 0..2, DeleteNetwork(n, k)
      PROVE  FollowInv'
  <2>1. log' \subseteq log /\ UNCHANGED <<streamVars, last_id, cut>>
    BY <1>2 DEF DeleteNetwork, LogAfterDelete, streamVars
  <2> QED
    BY <1>1, <2>1
<1>3. ASSUME \/ \E n \in Networks : CreateNetwork(n)
             \/ OutageBegins \/ OutageEnds \/ ProbeUnchanged
             \/ UNCHANGED vars
      PROVE  FollowInv'
  <2>1. log' \subseteq log /\ UNCHANGED <<streamVars, last_id, cut>>
    BY <1>3 DEF CreateNetwork, OutageBegins, OutageEnds, ProbeUnchanged,
                vars, monitorVars, streamVars
  <2> QED
    BY <1>1, <2>1
<1> QED
  <2>1. CASE Probe
    BY <1>3, <2>1, LostKeeps, RestoredKeeps DEF Probe
  <2> QED
    BY <1>2, <1>3, <2>1, WriteKeeps, RestartKeeps, StreamKeeps
       DEF Next, MonitorStep

(* The invariant of the client holds at the beginning.                      *)
LEMMA InitFollows == Init => FollowInv
<1> SUFFICES ASSUME Init PROVE FollowInv
  OBVIOUS
<1>1. \A s \in Streams : QueueOK(queue[s], log, last_id)
  BY EmptyQueueOK DEF Init, StreamInit
<1>2. log = {} /\ last_id = 0 /\ current = None
      /\ \A n \in Networks : since[n] <= last_id
  BY DEF Init, StreamInit
<1> QED
  BY <1>1, <1>2 DEF FollowInv

(***************************************************************************)
(* A client that has opened a stream and caught up with a network has what *)
(* it asks for of what is stored for the network, or finds it in its       *)
(* queue, but for what a full queue dropped and for what is stored without *)
(* being published.                                                        *)
(***************************************************************************)
THEOREM NothingMissed == Spec => []FollowerMissesNothing
<1> DEFINE Inv == TypeOK /\ NetworksOK /\ OnceInv /\ FollowInv
<1>1. Init => Inv
  <2>1. Init => OnceInv
    BY DEF Init, OnceInv, NotedOnce, Timely, Waiting, StoredFacts, Elements
  <2> QED
    BY <2>1, InitTyped, InitFollows
<1>2. Inv /\ [Next]_vars => Inv'
  BY StepTyped, StepKeepsOnce, StepKeepsFollowing
<1>3. Inv => FollowerMissesNothing
  BY FollowInvImplies
<1> HIDE DEF Inv
<1> QED
  BY <1>1, <1>2, <1>3, PTL DEF Spec

(***************************************************************************)
(* The refinement of MessageStore.                                         *)
(***************************************************************************)

(* An entry as a message of the abstract store.                            *)
Entered(e) == [id |-> e.id, place |-> e.fact.network, what |-> e.fact]

(* Its fields.                                                             *)
LEMMA EnteredIs ==
    ASSUME NEW e
    PROVE  /\ Entered(e).id = e.id /\ Entered(e).place = e.fact.network
           /\ Entered(e).what = e.fact
BY DEF Entered

(* The abstract store holds the entries of the log.                        *)
LEMMA KeptIs ==
    /\ Kept = {Entered(e) : e \in log}
    /\ Kept' = {Entered(e) : e \in log'}
BY DEF Kept, Entered

(* Entries are added under the ids that come next, none of them twice.     *)
LEMMA AddedIsStored ==
    ASSUME last_id \in Nat, last_id' \in Nat, NEW added,
           log' = log \cup added,
           last_id < last_id' \/ (added = {} /\ last_id' = last_id),
           \A e \in added : e.id \in (last_id + 1)..last_id',
           \A e1, e2 \in added : e1.id = e2.id => e1 = e2
    PROVE  Abstract!Next
<1>1. Abstract!Gone = {}
  BY KeptIs DEF Abstract!Gone
<1>2. ASSUME NEW m \in Abstract!New
      PROVE  \E e \in added : m = Entered(e)
  BY KeptIs DEF Abstract!New
<1>3. Abstract!OldestAreForgotten
  BY <1>1 DEF Abstract!OldestAreForgotten
<1>4. CASE last_id < last_id'
  <2>1. \A m \in Abstract!New : m.id \in (last_id + 1)..last_id'
    BY <1>2, EnteredIs
  <2>2. ASSUME NEW m1 \in Abstract!New, NEW m2 \in Abstract!New,
               m1.id = m2.id
        PROVE  m1 = m2
    <3>1. PICK e1 \in added : m1 = Entered(e1)
      BY <1>2
    <3>2. PICK e2 \in added : m2 = Entered(e2)
      BY <1>2
    <3>3. e1.id = e2.id
      BY <2>2, <3>1, <3>2, EnteredIs
    <3> QED
      BY <3>1, <3>2, <3>3
  <2> QED
    BY <1>3, <1>4, <2>1, <2>2
       DEF Abstract!Next, Abstract!Store, Abstract!NewIdsAreHigher
<1>5. CASE added = {} /\ last_id' = last_id
  <2>1. Abstract!New = {}
    BY <1>2, <1>5
  <2> QED
    BY <1>3, <1>5, <2>1 DEF Abstract!Next, Abstract!Forget
<1> QED
  BY <1>4, <1>5

(* The log of a network goes as a whole.                                   *)
LEMMA RemovalForgets ==
    ASSUME NEW n, last_id' = last_id,
           log' = {e \in log : e.fact.network # n} \/ log' = log
    PROVE  Abstract!Next
<1>1. \A e \in log : e \notin log' => e.fact.network = n
  OBVIOUS
<1>2. Abstract!New = {}
  BY KeptIs DEF Abstract!New
<1>3. ASSUME NEW gone \in Abstract!Gone, NEW kept \in Kept'
      PROVE  gone.place # kept.place
  <2>1. gone \in Kept /\ gone \notin Kept'
    BY DEF Abstract!Gone
  <2>2. PICK g \in log : gone = Entered(g)
    BY <2>1, KeptIs
  <2>3. PICK k \in log' : kept = Entered(k)
    BY KeptIs
  <2>4. g \notin log'
    BY <2>1, <2>2, KeptIs
  <2>5. log' = {e \in log : e.fact.network # n}
    BY <2>4
  <2>6. g.fact.network = n /\ k.fact.network # n
    BY <2>3, <2>4, <2>5
  <2> QED
    BY <2>2, <2>3, <2>6, EnteredIs
<1> QED
  BY <1>2, <1>3
     DEF Abstract!Next, Abstract!Forget, Abstract!OldestAreForgotten

(* A message or a note takes one id.                                       *)
LEMMA WriteStores ==
    ASSUME TypeOK, NEW n \in Networks, NEW ch \in Channels \cup {None},
           Message(n, ch) \/ MessageUnanswered(n, ch) \/ Note(n)
    PROVE  Abstract!Next
<1>1. last_id \in Nat /\ now \in Nat
  BY MonitorAssumption DEF TypeOK
<1>2. \A kind \in {"message", "note"}, c \in Channels \cup {None} :
          NewFact(kind, n, c) \in Fact
  BY <1>1 DEF NewFact, Fact, Kinds
<1>3. ASSUME NEW fact \in Fact, last_id' = last_id + 1,
             log' = log \cup Elements(Entries(<<fact>>))
      PROVE  Abstract!Next
  <2> DEFINE e == [id |-> last_id + 1, fact |-> fact]
  <2>1. Elements(Entries(<<fact>>)) = {e} /\ e.id = last_id + 1
    BY <1>1, OneEntry
  <2> HIDE DEF e
  <2> DEFINE added == {e}
  <2>2. /\ log' = log \cup added /\ last_id' \in Nat /\ last_id < last_id'
        /\ \A d \in added : d.id \in (last_id + 1)..last_id'
        /\ \A d1, d2 \in added : d1.id = d2.id => d1 = d2
    BY <1>1, <1>3, <2>1
  <2> HIDE DEF added
  <2> QED
    BY <1>1, <2>2, AddedIsStored
<1> QED
  BY <1>2, <1>3 DEF Message, MessageUnanswered, Note

(* The notes that waited, and those of the return, take one id each, as    *)
(* far as they are written.                                                *)
LEMMA RestoredStores ==
    ASSUME TypeOK, NEW fails, NEW written, ProbeRestored(fails, written)
    PROVE  Abstract!Next
<1> DEFINE added == {Restored[i] : i \in 1..written}
<1>1. written \in 0..Len(Restored) /\ log' = log \cup added
  <2>1. \A p : p = SubSeq(Restored, Len(pending) + 1, fails - 1) =>
           /\ written \in 0..Len(Restored)
           /\ log' = log \cup {Restored[i] : i \in 1..written}
    BY ProbeRestoredIs
  <2> QED
    BY <2>1
<1>2. /\ Len(Restored) \in Nat /\ DOMAIN Restored = 1..Len(Restored)
      /\ \A i \in DOMAIN Restored : Restored[i].id = last_id + i
  BY RestoredIs
<1>3. last_id' = last_id + written /\ last_id \in Nat
  BY DEF ProbeRestored, TypeOK
<1>4. \A e \in added : \E i \in 1..written :
          e = Restored[i] /\ e.id = last_id + i
  BY <1>1, <1>2
<1> HIDE DEF added
<1>5. /\ written \in Nat /\ last_id' \in Nat
      /\ last_id < last_id' \/ (added = {} /\ last_id' = last_id)
  BY <1>1, <1>2, <1>3, <1>4
<1>6. /\ \A e \in added : e.id \in (last_id + 1)..last_id'
      /\ \A e1, e2 \in added : e1.id = e2.id => e1 = e2
  BY <1>3, <1>4, <1>5
<1> QED
  BY <1>1, <1>3, <1>5, <1>6, AddedIsStored

(* A new process notes its start under one id for each network.            *)
LEMMA RestartStores ==
    ASSUME TypeOK, NetworksOK, Restart
    PROVE  Abstract!Next
<1> DEFINE k == Cardinality(rows)
           added == {Started(i) : i \in 1..k}
<1>1. k \in Nat /\ log' = log \cup added
  BY RestartIs
<1>2. last_id' = last_id + k /\ last_id \in Nat
  BY DEF Restart, TypeOK
<1>3. \A e \in added : \E i \in 1..k :
          e = Started(i) /\ e.id = last_id + i
  BY DEF Started
<1> HIDE DEF k
<1> HIDE DEF added
<1>4. /\ last_id' \in Nat
      /\ last_id < last_id' \/ (added = {} /\ last_id' = last_id)
  BY <1>1, <1>2, <1>3
<1>5. /\ \A e \in added : e.id \in (last_id + 1)..last_id'
      /\ \A e1, e2 \in added : e1.id = e2.id => e1 = e2
  BY <1>1, <1>2, <1>3
<1> QED
  BY <1>1, <1>2, <1>4, <1>5, AddedIsStored

(***************************************************************************)
(* What the handlers, the monitor and the start of a process write         *)
(* together implements MessageStore: every entry gets an id above all      *)
(* earlier ones and the log of a network goes as a whole                   *)
(* (handle_irc_event, _emit_db_meta, remove_network_data).                 *)
(***************************************************************************)
THEOREM StoreCorrect == Spec => ImplementsStore
<1>1. Init => TypeOK /\ NetworksOK /\ Abstract!Init
  <2>1. Init => Abstract!Init
    BY KeptIs DEF Init, Abstract!Init
  <2> QED
    BY <2>1, InitTyped
<1>2. TypeOK /\ NetworksOK /\ [Next]_vars
          => TypeOK' /\ NetworksOK' /\ [Abstract!Next]_<<Kept, last_id>>
  <2> SUFFICES ASSUME TypeOK, NetworksOK, [Next]_vars
               PROVE  [Abstract!Next]_<<Kept, last_id>>
    BY StepTyped
  <2>1. UNCHANGED <<log, last_id>> => UNCHANGED <<Kept, last_id>>
    BY KeptIs
  <2>2. ASSUME NEW n \in Networks, NEW k \in 0..2, DeleteNetwork(n, k)
        PROVE  Abstract!Next
    BY <2>2, RemovalForgets DEF DeleteNetwork, LogAfterDelete
  <2>3. CASE \/ \E n \in Networks : CreateNetwork(n)
             \/ OutageBegins \/ OutageEnds \/ ProbeUnchanged \/ ProbeLost
             \/ StreamStep(log) /\ UNCHANGED monitorVars
             \/ UNCHANGED vars
    <3>1. UNCHANGED <<log, last_id>>
      BY <2>3 DEF CreateNetwork, OutageBegins, OutageEnds, ProbeUnchanged,
                  ProbeLost, vars, monitorVars
    <3> QED
      BY <2>1, <3>1
  <2>4. CASE Probe
    BY <2>3, <2>4, RestoredStores DEF Probe
  <2> QED
    BY <2>2, <2>3, <2>4, WriteStores, RestartStores DEF Next, MonitorStep
<1> QED
  BY <1>1, <1>2, PTL DEF Spec, ImplementsStore, Abstract!Spec
=============================================================================
