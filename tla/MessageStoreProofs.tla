------------------------- MODULE MessageStoreProofs -------------------------
(***************************************************************************)
(* What the specification of the message stores promises to those who      *)
(* read, whatever its backends do.  The inductive invariant: the ids of    *)
(* the messages are ids that were taken.                                   *)
(***************************************************************************)
EXTENDS MessageStore, TLAPS

IdsTaken == last \in Nat /\ \A m \in messages : m.id \in 1..last

StoreInv == IdsTaken /\ OneMessageForAnId

(* A message was there or has an id above the last one.                    *)
LEMMA KeptOrNew ==
    ASSUME NEW m \in messages'
    PROVE  m \in messages \/ m \in New
BY DEF New

(* What is stored gets ids above those that were taken.                    *)
LEMMA StepTakes ==
    ASSUME StoreInv, [Next]_<<messages, last>>
    PROVE  StoreInv'
<1>1. CASE Store
  <2>1. last \in Nat /\ last' \in Nat /\ last < last'
    BY <1>1 DEF Store, StoreInv, IdsTaken
  <2>2. \A m \in messages : m.id \in 1..last
    BY DEF StoreInv, IdsTaken
  <2>3. /\ \A m \in New : m.id \in (last + 1)..last'
        /\ \A m1, m2 \in New : m1.id = m2.id => m1 = m2
    BY <1>1 DEF Store, NewIdsAreHigher
  <2>4. IdsTaken'
    BY <2>1, <2>2, <2>3, KeptOrNew DEF IdsTaken
  <2>5. \A m1 \in New, m2 \in messages : m1.id # m2.id
    BY <2>1, <2>2, <2>3
  <2>6. OneMessageForAnId'
    BY <2>3, <2>5, KeptOrNew DEF OneMessageForAnId, StoreInv
  <2> QED
    BY <2>4, <2>6 DEF StoreInv
<1>2. CASE Forget
  <2>1. last' = last /\ \A m \in messages' : m \in messages
    BY <1>2, KeptOrNew DEF Forget
  <2> QED
    BY <2>1 DEF StoreInv, IdsTaken, OneMessageForAnId
<1>3. CASE UNCHANGED <<messages, last>>
  BY <1>3 DEF StoreInv, IdsTaken, OneMessageForAnId
<1> QED
  BY <1>1, <1>2, <1>3 DEF Next

(* Every behaviour of a store has the invariant.                           *)
LEMMA Takes == Spec => []StoreInv
<1>1. Init => StoreInv
  BY DEF Init, StoreInv, IdsTaken, OneMessageForAnId
<1> QED
  BY <1>1, StepTakes, PTL DEF Spec

(***************************************************************************)
(* An id stands for one message: the pointers of the sessions, the after   *)
(* and before of the pages and the ids in the events mean the same message *)
(* with every backend (next_message_id, _insert, _channel_deque).           *)
(***************************************************************************)
THEOREM IdsStandForOne == Spec => []OneMessageForAnId
<1>1. StoreInv => OneMessageForAnId
  BY DEF StoreInv
<1> QED
  BY <1>1, Takes, PTL

(***************************************************************************)
(* What is new comes after all that can be read: a client that asks again  *)
(* only for what comes after the last id it has misses nothing that was    *)
(* stored in between (poll_notifications, _paginate_messages with after).  *)
(***************************************************************************)
THEOREM NewestComeLast == Spec => NewComesLast
<1> DEFINE InOrder == \A m \in New, k \in messages : k.id < m.id
<1>1. StoreInv /\ [Next]_<<messages, last>>
          => [InOrder]_<<messages, last>>
  <2> SUFFICES ASSUME StoreInv, Next,
                      NEW m \in New, NEW k \in messages
               PROVE  k.id < m.id
    OBVIOUS
  <2>1. last \in Nat /\ k.id \in 1..last
    BY DEF StoreInv, IdsTaken
  <2>2. m.id \in (last + 1)..last' /\ last' \in Nat
    BY DEF Next, Store, Forget, NewIdsAreHigher
  <2> QED
    BY <2>1, <2>2
<1> QED
  BY <1>1, Takes, PTL DEF Spec, NewComesLast
=============================================================================
