---------------------------- MODULE MessageStore ----------------------------
(***************************************************************************)
(* What the pages, the poll and the catching up of clients take for        *)
(* granted of the messages, whichever backend keeps them and whatever it   *)
(* does to keep them: a message is stored under an id that comes after     *)
(* all ids that any message ever had, also one that was forgotten since;   *)
(* and a place (a channel, a private conversation, the notes of a network) *)
(* forgets its oldest messages first, and whole when it is removed.  Ids   *)
(* may be left out, and a message that is stored never changes.            *)
(***************************************************************************)
EXTENDS Naturals

VARIABLES
    messages,  \* what is stored, each message with its id and place
    last       \* no message was ever stored under a higher id

Init == messages = {} /\ last = 0

New == messages' \ messages

Gone == messages \ messages'

(* New messages have ids of their own, above those of all earlier ones.    *)
NewIdsAreHigher ==
    /\ \A m \in New : m.id \in (last + 1)..last'
    /\ \A m1, m2 \in New : m1.id = m2.id => m1 = m2

(* Nothing is kept that is older than what its place forgets.              *)
OldestAreForgotten ==
    \A gone \in Gone, kept \in messages' :
        gone.place = kept.place => gone.id < kept.id

(* Messages are stored, or an id is taken for one that never is.           *)
Store ==
    /\ last' \in Nat /\ last < last'
    /\ NewIdsAreHigher /\ OldestAreForgotten

Forget == last' = last /\ New = {} /\ OldestAreForgotten

Next == Store \/ Forget

Spec == Init /\ [][Next]_<<messages, last>>

-----------------------------------------------------------------------------
(* What follows for those who read: an id stands for one message.          *)
OneMessageForAnId ==
    \A m1, m2 \in messages : m1.id = m2.id => m1 = m2

(* And a message that is new comes after all that can be read, so that who *)
(* has read up to an id need only ask for what comes after it.             *)
NewComesLast ==
    [][\A m \in New, k \in messages : k.id < m.id]_<<messages, last>>
=============================================================================
