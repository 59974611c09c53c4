----------------------------- MODULE AtLeastOnce -----------------------------
(***************************************************************************)
(* What EventPublisher promises its callers: an event whose publish() has  *)
(* returned is delivered to Kafka at least once, unless a storage or a     *)
(* broker fault took it.  A client hands over an event; the service        *)
(* delivers it at once, or keeps it and delivers it later; it lets go of   *)
(* a kept event only once that event was delivered.  Only clients that     *)
(* keep their events in one place may take each other's away.              *)
(***************************************************************************)
CONSTANTS Clients, Events, None,
          Sharing     \* some clients keep their events in one place

VARIABLES hand,       \* hand[c]: the event client c's call is about, or None
          kept,       \* events kept for a later delivery
          delivered,  \* events delivered at least once
          promised,   \* events whose call returned
          given_up    \* events of which the service could neither deliver nor keep a copy

avars == <<hand, kept, delivered, promised, given_up>>

AInit == /\ hand = [c \in Clients |-> None]
         /\ kept = {}
         /\ delivered = {}
         /\ promised = {}
         /\ given_up = {}

Give(c, e) == /\ hand[c] = None
              /\ hand' = [hand EXCEPT ![c] = e]
              /\ UNCHANGED <<kept, delivered, promised, given_up>>

\* The call returns: its event is delivered, kept, or lost to a fault.
Return(c) == /\ hand[c] \in Events
             /\ hand' = [hand EXCEPT ![c] = None]
             /\ promised' = promised \cup {hand[c]}
             /\ \/ /\ delivered' = delivered \cup {hand[c]}
                   /\ UNCHANGED <<kept, given_up>>
                \/ /\ kept' = kept \cup {hand[c]}
                   /\ UNCHANGED <<delivered, given_up>>
                \/ /\ given_up' = given_up \cup {hand[c]}
                   /\ UNCHANGED <<kept, delivered>>

\* The client dies with its call open: nobody was promised anything.
Abandon(c) == /\ hand[c] \in Events
              /\ hand' = [hand EXCEPT ![c] = None]
              /\ UNCHANGED <<kept, delivered, promised, given_up>>

\* Also a copy of an event given up, which a client still holds.
Deliver(e) == /\ \/ e \in kept \cup given_up
                 \/ \E c \in Clients : hand[c] = e
              /\ delivered' = delivered \cup {e}
              /\ UNCHANGED <<hand, kept, promised, given_up>>

LetGo(e) == /\ e \in kept
            /\ e \in delivered \cup given_up
            /\ kept' = kept \ {e}
            /\ UNCHANGED <<hand, delivered, promised, given_up>>

\* The broker refuses a kept event, or one more copy of a delivered one.
Refuse(e) == /\ e \in kept \cup delivered
             /\ given_up' = given_up \cup {e}
             /\ UNCHANGED <<hand, kept, delivered, promised>>

\* A client takes away what another has kept in the same place; copies may remain.
Displace(e) == /\ Sharing
               /\ e \in kept
               /\ kept' \in {kept, kept \ {e}}
               /\ given_up' = given_up \cup {e}
               /\ UNCHANGED <<hand, delivered, promised>>

ANext == \/ \E c \in Clients : Return(c) \/ Abandon(c)
         \/ \E c \in Clients, e \in Events : Give(c, e)
         \/ \E e \in Events : Deliver(e) \/ LetGo(e) \/ Refuse(e) \/ Displace(e)

ASpec == AInit /\ [][ANext]_avars

==============================================================================
