----------------------------- MODULE Multicast -----------------------------
(***************************************************************************)
(* What the message router of TmxCore promises to its clients, without     *)
(* locks or counters.                                                      *)
(*                                                                         *)
(* A broadcast takes effect at one instant: the set of receivers that are  *)
(* owed the message is fixed by the subscriptions of that instant, each of *)
(* them is called exactly once and nobody else is called.  Subscriptions   *)
(* change only while nothing is owed to anybody, so a receiver that has    *)
(* withdrawn is never called again.                                        *)
(***************************************************************************)
EXTENDS Sequences

CONSTANTS Clients,          \* the MessageRouterClients
          Messages,         \* what may be broadcast
          FilterLists,      \* what may be subscribed with
          Wants(_, _),      \* Wants(filters, msg): the message matches
          Idle              \* "no broadcast under way"

VARIABLES subs,             \* receiver -> the filters it last subscribed with
          flight,           \* sender -> the message being broadcast, or Idle
          owed,             \* sender -> receivers still to be called
          served            \* sender -> receivers called so far, in order

vars == <<subs, flight, owed, served>>

Recipients(s, c, m) == {r \in DOMAIN s \ {c} : Wants(s[r], m)}

Put(f, k, v) == [x \in DOMAIN f \union {k} |-> IF x = k THEN v ELSE f[x]]

Drop(f, k) == [x \in DOMAIN f \ {k} |-> f[x]]

Init ==
    /\ subs = [c \in {} |-> <<>>]
    /\ flight = [c \in Clients |-> Idle]
    /\ owed = [c \in Clients |-> {}]
    /\ served = [c \in Clients |-> <<>>]

Publish(c, m) ==
    /\ flight[c] = Idle
    /\ flight' = [flight EXCEPT ![c] = m]
    /\ owed' = [owed EXCEPT ![c] = Recipients(subs, c, m)]
    /\ UNCHANGED <<subs, served>>

Deliver(c, r) ==
    /\ r \in owed[c]
    /\ owed' = [owed EXCEPT ![c] = @ \ {r}]
    /\ served' = [served EXCEPT ![c] = Append(@, r)]
    /\ UNCHANGED <<subs, flight>>

Complete(c) ==
    /\ flight[c] # Idle
    /\ owed[c] = {}
    /\ flight' = [flight EXCEPT ![c] = Idle]
    /\ served' = [served EXCEPT ![c] = <<>>]
    /\ UNCHANGED <<subs, owed>>

Quiet == \A c \in Clients : flight[c] = Idle

Subscribe(c, fs) ==
    /\ Quiet
    /\ subs' = Put(subs, c, fs)
    /\ UNCHANGED <<flight, owed, served>>

Withdraw(c) ==
    /\ Quiet
    /\ subs' = Drop(subs, c)
    /\ UNCHANGED <<flight, owed, served>>

Next ==
    \E c \in Clients :
        \/ \E m \in Messages : Publish(c, m)
        \/ \E r \in Clients : Deliver(c, r)
        \/ Complete(c)
        \/ \E fs \in FilterLists : Subscribe(c, fs)
        \/ Withdraw(c)

Spec == Init /\ [][Next]_vars
=============================================================================
