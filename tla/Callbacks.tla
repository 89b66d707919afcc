------------------------------ MODULE Callbacks ------------------------------
(***************************************************************************)
(* The callbacks of one relation: retia-core/src/runtime/callback.rs and   *)
(* register_callback, unregister_callback of retia-core/src/runtime/db.rs. *)
(*                                                                         *)
(* A session is a script that changes the relation with some statements.   *)
(* It asks for the targets before it begins, and sends what it collected   *)
(* after its commit: for each event it takes the registry for reading and  *)
(* sends to every callback, waiting while a bounded channel is full.       *)
(***************************************************************************)
EXTENDS Naturals, Sequences, FiniteSets

CONSTANTS
    Session,
    NoEntry,    \* no set of callbacks
    MaxId,      \* bound: callbacks ever registered
    Capacity,   \* of the channel of a callback
    CallsCases  \* bounds: records [sessions, events]

ASSUME CallsAssumption ==
    /\ MaxId \in Nat /\ Capacity \in Nat \ {0}
    /\ \A ids \in SUBSET (1..MaxId) : ids # NoEntry
    /\ \A x \in CallsCases : x.sessions \subseteq Session /\ x.events \in Nat

Id == 1..MaxId

VARIABLES
    cases,     \* the sessions, and how many events each of them has
    callback_count,
    cbs,       \* registered callbacks
    dir,       \* the callbacks of the relation in the directory, NoEntry if it has no entry
    receiver,  \* "none" | "open" | "gone"
    sent,      \* what was put into the channel of each callback: [session, event]
    received,  \* how much of it its receiver has taken
    at,        \* of a session: "idle" | "run" | "event" | "send" | "remove" | "done"
    targeted,  \* sessions that collect changes of the relation
    since,     \* the callbacks that were registered when a session began
    event,     \* the event that a session sends
    todo,      \* callbacks that the event is still to be sent to
    to_remove, \* callbacks found disconnected
    over       \* sessions that committed

registry == <<cases, callback_count, cbs, dir>>
channels == <<receiver, sent, received>>
callVars == <<registry, channels, at, targeted, since, event, todo, to_remove, over>>

CallsInit ==
    /\ cases \in CallsCases
    /\ callback_count = 0 /\ cbs = {} /\ dir = NoEntry
    /\ receiver = [i \in Id |-> "none"]
    /\ sent = [i \in Id |-> <<>>]
    /\ received = [i \in Id |-> 0]
    /\ at = [s \in Session |-> "idle"]
    /\ targeted = {}
    /\ since = [s \in Session |-> {}]
    /\ event = [s \in Session |-> 1]
    /\ todo = [s \in Session |-> <<>>]
    /\ to_remove = [s \in Session |-> {}]
    /\ over = {}

Sessions == <<at, targeted, since, event, todo, to_remove, over>>

\* event_callbacks.write(): nobody holds it for reading.
Writable == \A s \in Session : at[s] # "send"

-----------------------------------------------------------------------------

register_callback ==
    /\ Writable
    /\ callback_count < MaxId
    /\ LET i == callback_count + 1
       IN  /\ callback_count' = i
           /\ cbs' = cbs \cup {i}
           /\ dir' = (IF dir = NoEntry THEN {} ELSE dir) \cup {i}
           /\ receiver' = [receiver EXCEPT ![i] = "open"]
    /\ UNCHANGED <<cases, sent, received, Sessions>>

\* Mutant of unregister_callback: the entry of the relation goes with any callback.
unregister_callback_entry(i) ==
    /\ Writable
    /\ i \in cbs
    /\ cbs' = cbs \ {i}
    /\ dir' = NoEntry
    /\ UNCHANGED <<cases, callback_count, channels, Sessions>>

\* The sender goes with the declaration; its receiver may still empty the channel.
unregister_callback(i) ==
    /\ Writable
    /\ i \in cbs
    /\ cbs' = cbs \ {i}
    /\ dir' = IF dir \ {i} = {} THEN NoEntry ELSE dir \ {i}
    /\ UNCHANGED <<cases, callback_count, channels, Sessions>>

\* A send would wait.
Full(i) == Len(sent[i]) >= received[i] + Capacity

receive_event(i) ==
    /\ receiver[i] = "open"
    /\ received[i] < Len(sent[i])
    /\ received' = [received EXCEPT ![i] = @ + 1]
    /\ UNCHANGED <<registry, receiver, sent, Sessions>>

\* What is left in the channel goes with it.
drop_receiver(i) ==
    /\ receiver[i] = "open"
    /\ receiver' = [receiver EXCEPT ![i] = "gone"]
    /\ UNCHANGED <<registry, sent, received, Sessions>>

-----------------------------------------------------------------------------
(* A session                                                               *)

\* current_callback_targets
current_callback_targets(s) ==
    /\ s \in cases.sessions
    /\ at[s] = "idle"
    /\ at' = [at EXCEPT ![s] = "run"]
    /\ targeted' = IF dir = NoEntry THEN targeted ELSE targeted \cup {s}
    /\ since' = [since EXCEPT ![s] = cbs]
    /\ UNCHANGED <<registry, channels, event, todo, to_remove, over>>

\* The statements, commit_tx and the test whether anything was collected.
execute_single(s, ok) ==
    /\ at[s] = "run"
    /\ at' = [at EXCEPT ![s] = IF ok /\ s \in targeted THEN "event" ELSE "done"]
    /\ over' = IF ok THEN over \cup {s} ELSE over
    /\ UNCHANGED <<registry, channels, targeted, since, event, todo, to_remove>>

\* event_callbacks.read(): callbacks in the order of their ids, but the first
\* callback gets the event last.
SendOrders(ids) ==
    LET n == Cardinality(ids)
    IN  {q \in [1..n -> ids] :
           /\ \A i \in ids : \E k \in 1..n : q[k] = i
           /\ \A j, k \in 1..n : j < k => IF k < n THEN q[j] < q[k] ELSE q[k] < q[j]}

next_event(s) ==
    /\ at[s] = "event"
    /\ IF event[s] <= cases.events
         THEN /\ at' = [at EXCEPT ![s] = "send"]
              /\ \E q \in SendOrders(IF dir = NoEntry THEN {} ELSE dir) :
                   todo' = [todo EXCEPT ![s] = q]
         ELSE /\ at' = [at EXCEPT ![s] = IF to_remove[s] = {} THEN "done" ELSE "remove"]
              /\ UNCHANGED todo
    /\ UNCHANGED <<registry, channels, targeted, since, event, to_remove, over>>

send_event(s) ==
    /\ at[s] = "send"
    /\ todo[s] # <<>>
    /\ LET i == Head(todo[s])
       IN  \/ /\ receiver[i] = "open"
              /\ ~Full(i)
              /\ sent' = [sent EXCEPT ![i] = Append(@, [session |-> s, event |-> event[s]])]
              /\ UNCHANGED to_remove
           \/ /\ receiver[i] = "gone"
              /\ to_remove' = [to_remove EXCEPT ![s] = @ \cup {i}]
              /\ UNCHANGED sent
    /\ todo' = [todo EXCEPT ![s] = Tail(@)]
    /\ UNCHANGED <<registry, receiver, received, at, targeted, since, event, over>>

\* The end of an event, where the registry is released.
release_registry(s) ==
    /\ at[s] = "send"
    /\ todo[s] = <<>>
    /\ at' = [at EXCEPT ![s] = "event"]
    /\ event' = [event EXCEPT ![s] = @ + 1]
    /\ UNCHANGED <<registry, channels, targeted, since, todo, to_remove, over>>

\* The entry of the relation stays, even if it is empty.
remove_disconnected(s) ==
    /\ at[s] = "remove"
    /\ Writable
    /\ cbs' = cbs \ to_remove[s]
    /\ dir' = IF dir = NoEntry THEN NoEntry ELSE dir \ to_remove[s]
    /\ to_remove' = [to_remove EXCEPT ![s] = {}]
    /\ at' = [at EXCEPT ![s] = "done"]
    /\ UNCHANGED <<cases, callback_count, channels, targeted, since, event, todo, over>>

CallsStep(s) ==
    \/ current_callback_targets(s) \/ (\E ok \in BOOLEAN : execute_single(s, ok))
    \/ next_event(s) \/ send_event(s) \/ release_registry(s) \/ remove_disconnected(s)

CallsNext ==
    \/ register_callback
    \/ \E i \in Id : unregister_callback(i) \/ receive_event(i) \/ drop_receiver(i)
    \/ \E s \in Session : CallsStep(s)

\* Receivers go on receiving until they are dropped.
CallsSpec ==
    /\ CallsInit /\ [][CallsNext]_callVars
    /\ \A s \in Session : WF_callVars(CallsStep(s))
    /\ \A i \in Id : WF_callVars(receive_event(i))

-----------------------------------------------------------------------------
(* Properties                                                              *)

Message == [session : Session, event : Nat]
CallsTypeOK ==
    /\ cases \in CallsCases
    /\ callback_count \in 0..MaxId
    /\ cbs \subseteq 1..callback_count
    /\ dir = NoEntry \/ dir \subseteq Id
    /\ receiver \in [Id -> {"none", "open", "gone"}]
    /\ sent \in [Id -> Seq(Message)]
    /\ received \in [Id -> Nat]
    /\ \A i \in Id : received[i] <= Len(sent[i]) /\ Len(sent[i]) <= received[i] + Capacity
    /\ at \in [Session -> {"idle", "run", "event", "send", "remove", "done"}]
    /\ targeted \subseteq Session /\ over \subseteq Session
    /\ since \in [Session -> SUBSET (1..callback_count)]
    /\ event \in [Session -> Nat \ {0}]
    /\ \A s \in Session : event[s] <= cases.events + 1
    /\ todo \in [Session -> Seq(Id)]
    /\ to_remove \in [Session -> SUBSET Id]

\* The directory lists exactly the registered callbacks, so that the unwrap in
\* unregister_callback never meets a missing entry.
DirAgrees == cbs = (IF dir = NoEntry THEN {} ELSE dir)

\* A receiver has been sent an event of a session.
Told(i, s, n) == \E k \in 1..Len(sent[i]) : sent[i][k] = [session |-> s, event |-> n]

\* A callback that was registered when a committed session began, and still is
\* with its receiver alive, has every event of the session when the session is
\* over.
ToldAll ==
    \A s \in over : at[s] = "done" =>
       \A i \in since[s] \cap cbs :
          receiver[i] = "open" => \A n \in 1..cases.events : Told(i, s, n)

\* Nobody is told of a session that did not commit, nor of an event that the
\* session does not have.
ToldCommitted ==
    \A i \in Id : \A k \in 1..Len(sent[i]) :
       sent[i][k].session \in over /\ sent[i][k].event \in 1..cases.events

\* The events of a session come in order, none of them twice.
ToldInOrder ==
    \A i \in Id : \A j, k \in 1..Len(sent[i]) :
       j < k /\ sent[i][j].session = sent[i][k].session => sent[i][j].event < sent[i][k].event

\* Callbacks have every event of a committed script once and in order, and
\* none of another (send_callbacks, register_callback, unregister_callback).
ToldExactly == CallsTypeOK /\ DirAgrees /\ ToldAll /\ ToldCommitted /\ ToldInOrder

\* What a session has behind it at each of its steps.
SessionSteps ==
    \A s \in Session :
       /\ at[s] \in {"idle", "run"} => s \notin over /\ event[s] = 1
       /\ at[s] = "run" /\ since[s] # {} => s \in targeted
       /\ at[s] \in {"event", "send", "remove"} => s \in over
       /\ at[s] = "send" => event[s] <= cases.events
       /\ at[s] = "remove" \/ (at[s] = "done" /\ s \in over /\ since[s] # {}) =>
            event[s] = cases.events + 1
       /\ \A j, k \in 1..Len(todo[s]) : todo[s][j] = todo[s][k] => j = k

\* A callback is still to be told the event that is sent, or has been told it.
ToldSoFar ==
    \A s \in over : \A i \in since[s] \cap cbs : receiver[i] = "open" =>
       /\ \A n \in 1..event[s] - 1 : Told(i, s, n)
       /\ at[s] = "send" => Told(i, s, event[s]) \/ \E k \in 1..Len(todo[s]) : todo[s][k] = i

\* What it has been told is of earlier events, or of this one and it is not to be
\* told it again.
Behind(i, s, n) ==
    \/ n < event[s]
    \/ n = event[s] /\ at[s] = "send" /\ \A k \in 1..Len(todo[s]) : todo[s][k] # i
NotAgain ==
    \A i \in Id : \A k \in 1..Len(sent[i]) : Behind(i, sent[i][k].session, sent[i][k].event)

CallsIInv ==
    /\ CallsTypeOK /\ DirAgrees /\ ToldCommitted /\ ToldInOrder
    /\ SessionSteps /\ ToldSoFar /\ NotAgain
=============================================================================
