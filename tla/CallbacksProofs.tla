-------------------------- MODULE CallbacksProofs --------------------------
(***************************************************************************)
(* ToldExactly for any number of sessions, callbacks and events and every  *)
(* capacity of the channels.  CallsIInv is inductive, a lemma per action,  *)
(* and ToldExactly follows: ToldAll speaks of sessions that are over, so   *)
(* that the invariant has to say what a session has told on its way.       *)
(***************************************************************************)
EXTENDS Callbacks, FiniteSetTheorems, TLAPS

\* The provers of every step that does not name its own.
USE SMTT(30), ZenonT(20)

\* Before any callback is registered.
LEMMA CallsInitInv ==
    ASSUME CallsAssumption, CallsInit
    PROVE  CallsIInv
  <1>1. CallsTypeOK
    BY DEF CallsAssumption, CallsInit, CallsTypeOK
  <1>2. DirAgrees /\ ToldCommitted /\ ToldInOrder /\ SessionSteps /\ ToldSoFar /\ NotAgain
    BY DEF CallsInit, DirAgrees, ToldCommitted, ToldInOrder, SessionSteps, ToldSoFar, NotAgain
  <1> QED
    BY <1>1, <1>2 DEF CallsIInv

\* What is registered is in the directory of the relation.
LEMMA DirIs ==
    ASSUME CallsIInv
    PROVE  /\ dir = NoEntry => cbs = {}
           /\ dir # NoEntry => cbs = dir
           /\ cbs \subseteq Id
  <1>1. callback_count \in 0..MaxId /\ cbs \subseteq 1..callback_count
    BY DEF CallsIInv, CallsTypeOK
  <1>2. 1..callback_count \subseteq Id
    BY <1>1, CallsAssumption DEF CallsAssumption, Id
  <1> QED
    BY <1>1, <1>2 DEF CallsIInv, DirAgrees

\* register_callback: the new id is in no list, and no session began with it.
LEMMA RegisterInv ==
    ASSUME CallsAssumption, CallsIInv, register_callback
    PROVE  CallsIInv'
  <1>1. PICK c : c = callback_count + 1
    OBVIOUS
  <1>2. /\ callback_count' = c /\ cbs' = cbs \cup {c}
        /\ dir' = (IF dir = NoEntry THEN {} ELSE dir) \cup {c}
        /\ receiver' = [receiver EXCEPT ![c] = "open"]
        /\ UNCHANGED <<cases, sent, received, at, targeted, since, event, todo, to_remove, over>>
    BY <1>1 DEF register_callback, Sessions
  <1>3. /\ callback_count \in 0..MaxId /\ c \in Id /\ c \notin 1..callback_count
        /\ 1..callback_count \subseteq 1..c /\ c \in 1..c
    BY <1>1, CallsAssumption DEF CallsAssumption, register_callback, CallsIInv, CallsTypeOK, Id
  <1>4. \A i \in Id : i # c => receiver'[i] = receiver[i]
    BY <1>2 DEF CallsIInv, CallsTypeOK
  <1>5. CallsTypeOK'
    <2>1. /\ callback_count' \in 0..MaxId /\ cbs' \subseteq 1..callback_count'
          /\ dir' \subseteq Id
      BY <1>1, <1>2, <1>3, CallsAssumption DEF CallsAssumption, CallsIInv, CallsTypeOK, Id
    <2>2. receiver' \in [Id -> {"none", "open", "gone"}]
      BY <1>2, Zenon DEF CallsIInv, CallsTypeOK
    <2>3. since' \in [Session -> SUBSET (1..callback_count')]
      BY <1>2, <1>3 DEF CallsIInv, CallsTypeOK
    <2> QED
      BY <1>2, <2>1, <2>2, <2>3 DEF CallsIInv, CallsTypeOK
  <1>6. DirAgrees'
    <2>1. dir' = cbs \cup {c} /\ dir' \in SUBSET (1..MaxId)
      BY <1>2, <1>3, DirIs DEF Id
    <2>2. dir' # NoEntry
      BY <2>1, CallsAssumption DEF CallsAssumption
    <2> QED
      BY <1>2, <2>1, <2>2 DEF DirAgrees
  <1>7. ToldCommitted' /\ ToldInOrder' /\ SessionSteps' /\ NotAgain'
    BY <1>2 DEF CallsIInv, ToldCommitted, ToldInOrder, SessionSteps, NotAgain, Behind
  <1>8. ToldSoFar'
    <2> SUFFICES ASSUME NEW s \in over, NEW i \in since[s] \cap cbs', receiver'[i] = "open"
                 PROVE  /\ \A n \in 1..event[s] - 1 : Told(i, s, n)
                        /\ at[s] = "send" => Told(i, s, event[s]) \/ \E k \in 1..Len(todo[s]) : todo[s][k] = i
      BY <1>2 DEF ToldSoFar, Told
    <2>1. s \in Session /\ i \in 1..callback_count /\ i # c
      BY <1>3 DEF CallsIInv, CallsTypeOK
    <2>2. i \in Id /\ i \in cbs
      BY <1>2, <2>1, DirIs
    <2> QED
      BY <1>4, <2>1, <2>2 DEF CallsIInv, ToldSoFar
  <1> QED
    BY <1>5, <1>6, <1>7, <1>8 DEF CallsIInv

\* A callback that goes, by unregister_callback or because its receiver is gone.
LEMMA FewerInv ==
    ASSUME CallsAssumption, CallsIInv, cbs' \subseteq cbs, DirAgrees',
           dir' = NoEntry \/ dir' \subseteq Id,
           UNCHANGED <<cases, callback_count, receiver, sent, received, targeted, since, event, todo, over>>,
           to_remove' \in [Session -> SUBSET Id],
           \/ at' = at
           \/ \E s \in Session : at[s] = "remove" /\ at' = [at EXCEPT ![s] = "done"]
    PROVE  CallsIInv'
  <1>1. /\ at' \in [Session -> {"idle", "run", "event", "send", "remove", "done"}]
        /\ \A s \in Session : at'[s] = at[s] \/ (at[s] = "remove" /\ at'[s] = "done")
    BY Zenon DEF CallsIInv, CallsTypeOK
  <1>2. CallsTypeOK'
    BY <1>1 DEF CallsIInv, CallsTypeOK
  <1>3. ToldCommitted' /\ ToldInOrder'
    BY DEF CallsIInv, ToldCommitted, ToldInOrder
  <1>4. SessionSteps'
    BY <1>1 DEF CallsIInv, SessionSteps
  <1>5. ToldSoFar'
    <2>1. over \subseteq Session
      BY DEF CallsIInv, CallsTypeOK
    <2> QED
      BY <1>1, <2>1 DEF CallsIInv, ToldSoFar, Told
  <1>6. NotAgain'
    <2>1. \A i \in Id : \A k \in 1..Len(sent[i]) : sent[i][k].session \in Session
      BY DEF CallsIInv, ToldCommitted, CallsTypeOK
    <2>2. \A n : \A i \in Id, s \in Session : Behind(i, s, n) => Behind(i, s, n)'
      BY <1>1 DEF Behind
    <2> QED
      BY <2>1, <2>2 DEF CallsIInv, NotAgain
  <1> QED
    BY <1>2, <1>3, <1>4, <1>5, <1>6 DEF CallsIInv

\* unregister_callback, while nobody sends.
LEMMA UnregisterInv ==
    ASSUME CallsAssumption, CallsIInv, NEW i \in Id, unregister_callback(i)
    PROVE  CallsIInv'
  <1>1. /\ i \in cbs /\ cbs' = cbs \ {i}
        /\ dir' = IF dir \ {i} = {} THEN NoEntry ELSE dir \ {i}
        /\ UNCHANGED <<cases, callback_count, receiver, sent, received, at, targeted, since, event,
                       todo, to_remove, over>>
    BY DEF unregister_callback, channels, Sessions
  <1>2. dir # NoEntry /\ cbs = dir /\ dir \subseteq Id
    BY <1>1, DirIs
  <1>3. dir' = NoEntry \/ dir' \subseteq Id
    BY <1>1, <1>2
  <1>4. DirAgrees'
    <2>1. dir \ {i} # NoEntry
      BY <1>2, CallsAssumption DEF CallsAssumption, Id
    <2> QED
      BY <1>1, <1>2, <2>1 DEF DirAgrees
  <1> QED
    BY <1>1, <1>3, <1>4, FewerInv, Zenon DEF CallsIInv, CallsTypeOK

\* remove_disconnected: the receivers of those that go are gone.
LEMMA RemoveInv ==
    ASSUME CallsAssumption, CallsIInv, NEW s \in Session, remove_disconnected(s)
    PROVE  CallsIInv'
  <1>1. /\ at[s] = "remove" /\ cbs' = cbs \ to_remove[s]
        /\ dir' = IF dir = NoEntry THEN NoEntry ELSE dir \ to_remove[s]
        /\ to_remove' = [to_remove EXCEPT ![s] = {}]
        /\ at' = [at EXCEPT ![s] = "done"]
        /\ UNCHANGED <<cases, callback_count, receiver, sent, received, targeted, since, event,
                       todo, over>>
    BY DEF remove_disconnected, channels
  <1>2. dir' = NoEntry \/ dir' \subseteq Id
    BY <1>1 DEF CallsIInv, CallsTypeOK
  <1>3. DirAgrees'
    <2>1. CASE dir = NoEntry
      BY <1>1, <2>1, DirIs DEF DirAgrees
    <2>2. CASE dir # NoEntry
      <3>1. dir \ to_remove[s] # NoEntry
        <4>1. dir \ to_remove[s] \in SUBSET (1..MaxId)
          BY <2>2 DEF CallsIInv, CallsTypeOK, Id
        <4> QED
          BY <4>1, CallsAssumption DEF CallsAssumption
      <3> QED
        BY <1>1, <2>2, <3>1, DirIs DEF DirAgrees
    <2> QED
      BY <2>1, <2>2
  <1>4. to_remove' \in [Session -> SUBSET Id]
    BY <1>1 DEF CallsIInv, CallsTypeOK
  <1> QED
    BY <1>1, <1>2, <1>3, <1>4, FewerInv, Zenon

\* receive_event and drop_receiver: what was sent stays sent.
LEMMA ReceiveInv ==
    ASSUME CallsAssumption, CallsIInv, NEW i \in Id, receive_event(i) \/ drop_receiver(i)
    PROVE  CallsIInv'
  <1>1. /\ UNCHANGED <<cases, callback_count, cbs, dir, sent, at, targeted, since, event, todo,
                       to_remove, over>>
        /\ \/ UNCHANGED receiver /\ received[i] < Len(sent[i])
              /\ received' = [received EXCEPT ![i] = @ + 1]
           \/ UNCHANGED received /\ receiver' = [receiver EXCEPT ![i] = "gone"]
    BY DEF receive_event, drop_receiver, registry, Sessions
  <1>2. CallsTypeOK'
    <2>1. /\ sent \in [Id -> Seq(Message)] /\ received \in [Id -> Nat] /\ Capacity \in Nat
          /\ \A j \in Id : Len(sent[j]) \in Nat
          /\ \A j \in Id : received[j] <= Len(sent[j]) /\ Len(sent[j]) <= received[j] + Capacity
      BY CallsAssumption DEF CallsIInv, CallsTypeOK, CallsAssumption
    <2>2. /\ received' \in [Id -> Nat]
          /\ \A j \in Id : received'[j] <= Len(sent[j]) /\ Len(sent[j]) <= received'[j] + Capacity
      <3>1. CASE UNCHANGED received
        BY <2>1, <3>1
      <3>2. CASE received[i] < Len(sent[i]) /\ received' = [received EXCEPT ![i] = @ + 1]
        <4>1. /\ received'[i] = received[i] + 1
              /\ \A j \in Id : j # i => received'[j] = received[j]
              /\ received' \in [Id -> Nat]
          BY <2>1, <3>2
        <4>2. received'[i] <= Len(sent[i]) /\ Len(sent[i]) <= received'[i] + Capacity
          BY <2>1, <3>2, <4>1
        <4> QED
          BY <2>1, <4>1, <4>2, Zenon
      <3> QED
        BY <1>1, <3>1, <3>2
    <2>3. receiver' \in [Id -> {"none", "open", "gone"}]
      BY <1>1, Zenon DEF CallsIInv, CallsTypeOK
    <2> QED
      BY <1>1, <2>2, <2>3, Zenon DEF CallsIInv, CallsTypeOK
  <1>3. \A j \in Id : receiver'[j] = "open" => receiver[j] = "open"
    BY <1>1 DEF CallsIInv, CallsTypeOK
  <1>4. DirAgrees' /\ ToldCommitted' /\ ToldInOrder' /\ SessionSteps' /\ NotAgain'
    <2>1. DirAgrees' /\ SessionSteps'
      BY <1>1 DEF CallsIInv, DirAgrees, SessionSteps
    <2>2. ToldCommitted' /\ ToldInOrder' /\ NotAgain'
      <3>1. UNCHANGED <<cases, sent, at, event, todo, over>>
        BY <1>1
      <3>2. ToldCommitted' /\ ToldInOrder'
        BY <3>1 DEF CallsIInv, ToldCommitted, ToldInOrder
      <3>3. \A j, s, n : Behind(j, s, n)' <=> Behind(j, s, n)
        BY <3>1 DEF Behind
      <3> QED
        BY <3>1, <3>2, <3>3, Zenon DEF CallsIInv, NotAgain
    <2> QED
      BY <2>1, <2>2
  <1>5. ToldSoFar'
    <2>1. cbs \subseteq Id
      BY DirIs
    <2> QED
      BY <1>1, <1>3, <2>1 DEF CallsIInv, ToldSoFar, Told
  <1> QED
    BY <1>2, <1>4, <1>5 DEF CallsIInv

\* What a session is told before it sends: whoever has been told of it has been
\* told of it by a session that is over.
LEMMA NotBehind ==
    ASSUME CallsIInv, NEW s \in Session,
           UNCHANGED <<sent, event, todo>>, \A p \in Session : p # s => at'[p] = at[p],
           at[s] # "send"
    PROVE  NotAgain'
  <1>1. \A i \in Id : \A k \in 1..Len(sent[i]) : sent[i][k].session \in Session
    BY DEF CallsIInv, ToldCommitted, CallsTypeOK
  <1>2. \A n : \A i \in Id, p \in Session : Behind(i, p, n) => Behind(i, p, n)'
    BY DEF Behind
  <1> QED
    BY <1>1, <1>2 DEF CallsIInv, NotAgain

\* current_callback_targets: whoever is registered is in the directory, so the session
\* collects.
LEMMA CollectInv ==
    ASSUME CallsAssumption, CallsIInv, NEW s \in Session, current_callback_targets(s)
    PROVE  CallsIInv'
  <1>1. /\ at[s] = "idle" /\ at' = [at EXCEPT ![s] = "run"]
        /\ targeted' = IF dir = NoEntry THEN targeted ELSE targeted \cup {s}
        /\ since' = [since EXCEPT ![s] = cbs]
        /\ UNCHANGED <<cases, callback_count, cbs, dir, receiver, sent, received, event, todo,
                       to_remove, over>>
    BY DEF current_callback_targets, registry, channels
  <1>2. /\ at'[s] = "run" /\ since'[s] = cbs
        /\ \A p \in Session : p # s => at'[p] = at[p] /\ since'[p] = since[p]
    BY <1>1, Zenon DEF CallsIInv, CallsTypeOK
  <1>3. CallsTypeOK'
    BY <1>1, Zenon DEF CallsIInv, CallsTypeOK
  <1>4. DirAgrees' /\ ToldCommitted' /\ ToldInOrder'
    BY <1>1, Zenon DEF CallsIInv, DirAgrees, ToldCommitted, ToldInOrder
  <1>5. s \notin over /\ event[s] = 1
    BY <1>1, Zenon DEF CallsIInv, SessionSteps
  <1>6. SessionSteps'
    <2>1. targeted \subseteq targeted' /\ (cbs # {} => s \in targeted')
      BY <1>1, DirIs, Zenon
    <2> QED
      BY <1>1, <1>2, <1>5, <2>1 DEF CallsIInv, SessionSteps
  <1>7. ToldSoFar'
    <2>1. over \subseteq Session
      BY DEF CallsIInv, CallsTypeOK
    <2> QED
      BY <1>1, <1>2, <1>5, <2>1 DEF CallsIInv, ToldSoFar, Told
  <1>8. NotAgain'
    BY <1>1, <1>2, NotBehind
  <1> QED
    BY <1>3, <1>4, <1>6, <1>7, <1>8 DEF CallsIInv

\* execute_single: a session that commits and does not send has nobody to tell.
LEMMA ExecuteInv ==
    ASSUME CallsAssumption, CallsIInv, NEW s \in Session, NEW ok \in BOOLEAN, execute_single(s, ok)
    PROVE  CallsIInv'
  <1>1. /\ at[s] = "run"
        /\ at' = [at EXCEPT ![s] = IF ok /\ s \in targeted THEN "event" ELSE "done"]
        /\ over' = IF ok THEN over \cup {s} ELSE over
        /\ UNCHANGED <<cases, callback_count, cbs, dir, receiver, sent, received, targeted, since,
                       event, todo, to_remove>>
    BY DEF execute_single, registry, channels
  <1>2. /\ \/ at'[s] = "event" /\ s \in over' /\ s \in targeted
           \/ at'[s] = "done" /\ (s \in over' => s \in over \/ s \notin targeted)
        /\ \A p \in Session : p # s => at'[p] = at[p] /\ (p \in over' <=> p \in over)
        /\ over \subseteq over' /\ over' \subseteq Session
    BY <1>1, Zenon DEF CallsIInv, CallsTypeOK
  <1>3. CallsTypeOK'
    BY <1>1, <1>2, Zenon DEF CallsIInv, CallsTypeOK
  <1>4. DirAgrees' /\ ToldCommitted' /\ ToldInOrder'
    BY <1>1, <1>2, Zenon DEF CallsIInv, DirAgrees, ToldCommitted, ToldInOrder
  <1>5. s \notin over /\ event[s] = 1 /\ (since[s] # {} => s \in targeted)
    BY <1>1, Zenon DEF CallsIInv, SessionSteps
  <1>6. SessionSteps'
    BY <1>1, <1>2, <1>5 DEF CallsIInv, SessionSteps
  <1>7. ToldSoFar'
    <2> SUFFICES ASSUME NEW p \in over', NEW i \in since[p] \cap cbs, receiver[i] = "open"
                 PROVE  /\ \A n \in 1..event[p] - 1 : Told(i, p, n)
                        /\ at'[p] = "send" => Told(i, p, event[p]) \/ \E k \in 1..Len(todo[p]) : todo[p][k] = i
      BY <1>1 DEF ToldSoFar, Told
    <2>1. CASE p = s
      BY <1>2, <1>5, <2>1
    <2>2. CASE p # s
      BY <1>2, <2>2, Zenon DEF CallsIInv, ToldSoFar
    <2> QED
      BY <2>1, <2>2, Zenon
  <1>8. NotAgain'
    BY <1>1, <1>2, NotBehind
  <1> QED
    BY <1>3, <1>4, <1>6, <1>7, <1>8 DEF CallsIInv

\* An order in which an event is sent names every callback of the relation once.
LEMMA OrderIs ==
    ASSUME CallsAssumption, NEW ids \in SUBSET Id, NEW q \in SendOrders(ids)
    PROVE  /\ q \in Seq(Id)
           /\ \A i \in ids : \E k \in 1..Len(q) : q[k] = i
           /\ \A j, k \in 1..Len(q) : q[j] = q[k] => j = k
  <1>1. PICK n : n = Cardinality(ids)
    OBVIOUS
  <1>2. n \in Nat
    <2>1. MaxId \in Int /\ 1 \in Int
      BY DEF CallsAssumption
    <2>2. IsFiniteSet(Id)
      BY <2>1, FS_Interval DEF Id
    <2>3. IsFiniteSet(ids)
      BY <2>2, FS_Subset
    <2> QED
      BY <1>1, <2>3, FS_CardinalityType
  <1>3. /\ q \in [1..n -> ids]
        /\ \A i \in ids : \E k \in 1..n : q[k] = i
        /\ \A j, k \in 1..n : j < k => IF k < n THEN q[j] < q[k] ELSE q[k] < q[j]
    BY <1>1 DEF SendOrders
  <1>4. q \in Seq(Id) /\ Len(q) = n
    BY <1>2, <1>3
  <1>5. \A j \in 1..n : q[j] \in Nat
    <2>1. Id \subseteq Nat
      BY DEF Id, CallsAssumption
    <2> QED
      BY <1>3, <2>1, Zenon
  <1>6. \A j, k \in 1..n : j < k => q[j] # q[k]
    BY <1>3, <1>5
  <1>7. \A j, k \in 1..n : j < k \/ k < j \/ j = k
    BY <1>2
  <1>8. \A j, k \in 1..n : q[j] = q[k] => j = k
    BY <1>6, <1>7, Zenon
  <1> QED
    BY <1>3, <1>4, <1>8

\* next_event: every callback of the relation is on the list of the event, once.
LEMMA NextEventInv ==
    ASSUME CallsAssumption, CallsIInv, NEW s \in Session, next_event(s)
    PROVE  CallsIInv'
  <1>1. /\ at[s] = "event"
        /\ UNCHANGED <<cases, callback_count, cbs, dir, receiver, sent, received, targeted, since,
                       event, to_remove, over>>
    BY Zenon DEF next_event, registry, channels
  <1>2. DirAgrees' /\ ToldCommitted' /\ ToldInOrder'
    BY <1>1, Zenon DEF CallsIInv, DirAgrees, ToldCommitted, ToldInOrder
  <1>3. s \in over /\ over \subseteq Session
    BY <1>1 DEF CallsIInv, SessionSteps, CallsTypeOK
  <1>4. CASE event[s] <= cases.events
    <2>1. /\ at' = [at EXCEPT ![s] = "send"]
          /\ \E q \in SendOrders(cbs) : todo' = [todo EXCEPT ![s] = q]
      BY <1>4 DEF next_event, CallsIInv, DirAgrees
    <2>2. PICK q \in SendOrders(cbs) : todo' = [todo EXCEPT ![s] = q]
      BY <2>1, Zenon
    <2>3. /\ q \in Seq(Id)
          /\ \A i \in cbs : \E k \in 1..Len(q) : q[k] = i
          /\ \A j, k \in 1..Len(q) : q[j] = q[k] => j = k
      BY DirIs, OrderIs, Zenon
    <2>4. /\ at'[s] = "send" /\ todo'[s] = q
          /\ \A p \in Session : p # s => at'[p] = at[p] /\ todo'[p] = todo[p]
      BY <2>1, <2>2, Zenon DEF CallsIInv, CallsTypeOK
    <2>5. CallsTypeOK'
      BY <1>1, <2>1, <2>2, <2>3, Zenon DEF CallsIInv, CallsTypeOK
    <2>6. SessionSteps'
      BY <1>1, <1>3, <1>4, <2>3, <2>4 DEF CallsIInv, SessionSteps
    <2>7. ToldSoFar'
      <3> SUFFICES ASSUME NEW p \in over, NEW i \in since[p] \cap cbs, receiver[i] = "open"
                   PROVE  /\ \A n \in 1..event[p] - 1 : Told(i, p, n)
                          /\ at'[p] = "send" => \/ Told(i, p, event[p])
                                                \/ \E k \in 1..Len(todo'[p]) : todo'[p][k] = i
        BY <1>1 DEF ToldSoFar, Told
      <3> QED
        BY <1>3, <2>3, <2>4 DEF CallsIInv, ToldSoFar
    <2>8. NotAgain'
      <3>1. \A i \in Id : \A k \in 1..Len(sent[i]) : sent[i][k].session \in Session
        BY Zenon DEF CallsIInv, ToldCommitted, CallsTypeOK
      <3>2. \A n : \A i \in Id, p \in Session : Behind(i, p, n) => Behind(i, p, n)'
        BY <1>1, <2>4 DEF Behind
      <3> QED
        BY <1>1, <3>1, <3>2, Zenon DEF CallsIInv, NotAgain
    <2> QED
      BY <1>2, <2>5, <2>6, <2>7, <2>8 DEF CallsIInv
  <1>5. CASE ~(event[s] <= cases.events)
    <2>1. /\ at' = [at EXCEPT ![s] = IF to_remove[s] = {} THEN "done" ELSE "remove"]
          /\ UNCHANGED todo
      BY <1>5 DEF next_event
    <2>2. /\ at'[s] \in {"done", "remove"}
          /\ \A p \in Session : p # s => at'[p] = at[p]
      BY <2>1 DEF CallsIInv, CallsTypeOK
    <2>3. event[s] = cases.events + 1
      <3>1. event[s] \in Nat /\ cases.events \in Nat /\ event[s] <= cases.events + 1
        BY CallsAssumption, Zenon DEF CallsIInv, CallsTypeOK, CallsAssumption
      <3> QED
        BY <1>5, <3>1
    <2>4. CallsTypeOK'
      BY <1>1, <2>1, <2>2, Zenon DEF CallsIInv, CallsTypeOK
    <2>5. SessionSteps'
      BY <1>1, <1>3, <2>1, <2>2, <2>3 DEF CallsIInv, SessionSteps
    <2>6. ToldSoFar'
      BY <1>1, <1>3, <2>1, <2>2 DEF CallsIInv, ToldSoFar, Told
    <2>7. NotAgain'
      BY <1>1, <2>1, <2>2, NotBehind, Zenon
    <2> QED
      BY <1>2, <2>4, <2>5, <2>6, <2>7 DEF CallsIInv
  <1> QED
    BY <1>4, <1>5

\* release_registry: with an empty list the event has been told.
LEMMA ReleaseInv ==
    ASSUME CallsAssumption, CallsIInv, NEW s \in Session, release_registry(s)
    PROVE  CallsIInv'
  <1>1. /\ at[s] = "send" /\ todo[s] = <<>>
        /\ at' = [at EXCEPT ![s] = "event"] /\ event' = [event EXCEPT ![s] = @ + 1]
        /\ UNCHANGED <<cases, callback_count, cbs, dir, receiver, sent, received, targeted, since,
                       todo, to_remove, over>>
    BY Zenon DEF release_registry, registry, channels
  <1>2. /\ at'[s] = "event" /\ event'[s] = event[s] + 1 /\ Len(todo[s]) = 0
        /\ \A p \in Session : p # s => at'[p] = at[p] /\ event'[p] = event[p]
        /\ event[s] \in Nat \ {0} /\ cases.events \in Nat
    BY <1>1, CallsAssumption, Zenon DEF CallsIInv, CallsTypeOK, CallsAssumption
  <1>3. s \in over /\ event[s] <= cases.events /\ over \subseteq Session
    BY <1>1, Zenon DEF CallsIInv, SessionSteps, CallsTypeOK
  <1>4. CallsTypeOK'
    <2>1. \A p \in Session : event'[p] <= cases.events + 1
      <3>1. \A p \in Session : event[p] <= cases.events + 1
        BY DEF CallsIInv, CallsTypeOK
      <3>2. event[s] + 1 <= cases.events + 1
        BY <1>2, <1>3
      <3> QED
        BY <1>2, <3>1, <3>2, Zenon
    <2>2. event' \in [Session -> Nat \ {0}]
      BY <1>1 DEF CallsIInv, CallsTypeOK
    <2>3. at' \in [Session -> {"idle", "run", "event", "send", "remove", "done"}]
      BY <1>1, Zenon DEF CallsIInv, CallsTypeOK
    <2> QED
      BY <1>1, <2>1, <2>2, <2>3, Zenon DEF CallsIInv, CallsTypeOK
  <1>5. DirAgrees' /\ ToldCommitted' /\ ToldInOrder'
    BY <1>1, Zenon DEF CallsIInv, DirAgrees, ToldCommitted, ToldInOrder
  <1>6. SessionSteps'
    BY <1>1, <1>2, <1>3 DEF CallsIInv, SessionSteps
  <1>7. ToldSoFar'
    <2> SUFFICES ASSUME NEW p \in over, NEW i \in since[p] \cap cbs, receiver[i] = "open"
                 PROVE  /\ \A n \in 1..event'[p] - 1 : Told(i, p, n)
                        /\ at'[p] = "send" => \/ Told(i, p, event'[p])
                                              \/ \E k \in 1..Len(todo[p]) : todo[p][k] = i
      BY <1>1 DEF ToldSoFar, Told
    <2>1. /\ \A n \in 1..event[p] - 1 : Told(i, p, n)
          /\ at[p] = "send" => \/ Told(i, p, event[p])
                               \/ \E k \in 1..Len(todo[p]) : todo[p][k] = i
      BY Zenon DEF CallsIInv, ToldSoFar
    <2>2. CASE p = s
      <3>1. Told(i, s, event[s])
        BY <1>1, <1>2, <2>1, <2>2
      <3>2. \A n \in 1..event[s] : n \in 1..event[s] - 1 \/ n = event[s]
        BY <1>2
      <3> QED
        BY <1>2, <2>1, <2>2, <3>1, <3>2
    <2>3. CASE p # s
      BY <1>2, <1>3, <2>1, <2>3, Zenon
    <2> QED
      BY <2>2, <2>3, Zenon
  <1>8. NotAgain'
    <2>1. \A i \in Id : \A k \in 1..Len(sent[i]) : /\ sent[i][k].session \in Session
                                                   /\ sent[i][k].event \in Nat
      BY DEF CallsIInv, ToldCommitted, CallsTypeOK
    <2>2. \A i \in Id, p \in Session, n \in Nat : Behind(i, p, n) => Behind(i, p, n)'
      BY <1>1, <1>2 DEF Behind
    <2> QED
      BY <1>1, <2>1, <2>2, Zenon DEF CallsIInv, NotAgain
  <1> QED
    BY <1>4, <1>5, <1>6, <1>7, <1>8 DEF CallsIInv

\* send_event: the callback has not been told this event, and is told no later one before.
LEMMA SendInv ==
    ASSUME CallsAssumption, CallsIInv, NEW s \in Session, send_event(s)
    PROVE  CallsIInv'
  <1>1. PICK c : c = Head(todo[s])
    OBVIOUS
  <1>2. PICK m : m = [session |-> s, event |-> event[s]]
    BY Zenon
  <1>3. /\ at[s] = "send" /\ todo[s] # <<>> /\ todo' = [todo EXCEPT ![s] = Tail(@)]
        /\ \/ /\ receiver[c] = "open" /\ ~Full(c)
              /\ sent' = [sent EXCEPT ![c] = Append(@, m)]
              /\ UNCHANGED to_remove
           \/ /\ receiver[c] = "gone"
              /\ to_remove' = [to_remove EXCEPT ![s] = @ \cup {c}]
              /\ UNCHANGED sent
    BY <1>1, <1>2, Zenon DEF send_event
  <1>4. UNCHANGED <<cases, callback_count, cbs, dir, receiver, received, at, targeted, since, event, over>>
    BY DEF send_event, registry
  <1>5. /\ todo[s] \in Seq(Id) /\ Tail(todo[s]) \in Seq(Id) /\ c \in Id
        /\ Len(todo[s]) \in Nat /\ Len(Tail(todo[s])) = Len(todo[s]) - 1 /\ c = todo[s][1]
        /\ \A k \in 1..Len(Tail(todo[s])) : Tail(todo[s])[k] = todo[s][k + 1] /\ k + 1 \in 1..Len(todo[s])
        /\ 1 \in 1..Len(todo[s])
    <2>1. todo[s] \in Seq(Id) /\ todo[s] # <<>>
      BY <1>3, Zenon DEF CallsIInv, CallsTypeOK
    <2> QED
      BY <1>1, <2>1
  <1>6. todo'[s] = Tail(todo[s]) /\ \A p \in Session : p # s => todo'[p] = todo[p]
    BY <1>3, Zenon DEF CallsIInv, CallsTypeOK
  <1>7. /\ \A j, k \in 1..Len(todo[s]) : todo[s][j] = todo[s][k] => j = k
        /\ s \in over /\ event[s] <= cases.events /\ event[s] \in Nat \ {0} /\ cases.events \in Nat
    BY <1>3, CallsAssumption, Zenon DEF CallsIInv, SessionSteps, CallsTypeOK, CallsAssumption
  <1>8. m \in Message /\ m.session = s /\ m.event = event[s]
    BY <1>2, <1>7 DEF Message
  \* A callback is to be told an event once.
  <1>9. \A k \in 1..Len(todo'[s]) : todo'[s][k] # c
    <2> SUFFICES ASSUME NEW k \in 1..Len(Tail(todo[s])) PROVE Tail(todo[s])[k] # c
      BY <1>6
    <2>1. k + 1 # 1 /\ k \in Nat
      BY <1>5
    <2> QED
      BY <1>5, <1>7, <2>1, Zenon
  \* What was to be told and is not any more is what has just been sent.
  <1>10. \A i \in Id : i # c => ((\E k \in 1..Len(todo[s]) : todo[s][k] = i) =>
                                  \E k \in 1..Len(todo'[s]) : todo'[s][k] = i)
    <2> SUFFICES ASSUME NEW i \in Id, i # c, NEW k \in 1..Len(todo[s]), todo[s][k] = i
                 PROVE  \E j \in 1..Len(Tail(todo[s])) : Tail(todo[s])[j] = i
      BY <1>6
    <2>1. k # 1
      BY <1>5
    <2>2. k - 1 \in 1..Len(Tail(todo[s])) /\ k = (k - 1) + 1
      BY <1>5, <2>1
    <2> QED
      BY <1>5, <2>2, Zenon
  <1>11. SessionSteps'
    <2>1. \A j, k \in 1..Len(todo'[s]) : todo'[s][j] = todo'[s][k] => j = k
      <3> SUFFICES ASSUME NEW j \in 1..Len(Tail(todo[s])), NEW k \in 1..Len(Tail(todo[s])),
                          Tail(todo[s])[j] = Tail(todo[s])[k]
                   PROVE  j = k
        BY <1>6
      <3>1. j + 1 = k + 1
        BY <1>5, <1>7
      <3> QED
        BY <1>5, <3>1
    <2> QED
      BY <1>4, <1>6, <2>1, Zenon DEF CallsIInv, SessionSteps
  <1>12. DirAgrees'
    BY <1>4 DEF CallsIInv, DirAgrees
  <1>13. todo' \in [Session -> Seq(Id)]
    BY <1>3, <1>5 DEF CallsIInv, CallsTypeOK
  \* Who has not been told has not been told.
  <1>14. \A i \in Id, p \in Session, n \in Nat : Behind(i, p, n) => Behind(i, p, n)'
    <2>1. \A i \in Id : (\A k \in 1..Len(todo[s]) : todo[s][k] # i) =>
                          \A k \in 1..Len(todo'[s]) : todo'[s][k] # i
      BY <1>5, <1>6
    <2> QED
      BY <1>4, <1>6, <2>1, Zenon DEF Behind
  <1>15. \A i \in Id : \A k \in 1..Len(sent[i]) : /\ sent[i][k].session \in Session
                                                  /\ sent[i][k].event \in Nat
    BY DEF CallsIInv, ToldCommitted, CallsTypeOK
  <1>16. CASE receiver[c] = "gone" /\ UNCHANGED sent /\ to_remove' = [to_remove EXCEPT ![s] = @ \cup {c}]
    <2>1. to_remove' \in [Session -> SUBSET Id]
      BY <1>5, <1>16, Zenon DEF CallsIInv, CallsTypeOK
    <2>2. CallsTypeOK'
      BY <1>4, <1>13, <1>16, <2>1, Zenon DEF CallsIInv, CallsTypeOK
    <2>3. ToldCommitted' /\ ToldInOrder'
      BY <1>4, <1>16, Zenon DEF CallsIInv, ToldCommitted, ToldInOrder
    <2>4. ToldSoFar'
      <3> SUFFICES ASSUME NEW p \in over, NEW i \in since[p] \cap cbs, receiver[i] = "open"
                   PROVE  /\ \A n \in 1..event[p] - 1 : Told(i, p, n)
                          /\ at[p] = "send" => \/ Told(i, p, event[p])
                                               \/ \E k \in 1..Len(todo'[p]) : todo'[p][k] = i
        BY <1>4, <1>16 DEF ToldSoFar, Told
      <3>1. i # c /\ i \in Id /\ p \in Session
        BY <1>16, DirIs, Zenon DEF CallsIInv, CallsTypeOK
      <3>2. /\ \A n \in 1..event[p] - 1 : Told(i, p, n)
            /\ at[p] = "send" => Told(i, p, event[p]) \/ \E k \in 1..Len(todo[p]) : todo[p][k] = i
        BY Zenon DEF CallsIInv, ToldSoFar
      <3>3. CASE p = s
        BY <1>10, <3>1, <3>2, <3>3, Zenon
      <3>4. CASE p # s
        BY <1>6, <3>1, <3>2, <3>4, Zenon
      <3> QED
        BY <3>3, <3>4, Zenon
    <2>5. NotAgain'
      BY <1>14, <1>15, <1>16 DEF CallsIInv, NotAgain
    <2> QED
      BY <1>11, <1>12, <2>2, <2>3, <2>4, <2>5, Zenon DEF CallsIInv
  <1>17. CASE ~Full(c) /\ sent' = [sent EXCEPT ![c] = Append(@, m)] /\ UNCHANGED to_remove
    <2>1. /\ sent[c] \in Seq(Message) /\ Len(sent[c]) \in Nat
          /\ sent \in [Id -> Seq(Message)]
      BY <1>5 DEF CallsIInv, CallsTypeOK
    <2>2. /\ sent'[c] = Append(sent[c], m) /\ \A i \in Id : i # c => sent'[i] = sent[i]
      BY <1>5, <1>17, <2>1, Zenon
    <2>3. /\ Append(sent[c], m) \in Seq(Message) /\ Len(Append(sent[c], m)) = Len(sent[c]) + 1
          /\ \A k \in 1..Len(sent[c]) : Append(sent[c], m)[k] = sent[c][k]
          /\ Append(sent[c], m)[Len(sent[c]) + 1] = m
      BY <1>8, <2>1
    \* The channel of a callback: what it had, and the event at its end.
    <2>4. /\ Len(sent'[c]) = Len(sent[c]) + 1 /\ sent'[c][Len(sent[c]) + 1] = m
          /\ \A i \in Id : \A k \in 1..Len(sent[i]) : k \in 1..Len(sent'[i]) /\ sent'[i][k] = sent[i][k]
          /\ \A i \in Id : \A k \in 1..Len(sent'[i]) :
               \/ k \in 1..Len(sent[i])
               \/ i = c /\ k = Len(sent[c]) + 1
      BY <2>1, <2>2, <2>3
    <2>5. CallsTypeOK'
      <3>1. sent' \in [Id -> Seq(Message)]
        BY <1>17, <2>1, <2>3, Zenon
      <3>2. /\ \A i \in Id : received[i] <= Len(sent[i]) /\ Len(sent[i]) <= received[i] + Capacity
            /\ received[c] \in Nat /\ Capacity \in Nat
        BY <1>5, CallsAssumption, Zenon DEF CallsIInv, CallsTypeOK, CallsAssumption
      <3>3. received[c] <= Len(sent'[c]) /\ Len(sent'[c]) <= received[c] + Capacity
        BY <1>17, <2>1, <2>4, <3>2 DEF Full
      <3>4. \A i \in Id : received[i] <= Len(sent'[i]) /\ Len(sent'[i]) <= received[i] + Capacity
        BY <2>2, <3>2, <3>3, Zenon
      <3> QED
        BY <1>4, <1>13, <1>17, <3>1, <3>4, Zenon DEF CallsIInv, CallsTypeOK
    <2>6. ToldCommitted'
      <3> SUFFICES ASSUME NEW i \in Id, NEW k \in 1..Len(sent'[i])
                   PROVE  sent'[i][k].session \in over /\ sent'[i][k].event \in 1..cases.events
        BY <1>4, Zenon DEF ToldCommitted
      <3>1. CASE k \in 1..Len(sent[i])
        BY <2>4, <3>1, Zenon DEF CallsIInv, ToldCommitted
      <3>2. CASE i = c /\ k = Len(sent[c]) + 1
        BY <1>7, <1>8, <2>4, <3>2
      <3> QED
        BY <2>4, <3>1, <3>2, Zenon
    \* The events that it has been told of the session are earlier ones.
    <2>7. \A k \in 1..Len(sent[c]) : sent[c][k].session = s => sent[c][k].event < event[s]
      <3> SUFFICES ASSUME NEW k \in 1..Len(sent[c]), sent[c][k].session = s
                   PROVE  sent[c][k].event < event[s]
        BY Zenon
      <3>1. Behind(c, s, sent[c][k].event)
        BY <1>5, Zenon DEF CallsIInv, NotAgain
      <3> QED
        BY <1>5, <3>1 DEF Behind
    <2>8. ToldInOrder'
      <3> SUFFICES ASSUME NEW i \in Id, NEW j \in 1..Len(sent'[i]), NEW k \in 1..Len(sent'[i]),
                          j < k, sent'[i][j].session = sent'[i][k].session
                   PROVE  sent'[i][j].event < sent'[i][k].event
        BY DEF ToldInOrder
      <3>1. CASE k \in 1..Len(sent[i])
        <4>1. j \in 1..Len(sent[i])
          BY <2>1, <3>1
        <4> QED
          BY <2>4, <3>1, <4>1, Zenon DEF CallsIInv, ToldInOrder
      <3>2. CASE i = c /\ k = Len(sent[c]) + 1
        <4>1. j \in 1..Len(sent[c])
          BY <2>1, <2>4, <3>2
        <4> QED
          BY <1>8, <2>4, <2>7, <3>2, <4>1, Zenon
      <3> QED
        BY <2>4, <3>1, <3>2, Zenon
    <2>9. \A p, n : \A i \in Id : Told(i, p, n) => Told(i, p, n)'
      BY <2>4, Zenon DEF Told
    <2>10. Told(c, s, event[s])'
      <3>1. Len(sent[c]) + 1 \in 1..Len(sent'[c])
        BY <2>1, <2>4
      <3> QED
        BY <1>2, <1>4, <2>4, <3>1, Zenon DEF Told
    <2>11. ToldSoFar'
      <3> SUFFICES ASSUME NEW p \in over, NEW i \in since[p] \cap cbs, receiver[i] = "open"
                   PROVE  /\ \A n \in 1..event[p] - 1 : Told(i, p, n)'
                          /\ at[p] = "send" => \/ Told(i, p, event[p])'
                                               \/ \E k \in 1..Len(todo'[p]) : todo'[p][k] = i
        BY <1>4, Zenon DEF ToldSoFar
      <3>1. i \in Id /\ p \in Session
        BY DirIs, Zenon DEF CallsIInv, CallsTypeOK
      <3>2. /\ \A n \in 1..event[p] - 1 : Told(i, p, n)
            /\ at[p] = "send" => Told(i, p, event[p]) \/ \E k \in 1..Len(todo[p]) : todo[p][k] = i
        BY DEF CallsIInv, ToldSoFar
      <3>3. event'[p] = event[p]
        BY <1>4
      <3>4. CASE p = s /\ i = c
        BY <2>9, <2>10, <3>1, <3>2, <3>4, Zenon
      <3>5. CASE p = s /\ i # c
        BY <1>10, <2>9, <3>1, <3>2, <3>3, <3>5, Zenon
      <3>6. CASE p # s
        BY <1>6, <2>9, <3>1, <3>2, <3>3, <3>6, Zenon
      <3> QED
        BY <3>4, <3>5, <3>6, Zenon
    <2>12. NotAgain'
      <3> SUFFICES ASSUME NEW i \in Id, NEW k \in 1..Len(sent'[i])
                   PROVE  Behind(i, sent[i][k].session, sent[i][k].event)'
        BY Zenon DEF NotAgain
      <3>1. CASE k \in 1..Len(sent[i])
        <4>1. Behind(i, sent[i][k].session, sent[i][k].event)
          BY <3>1 DEF CallsIInv, NotAgain
        <4>2. PICK p \in Session, n \in Nat : p = sent[i][k].session /\ n = sent[i][k].event
          BY <1>15, <3>1
        <4>3. Behind(i, p, n)'
          BY <1>14, <4>1, <4>2
        <4> QED
          BY <2>4, <3>1, <4>2, <4>3 DEF Behind
      <3>2. CASE i = c /\ k = Len(sent[c]) + 1
        BY <1>3, <1>4, <1>8, <1>9, <2>4, <3>2, Zenon DEF Behind
      <3> QED
        BY <2>4, <3>1, <3>2, Zenon
    <2> QED
      BY <1>11, <1>12, <2>5, <2>6, <2>8, <2>11, <2>12, Zenon DEF CallsIInv
  <1> QED
    BY <1>3, <1>16, <1>17

\* What is told in the course of a session is all that is told when it is over.
LEMMA ToldHolds == CallsIInv => ToldExactly
  <1> SUFFICES ASSUME CallsIInv PROVE ToldAll
    BY DEF CallsIInv, ToldExactly
  <1> SUFFICES ASSUME NEW s \in over, at[s] = "done", NEW i \in since[s] \cap cbs,
                      receiver[i] = "open", NEW n \in 1..cases.events
               PROVE  Told(i, s, n)
    BY Zenon DEF ToldAll
  <1>1. event[s] = cases.events + 1 /\ cases.events \in Nat
    BY CallsAssumption DEF CallsIInv, SessionSteps, CallsTypeOK, CallsAssumption
  <1>2. n \in 1..event[s] - 1
    BY <1>1
  <1> QED
    BY <1>2 DEF CallsIInv, ToldSoFar

\* However callbacks come and go while scripts run, commit and send, a callback
\* has every event of a committed script once and in order, and none of another,
\* and the directory of the relation lists the registered callbacks
\* (send_callbacks, register_callback, unregister_callback): for any number of
\* callbacks, of scripts and of their events, and any capacity of the channels.
THEOREM CallbacksTheorem == CallsSpec => []ToldExactly
  <1>1. CallsInit => CallsIInv
    BY CallsAssumption, CallsInitInv
  <1>2. CallsIInv /\ [CallsNext]_callVars => CallsIInv'
    <2> SUFFICES ASSUME CallsIInv, [CallsNext]_callVars PROVE CallsIInv'
      OBVIOUS
    <2>1. CASE register_callback
      BY <2>1, CallsAssumption, RegisterInv, Zenon
    <2>2. ASSUME NEW i \in Id, unregister_callback(i) \/ receive_event(i) \/ drop_receiver(i)
          PROVE  CallsIInv'
      BY <2>2, CallsAssumption, UnregisterInv, ReceiveInv, Zenon
    <2>3. ASSUME NEW s \in Session, CallsStep(s) PROVE CallsIInv'
      BY <2>3, CallsAssumption, CollectInv, ExecuteInv, NextEventInv, SendInv, ReleaseInv, RemoveInv
         DEF CallsStep
    <2>4. CASE UNCHANGED callVars
      <3>1. UNCHANGED <<cases, callback_count, cbs, dir, receiver, sent, received, at, targeted, since,
                        event, todo, to_remove, over>>
        BY <2>4, Zenon DEF callVars, registry, channels
      <3>2. CallsTypeOK' /\ DirAgrees' /\ SessionSteps'
        BY <3>1, Zenon DEF CallsIInv, CallsTypeOK, DirAgrees, SessionSteps
      <3>3. ToldCommitted' /\ ToldInOrder'
        BY <3>1, Zenon DEF CallsIInv, ToldCommitted, ToldInOrder
      <3>4. ToldSoFar'
        BY <3>1 DEF CallsIInv, ToldSoFar, Told
      <3>5. \A i, s, n : Behind(i, s, n)' <=> Behind(i, s, n)
        BY <3>1, Zenon DEF Behind
      <3>6. NotAgain'
        BY <3>1, <3>5 DEF CallsIInv, NotAgain
      <3> QED
        BY <3>2, <3>3, <3>4, <3>6 DEF CallsIInv
    <2> QED
      BY <2>1, <2>2, <2>3, <2>4 DEF CallsNext
  <1> QED
    BY <1>1, <1>2, ToldHolds, PTL DEF CallsSpec

=============================================================================
