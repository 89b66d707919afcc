--------------------------- MODULE MultiTxProofs ---------------------------
(***************************************************************************)
(* The answers of multi-transactions go to the calls they belong to, once, *)
(* for any number of transactions, of callers, of calls and of workers.    *)
(*                                                                         *)
(* The id of a payload is in one place at a time (OnePlace), so that what  *)
(* a step has to be shown to do is to move at most one id to one place     *)
(* (Moves).  A step of a handler changes one transaction only              *)
(* (HandlerStep); what is left of the invariant is about that one          *)
(* (HandlerAt).                                                            *)
(***************************************************************************)
EXTENDS MultiTx, TLAPS

\* The provers of every step that does not name its own.
USE SMTT(30), ZenonT(20)

\* A channel of capacity one.
LEMMA Nonempty ==
    ASSUME NEW S PROVE \A q \in Seq(S) : q # <<>> => Len(q) \in Nat \ {0}
OBVIOUS

\* What is taken from such a channel leaves it empty.
LEMMA OneItem ==
    ASSUME NEW S, NEW q \in Seq(S), Len(q) <= 1, q # <<>>
    PROVE  Head(q) \in S /\ Tail(q) = <<>>
<1>1. Len(q) = 1
  <2>1. Len(q) \in Nat \ {0}
    BY Nonempty
  <2> QED BY <2>1
<1>2. Head(q) \in S /\ Tail(q) \in Seq(S) /\ Len(Tail(q)) = 0
  BY <1>1
<1> QED BY <1>2, Nonempty

\* What is put into it.
LEMMA Singleton ==
    ASSUME NEW S, NEW x \in S
    PROVE  <<x>> \in Seq(S) /\ Len(<<x>>) <= 1 /\ Head(<<x>>) = x /\ <<x>> # <<>>
OBVIOUS

\* What the channels of a transaction hold.
LEMMA Channels ==
    ASSUME TypeOK, NEW t \in Tx
    PROVE  /\ app2db[t] # <<>> => Head(app2db[t]) \in Payload /\ Tail(app2db[t]) = <<>>
           /\ db2app[t] # <<>> => Head(db2app[t]) \in Result /\ Tail(db2app[t]) = <<>>
           /\ pending[t] # None => pending[t] \in Result
<1>1. /\ app2db[t] \in Seq(Payload) /\ Len(app2db[t]) <= 1
      /\ db2app[t] \in Seq(Result) /\ Len(db2app[t]) <= 1
  BY DEF TypeOK
<1>2. pending[t] # None => pending[t] \in Result
  BY DEF TypeOK
<1> HIDE DEF Payload, Result
<1> QED BY <1>1, <1>2, OneItem

\* A step takes the id i0 to one place, if anywhere, and no other id anywhere.
Moves(i0, q0, y0) ==
    \A p, x : \A i \in 1..bounds.calls :
       Holds(p, x, i)' => (i # i0 /\ Holds(p, x, i)) \/ (i = i0 /\ p = q0 /\ x = y0)

\* OnePlace, for two holders of an id.
LEMMA OneHolder ==
    ASSUME OnePlace, NEW i \in 1..bounds.calls, NEW p \in Place, NEW x \in Holder,
           NEW q \in Place, NEW y \in Holder, Holds(p, x, i), Holds(q, y, i)
    PROVE  p = q /\ x = y
BY Zenon DEF OnePlace

\* A step that moves ids so keeps them in one place.
LEMMA IdsMove ==
    ASSUME OnePlace, bounds' = bounds, NEW i0, NEW q0, NEW y0, Moves(i0, q0, y0)
    PROVE  OnePlace'
<1>1. \A p, x : \A i \in 1..bounds.calls : Holds(p, x, i) => p \in Place /\ x \in Holder
  BY DEF Holds, Place, Holder
<1>2. ASSUME NEW p, NEW x, NEW q, NEW y, NEW i \in 1..bounds.calls, Holds(p, x, i)', Holds(q, y, i)'
      PROVE  p = q /\ x = y
  BY <1>1, <1>2 DEF OnePlace, Moves
<1> QED BY <1>2 DEF OnePlace

\* So does one that leaves the places alone.
LEMMA IdsStay ==
    ASSUME OnePlace, UNCHANGED <<bounds, call, app2db, pending, db2app, told>>
    PROVE  OnePlace'
<1>1. \A p, x : \A i \in 1..bounds.calls : Holds(p, x, i)' => Holds(p, x, i)
  BY DEF Holds
<1>2. Moves(0, "none", "none")
  BY <1>1 DEF Moves
<1> QED BY <1>2, IdsMove

\* At first there are no calls.
LEMMA MultiInit == Init => IInv
<1> SUFFICES ASSUME Init PROVE IInv
  OBVIOUS
<1>1. TypeOK
  BY MultiAssumption DEF Init, TypeOK
<1>2. \A p, x : \A i \in 1..bounds.calls : ~Holds(p, x, i)
  BY DEF Init, Holds
<1>3. OnePlace /\ IdsInv
  BY <1>2 DEF OnePlace, IdsInv, Init
<1>4. StageInv /\ AskedInv /\ OwnInv
  BY DEF Init, StageInv, AskedInv, OwnInv, OneCall, OwnOn, OwnAnswer, Kind
<1> QED BY <1>1, <1>3, <1>4 DEF IInv, Init, NotifiedAll

\* What is on its way on a handle that a step does not touch.
LEMMA OwnKept ==
    ASSUME NEW u \in Tx, OwnOn(u), app2db'[u] = app2db[u], db2app'[u] = db2app[u],
           pending'[u] = pending[u], thread'[u] = thread[u], u \in committed' <=> u \in committed,
           \A c \in Caller :
              call[c] # None /\ call[c].tx = u /\ call[c].phase = "recv" => call'[c] = call[c]
    PROVE  OwnOn(u)'
BY DEF OwnOn, Waiting

\* A transaction is opened.
LEMMA MultiOpen ==
    ASSUME IInv, NEW t \in Tx, multi_transaction(t)
    PROVE  IInv'
<1> USE DEF IInv
<1>1. /\ handle[t] = "unborn" /\ handle' = [handle EXCEPT ![t] = "open"]
      /\ thread' = [thread EXCEPT ![t] = "waiting"]
      /\ UNCHANGED <<bounds, app2db, db2app, pending, call, calls, asked, events, failed, committed,
                     notified, told>>
  BY DEF multi_transaction, History
<1>2. TypeOK'
  BY <1>1 DEF TypeOK
<1>3. OnePlace' /\ IdsInv'
  BY <1>1, IdsStay DEF IdsInv
<1>4. /\ thread[t] = "none" /\ app2db[t] = <<>> /\ db2app[t] = <<>> /\ pending[t] = None
      /\ t \notin committed
  BY <1>1, Zenon DEF StageInv, TypeOK, Kind
<1>5. StageInv'
  BY <1>1, <1>4 DEF StageInv, TypeOK, Kind
<1>6. AskedInv'
  BY <1>1 DEF AskedInv
<1>7. ~bounds.shared => OwnInv'
  <2> SUFFICES ASSUME ~bounds.shared PROVE OwnInv'
    OBVIOUS
  <2>1. ASSUME NEW u \in Tx, handle'[u] = "open" PROVE OwnOn(u)'
    <3>1. CASE u = t
      BY <1>1, <1>4, <3>1 DEF OwnOn
    <3>2. CASE u # t
      <4>1. handle[u] = "open" /\ thread'[u] = thread[u]
        BY <1>1, <2>1, <3>2 DEF TypeOK
      <4> QED BY <1>1, <4>1, OwnKept DEF OwnInv
    <3> QED BY <3>1, <3>2, Zenon
  <2>2. \A a \in told' :
           a.kind = "abort" /\ a.ok => thread'[a.tx] = "done" /\ a.tx \notin committed'
    BY <1>1, <1>4 DEF OwnInv, TypeOK
  <2> QED BY <1>1, <2>1, <2>2 DEF OwnInv, OneCall, OwnAnswer
<1>8. NotifiedAll'
  BY <1>1, <1>4 DEF NotifiedAll, TypeOK
<1> QED BY <1>1, <1>2, <1>3, <1>5, <1>6, <1>7, <1>8

\* A call begins.
LEMMA MultiCall ==
    ASSUME IInv, NEW c \in Caller, NEW t \in Tx, NEW kind \in Kind, Call(c, t, kind)
    PROVE  IInv'
<1> USE DEF IInv
<1> DEFINE r == [tx |-> t, kind |-> kind, id |-> calls + 1, phase |-> "send"]
<1>1. /\ handle[t] = "open" /\ call[c] = None /\ calls < bounds.calls
      /\ bounds.shared \/ \A d \in Caller : call[d] # None => call[d].tx # t
      /\ calls' = calls + 1
      /\ asked' = IF kind = "commit" THEN asked \cup {t} ELSE asked
      /\ call' = [call EXCEPT ![c] = r]
      /\ UNCHANGED <<bounds, handle, thread, app2db, db2app, pending, events, failed, committed,
                     notified, told>>
  BY DEF Call, History
<1>2. calls \in Nat /\ bounds.calls \in Nat /\ r \in CallOf /\ r # None
  BY MultiAssumption DEF TypeOK, CallOf
<1> HIDE DEF r
<1>3. r.tx = t /\ r.kind = kind /\ r.id = calls + 1 /\ r.phase = "send"
  BY DEF r
<1>4. call'[c] = r /\ \A d \in Caller \ {c} : call'[d] = call[d]
  BY <1>1 DEF TypeOK
<1>5. TypeOK'
  <2>1. call' \in [Caller -> CallOf \cup {None}]
    BY <1>1, <1>2 DEF TypeOK
  <2> QED BY <1>1, <1>2, <2>1 DEF TypeOK
<1>6. OnePlace'
  <2>1. \A p, x : ~Holds(p, x, calls + 1)
    BY <1>2 DEF IdsInv, Holds
  <2>2. ASSUME NEW p, NEW x, NEW i \in 1..bounds.calls, Holds(p, x, i)'
        PROVE  (i # calls + 1 /\ Holds(p, x, i)) \/ (i = calls + 1 /\ p = "send" /\ x = c)
    <3>1. CASE p = "send" /\ x = c
      BY <1>3, <1>4, <2>2, <3>1 DEF Holds
    <3>2. CASE ~(p = "send" /\ x = c)
      <4>1. Holds(p, x, i)
        BY <1>1, <1>4, <2>2, <3>2 DEF Holds
      <4> QED BY <2>1, <4>1
    <3> QED BY <3>1, <3>2, Zenon
  <2>3. Moves(calls + 1, "send", c)
    BY <2>2 DEF Moves
  <2> QED BY <1>1, <2>3, IdsMove
<1>66. IdsInv'
  <2>1. 1..calls \subseteq 1..calls' /\ 0..calls \subseteq 0..calls' /\ calls + 1 \in 1..calls'
    BY <1>1, <1>2
  <2> QED BY <1>1, <1>3, <1>4, <2>1 DEF IdsInv
<1>7. StageInv'
  BY <1>1, <1>3, <1>4 DEF StageInv
<1>8. AskedInv' /\ committed' \subseteq asked'
  BY <1>1, <1>3, <1>4 DEF AskedInv
<1>9. ~bounds.shared => OwnInv'
  <2> SUFFICES ASSUME ~bounds.shared PROVE OwnInv'
    OBVIOUS
  <2>1. OneCall'
    BY <1>1, <1>3, <1>4 DEF OwnInv, OneCall
  <2>2. ASSUME NEW u \in Tx, handle'[u] = "open" PROVE OwnOn(u)'
    BY <1>1, <1>4, <2>2, OwnKept, Zenon DEF OwnInv
  <2> QED BY <1>1, <2>1, <2>2 DEF OwnInv, OwnAnswer
<1> QED BY <1>1, <1>5, <1>6, <1>66, <1>7, <1>8, <1>9 DEF NotifiedAll

\* What a caller is doing, and its transaction.
LEMMA CallIs ==
    ASSUME IInv, NEW c \in Caller, call[c] # None
    PROVE  /\ call[c] \in CallOf /\ call[c].tx \in Tx /\ call[c].kind \in Kind /\ call[c].id \in Nat
           /\ call[c].id \in 1..calls /\ call[c].id \in 1..bounds.calls /\ call[c].id # 0
           /\ handle[call[c].tx] = "open" /\ calls \in Nat /\ bounds.calls \in Nat
<1>1. call[c] \in CallOf /\ calls \in Nat /\ bounds.calls \in Nat /\ calls <= bounds.calls
  BY MultiAssumption DEF IInv, TypeOK
<1> QED BY <1>1 DEF IInv, IdsInv, StageInv, CallOf

\* A caller that sends its payload.
SentStep(c, t) ==
    /\ call[c] # None /\ call[c].phase = "send" /\ t = call[c].tx
    /\ thread[t] # "done" /\ app2db[t] = <<>>
    /\ app2db' = [app2db EXCEPT ![t] = <<[kind |-> call[c].kind, id |-> call[c].id]>>]
    /\ call'[c] \in CallOf /\ call'[c].tx = t /\ call'[c].kind = call[c].kind
    /\ call'[c].id = call[c].id /\ call'[c].phase = "recv"
    /\ call' \in [Caller -> CallOf \cup {None}] /\ \A d \in Caller \ {c} : call'[d] = call[d]
    /\ UNCHANGED <<bounds, handle, thread, db2app, pending, calls, asked, events, failed,
                   committed, notified, told>>

\* The payload goes from the caller to the channel, and the caller waits for it.
LEMMA MultiSent ==
    ASSUME IInv, NEW c \in Caller, NEW t \in Tx, SentStep(c, t)
    PROVE  IInv'
<1> USE DEF IInv
<1> DEFINE b == [kind |-> call[c].kind, id |-> call[c].id]
           i0 == call[c].id
<1>1. /\ call[c] \in CallOf /\ call[c].tx \in Tx /\ call[c].kind \in Kind /\ i0 \in Nat
      /\ i0 \in 1..calls /\ i0 \in 1..bounds.calls /\ i0 # 0 /\ handle[t] = "open"
      /\ calls \in Nat /\ bounds.calls \in Nat
  BY CallIs DEF SentStep
<1>2. b \in Payload /\ b.kind = call[c].kind /\ b.id = i0
  BY <1>1, Zenon DEF Payload
<1> HIDE DEF b
<1>3. call'[c] # None
  BY MultiAssumption, Zenon DEF SentStep
<1>4. /\ app2db'[t] = <<b>> /\ app2db'[t] # <<>> /\ Head(app2db'[t]) = b
      /\ \A u \in Tx \ {t} : app2db'[u] = app2db[u]
  BY <1>2, Singleton, Zenon DEF TypeOK, SentStep, b
<1>5. TypeOK'
  <2>1. app2db' \in [Tx -> Seq(Payload)] /\ \A u \in Tx : Len(app2db'[u]) <= 1
    BY <1>2, <1>4, Singleton DEF TypeOK, SentStep, b
  <2> QED BY <2>1, Zenon DEF TypeOK, SentStep
<1>6. OnePlace'
  <2>1. Holds("send", c, i0)
    BY DEF Holds, SentStep
  <2>2. ASSUME NEW p, NEW x, NEW i \in 1..bounds.calls, Holds(p, x, i)'
        PROVE  (i # i0 /\ Holds(p, x, i)) \/ (i = i0 /\ p = "app2db" /\ x = t)
    <3>1. CASE p = "app2db" /\ x = t
      BY <1>2, <1>4, <2>2, <3>1 DEF Holds
    <3>2. CASE ~(p = "app2db" /\ x = t)
      <4>1. Holds(p, x, i) /\ ~(p = "send" /\ x = c)
        BY <1>4, <2>2, <3>2, Zenon DEF Holds, SentStep
      <4>2. p \in Place /\ x \in Holder /\ "send" \in Place /\ c \in Holder
        BY <4>1 DEF Holds, Place, Holder
      <4>3. ASSUME i = i0 PROVE p = "send" /\ x = c
        <5>1. Holds("send", c, i)
          BY <2>1, <4>3, Zenon
        <5> QED BY <4>1, <4>2, <5>1, OneHolder, Zenon
      <4> QED BY <4>1, <4>3, Zenon
    <3> QED BY <3>1, <3>2, Zenon
  <2>3. Moves(i0, "app2db", t)
    BY <2>2, Zenon DEF Moves
  <2> QED BY <2>3, IdsMove DEF SentStep
<1>7. IdsInv'
  BY <1>1, <1>2, <1>4 DEF IdsInv, SentStep
<1>8. StageInv'
  <2>1. thread[t] # "none"
    BY <1>1, Zenon DEF StageInv
  <2> QED BY <1>1, <1>4, <2>1 DEF StageInv, SentStep
<1>9. AskedInv'
  BY <1>2, <1>4 DEF AskedInv, SentStep
<1>10. ~bounds.shared => OwnInv'
  <2> SUFFICES ASSUME ~bounds.shared PROVE OwnInv'
    OBVIOUS
  <2>1. OneCall'
    <3>1. ASSUME NEW d \in Caller, call'[d] # None PROVE call[d] # None /\ call'[d].tx = call[d].tx
      BY <3>1 DEF SentStep
    <3> QED BY <3>1, Zenon DEF OwnInv, OneCall
  <2>2. ASSUME NEW u \in Tx, handle'[u] = "open" PROVE OwnOn(u)'
    <3>1. CASE u = t
      <4>1. \A d \in Caller : \A i : ~Waiting(d, t, i)
        BY Zenon DEF OwnInv, OneCall, Waiting, SentStep
      <4>2. pending[t] = None
        BY <1>1, <4>1, Zenon DEF OwnInv, OwnOn
      <4>3. db2app[t] = <<>> \/ Head(db2app[t]).id = 0
        BY <1>1, <4>1, Zenon DEF OwnInv, OwnOn
      <4> QED BY <1>2, <1>3, <1>4, <3>1, <4>2, <4>3, Zenon DEF OwnOn, Waiting, SentStep
    <3>2. CASE u # t
      BY <1>4, <2>2, <3>2, OwnKept DEF OwnInv, SentStep
    <3> QED BY <3>1, <3>2, Zenon
  <2> QED BY <2>1, <2>2 DEF OwnInv, OwnAnswer, SentStep
<1> QED BY <1>5, <1>6, <1>7, <1>8, <1>9, <1>10, Zenon DEF NotifiedAll, SentStep

\* A caller that is told something: its call is over.
ToldStep(c, t, a) ==
    /\ call[c] # None /\ t = call[c].tx /\ call' = [call EXCEPT ![c] = None]
    /\ a.tx = t /\ a.id = call[c].id /\ a.kind = call[c].kind /\ a.got \in Nat /\ a.ok \in BOOLEAN
    /\ told' = told \cup {a}
    /\ db2app' \in [Tx -> Seq(Result)] /\ \A u \in Tx \ {t} : db2app'[u] = db2app[u]
    /\ db2app'[t] = <<>> \/ (db2app'[t] = db2app[t] /\ a.got = 0)
    /\ UNCHANGED <<bounds, handle, thread, app2db, pending, calls, asked, events, failed,
                   committed, notified>>
\* What makes the answer right.
ToldAt(t, a) ==
    /\ a.got # 0 => Holds("db2app", t, a.got)
    /\ ~bounds.shared =>
         /\ db2app'[t] = <<>> \/ Head(db2app'[t]).id = 0
         /\ a.got # 0 => a.got = a.id
         /\ a.kind = "abort" /\ a.ok => thread[t] = "done" /\ t \notin committed
         /\ pending[t] = None /\ (app2db[t] = <<>> \/ thread[t] = "done")

\* The answer goes from the channel to the caller.
LEMMA MultiTold ==
    ASSUME IInv, NEW c \in Caller, NEW t \in Tx, NEW a, ToldStep(c, t, a), ToldAt(t, a)
    PROVE  IInv'
<1> USE DEF IInv
<1>1. /\ call'[c] = None /\ \A d \in Caller \ {c} : call'[d] = call[d]
      /\ call' \in [Caller -> CallOf \cup {None}] /\ bounds.calls \in Nat /\ calls \in Nat
  BY MultiAssumption, Zenon DEF TypeOK, ToldStep
<1>2. TypeOK'
  <2>1. ASSUME NEW u \in Tx PROVE Len(db2app'[u]) <= 1
    <3>1. Len(<<>>) <= 1 /\ Len(db2app[u]) <= 1
      BY DEF TypeOK
    <3>2. db2app'[u] = <<>> \/ db2app'[u] = db2app[u]
      BY Zenon DEF ToldStep
    <3> QED BY <3>1, <3>2, Zenon
  <2>2. \A e \in told' : e.tx \in Tx /\ e.got \in Nat
    BY DEF TypeOK, ToldStep
  <2> QED BY <1>1, <2>1, <2>2 DEF TypeOK, ToldStep
<1>3. OnePlace'
  <2>1. ASSUME NEW p, NEW x, NEW i \in 1..bounds.calls, Holds(p, x, i)'
        PROVE  (i # a.got /\ Holds(p, x, i)) \/ (i = a.got /\ p = "told" /\ x = a)
    <3>1. CASE p = "told" /\ x = a
      BY <2>1, <3>1 DEF Holds
    <3>2. CASE ~(p = "told" /\ x = a)
      <4>1. Holds(p, x, i) /\ (a.got # 0 => ~(p = "db2app" /\ x = t))
        BY <1>1, <2>1, <3>2 DEF Holds, ToldStep
      <4>2. p \in Place /\ x \in Holder /\ "db2app" \in Place /\ t \in Holder
        BY <4>1 DEF Holds, Place, Holder
      <4>3. i = a.got => p = "db2app" /\ x = t
        <5>1. i = a.got => Holds("db2app", t, i)
          BY DEF ToldAt
        <5> QED BY <4>1, <4>2, <5>1, OneHolder, Zenon
      <4>4. i = a.got => a.got # 0
        OBVIOUS
      <4> QED BY <4>1, <4>3, <4>4, Zenon
    <3> QED BY <3>1, <3>2, Zenon
  <2>2. Moves(a.got, "told", a)
    BY <2>1 DEF Moves
  <2> QED BY <2>2, IdsMove DEF ToldStep
<1>4. IdsInv'
  <2>1. a.got \in 0..calls
    <3>1. a.got = 0 \/ (db2app[t] # <<>> /\ Head(db2app[t]).id = a.got)
      BY DEF Holds, ToldAt
    <3>2. db2app[t] # <<>> => Head(db2app[t]).id \in 0..calls
      BY DEF IdsInv
    <3>3. 0 \in 0..calls
      BY <1>1
    <3> QED BY <3>1, <3>2, <3>3, Zenon
  <2> QED BY <1>1, <2>1, Zenon DEF IdsInv, ToldStep
<1>5. StageInv'
  <2>1. \A d \in Caller : call'[d] # None => handle[call'[d].tx] = "open"
    BY <1>1 DEF StageInv
  <2>2. \A u \in Tx : db2app'[u] = <<>> \/ db2app'[u] = db2app[u]
    BY DEF ToldStep
  <2>3. UNCHANGED <<handle, thread, app2db, pending, committed>>
    BY DEF ToldStep
  <2>4. ASSUME NEW u \in Tx
        PROVE  /\ thread[u] \in {"none", "waiting"} => db2app'[u] = <<>>
               /\ db2app'[u] # <<>> /\ Head(db2app'[u]).id = 0
                    => thread[u] = "done" /\ u \notin committed
    BY <2>2, Zenon DEF StageInv
  <2> QED BY <2>1, <2>3, <2>4, Zenon DEF StageInv
<1>6. AskedInv'
  BY <1>1 DEF AskedInv, ToldStep
<1>7. ~bounds.shared => OwnInv'
  <2> SUFFICES ASSUME ~bounds.shared PROVE OwnInv'
    OBVIOUS
  <2>1. OneCall'
    BY <1>1 DEF OwnInv, OneCall
  <2>2. ASSUME NEW u \in Tx, handle'[u] = "open" PROVE OwnOn(u)'
    <3>1. CASE u = t
      BY <3>1, Zenon DEF OwnOn, ToldStep, ToldAt
    <3>2. CASE u # t
      BY <1>1, <2>2, <3>2, OwnKept, Zenon DEF OwnInv, ToldStep
    <3> QED BY <3>1, <3>2, Zenon
  <2>3. ASSUME NEW e \in told'
        PROVE  /\ e.kind = "abort" /\ e.ok => thread'[e.tx] = "done" /\ e.tx \notin committed'
               /\ e.got # 0 => e.got = e.id
    <3>1. CASE e = a
      BY <3>1, Zenon DEF ToldStep, ToldAt
    <3>2. CASE e \in told
      BY <3>2, Zenon DEF OwnInv, OwnAnswer, ToldStep
    <3> QED BY <3>1, <3>2 DEF ToldStep
  <2> QED BY <2>1, <2>2, <2>3, Zenon DEF OwnInv, OwnAnswer
<1> QED BY <1>2, <1>3, <1>4, <1>5, <1>6, <1>7, Zenon DEF NotifiedAll, ToldStep

\* Only the phase of the call changes.
LEMMA Phase ==
    ASSUME NEW x \in CallOf, NEW y, y = [x EXCEPT !.phase = "recv"]
    PROVE  /\ y \in CallOf /\ y.tx = x.tx /\ y.kind = x.kind
           /\ y.id = x.id /\ y.phase = "recv"
BY Zenon DEF CallOf

\* send: the payload is sent, or the handler is gone.
LEMMA MultiSend ==
    ASSUME IInv, NEW c \in Caller, send(c)
    PROVE  IInv'
<1> DEFINE t == call[c].tx
<1>1. /\ call[c] # None /\ call[c].phase = "send"
      /\ UNCHANGED <<bounds, handle, thread, db2app, pending, calls, asked, events, failed,
                     committed, notified>>
  BY Zenon DEF send, History
<1>2. /\ call[c] \in CallOf /\ t \in Tx /\ call[c].kind \in Kind /\ handle[t] = "open"
      /\ call \in [Caller -> CallOf \cup {None}]
  BY <1>1, CallIs DEF IInv, TypeOK
<1>3. CASE /\ thread[t] # "done" /\ app2db[t] = <<>>
           /\ app2db' = [app2db EXCEPT ![t] = <<[kind |-> call[c].kind, id |-> call[c].id]>>]
           /\ call' = [call EXCEPT ![c].phase = "recv"]
           /\ UNCHANGED told
  <2>1. call'[c] = [call[c] EXCEPT !.phase = "recv"] /\ \A d \in Caller \ {c} : call'[d] = call[d]
    BY <1>2, <1>3, Zenon
  <2>2. /\ call'[c] \in CallOf /\ call'[c].tx = t /\ call'[c].kind = call[c].kind
        /\ call'[c].id = call[c].id /\ call'[c].phase = "recv"
    BY <1>2, <2>1, Phase, Zenon
  <2>3. call' \in [Caller -> CallOf \cup {None}]
    BY <1>2, <1>3, <2>1, <2>2, Zenon
  <2>4. /\ thread[t] # "done" /\ app2db[t] = <<>> /\ UNCHANGED told
        /\ app2db' = [app2db EXCEPT ![t] = <<[kind |-> call[c].kind, id |-> call[c].id]>>]
        /\ \A d \in Caller \ {c} : call'[d] = call[d]
    BY <1>3, <2>1, Zenon
  <2> QED BY <1>1, <1>2, <2>2, <2>3, <2>4, MultiSent, Zenon DEF SentStep
<1>4. CASE /\ thread[t] = "done" /\ told' = told \cup {Broken(c)}
           /\ call' = [call EXCEPT ![c] = None] /\ UNCHANGED app2db
  <2>1. ~bounds.shared => pending[t] = None /\ (db2app[t] = <<>> \/ Head(db2app[t]).id = 0)
    <3> SUFFICES ASSUME ~bounds.shared
                 PROVE  pending[t] = None /\ (db2app[t] = <<>> \/ Head(db2app[t]).id = 0)
      OBVIOUS
    <3>1. \A d \in Caller : \A i : ~Waiting(d, t, i)
      BY <1>1 DEF IInv, OwnInv, OneCall, Waiting
    <3> QED BY <1>2, <3>1 DEF IInv, OwnInv, OwnOn
  <2>2. /\ db2app' \in [Tx -> Seq(Result)] /\ db2app' = db2app
        /\ \A u \in Tx \ {t} : db2app'[u] = db2app[u]
    BY <1>1, Zenon DEF IInv, TypeOK
  <2> DEFINE a == Broken(c)
  <2>3. /\ a.tx = t /\ a.id = call[c].id /\ a.kind = call[c].kind
        /\ a.got = 0 /\ a.got \in Nat /\ a.ok = FALSE /\ a.ok \in BOOLEAN
        /\ told' = told \cup {a}
    BY <1>4, Zenon DEF Broken
  <2> HIDE DEF a, t
  <2> QED BY <1>1, <1>2, <1>4, <2>1, <2>2, <2>3, MultiTold, Zenon DEF ToldStep, ToldAt, t
<1> QED BY <1>1, <1>3, <1>4 DEF send

\* recv: there is a result, or the handler is gone.
LEMMA MultiRecv ==
    ASSUME IInv, NEW c \in Caller, recv(c)
    PROVE  IInv'
<1> DEFINE t == call[c].tx
<1>1. /\ call[c] # None /\ call[c].phase = "recv" /\ call' = [call EXCEPT ![c] = None]
      /\ UNCHANGED <<bounds, handle, thread, app2db, pending, calls, asked, events, failed,
                     committed, notified>>
  BY DEF recv, History
<1>2. /\ call[c] \in CallOf /\ t \in Tx /\ call[c].kind \in Kind /\ handle[t] = "open"
      /\ call[c].id \in 1..bounds.calls
  BY <1>1, CallIs
<1>3. CASE /\ db2app[t] # <<>> /\ told' = told \cup {Answer(c, Head(db2app[t]))}
           /\ db2app' = [db2app EXCEPT ![t] = Tail(@)]
  <2> DEFINE res == Head(db2app[t])
             a == Answer(c, res)
  <2>1. res \in Result /\ Tail(db2app[t]) = <<>>
    BY <1>2, <1>3, Channels, Zenon DEF IInv
  <2>2. /\ a.tx = t /\ a.id = call[c].id /\ a.kind = call[c].kind /\ a.got = res.id
        /\ a.got \in Nat /\ a.ok \in BOOLEAN
    BY <2>1, Zenon DEF Answer, Result
  <2>3. /\ db2app' \in [Tx -> Seq(Result)] /\ db2app'[t] = <<>>
        /\ \A u \in Tx \ {t} : db2app'[u] = db2app[u]
    BY <1>2, <1>3, <2>1 DEF IInv, TypeOK
  <2>4. Holds("db2app", t, a.got)
    BY <1>2, <1>3, <2>2, Zenon DEF Holds
  <2>5. ASSUME ~bounds.shared, NEW d \in Caller, NEW i, Waiting(d, t, i)
        PROVE  d = c /\ i = call[c].id
    BY <1>1, <2>5, Zenon DEF IInv, OwnInv, OneCall, Waiting
  <2>6. ~bounds.shared /\ res.id # 0 =>
          /\ res.id = call[c].id
          /\ call[c].kind = "abort" => thread[t] = "done" /\ t \notin committed
    BY <1>2, <1>3, <2>5, Zenon DEF IInv, OwnInv, OwnOn
  <2>7. res.id = 0 => thread[t] = "done" /\ t \notin committed /\ pending[t] = None
    BY <1>2, <1>3, Zenon DEF IInv, StageInv, Kind
  <2>8. ~bounds.shared => pending[t] = None /\ (app2db[t] = <<>> \/ thread[t] = "done")
    <3> SUFFICES ASSUME ~bounds.shared, res.id # 0
                 PROVE  pending[t] = None /\ (app2db[t] = <<>> \/ thread[t] = "done")
      BY <2>7, Zenon
    <3>1. Holds("db2app", t, call[c].id)
      BY <2>2, <2>4, <2>6, Zenon
    <3>2. ~Holds("pending", t, call[c].id) /\ ~Holds("app2db", t, call[c].id)
      BY <1>2, <3>1 DEF IInv, OnePlace, Place, Holder
    <3>3. pending[t] = None \/ pending[t].id = call[c].id
      BY <1>2, <2>5, Zenon DEF IInv, OwnInv, OwnOn
    <3>4. app2db[t] = <<>> \/ thread[t] = "done" \/ Head(app2db[t]).id = call[c].id
      BY <1>2, <2>5 DEF IInv, OwnInv, OwnOn
    <3> QED BY <1>2, <3>2, <3>3, <3>4, Zenon DEF Holds
  <2>9. ~bounds.shared => (a.got # 0 => a.got = a.id)
    BY <2>2, <2>6, Zenon
  <2>10. ~bounds.shared /\ a.kind = "abort" => thread[t] = "done" /\ t \notin committed
    BY <2>2, <2>6, <2>7
  <2>11. told' = told \cup {a}
    BY <1>3
  <2> HIDE DEF a, res, t
  <2> QED
    BY <1>1, <1>2, <2>2, <2>3, <2>4, <2>8, <2>9, <2>10, <2>11, MultiTold, Zenon
    DEF ToldStep, ToldAt, t
<1>4. CASE /\ db2app[t] = <<>> /\ thread[t] = "done" /\ told' = told \cup {Broken(c)}
           /\ UNCHANGED db2app
  <2>1. pending[t] = None
    BY <1>2, <1>4, Zenon DEF IInv, StageInv, Kind
  <2>2. /\ db2app' \in [Tx -> Seq(Result)] /\ db2app' = db2app
        /\ \A u \in Tx \ {t} : db2app'[u] = db2app[u]
    BY <1>4, Zenon DEF IInv, TypeOK
  <2> DEFINE a == Broken(c)
  <2>3. /\ a.tx = t /\ a.id = call[c].id /\ a.kind = call[c].kind
        /\ a.got = 0 /\ a.got \in Nat /\ a.ok = FALSE /\ a.ok \in BOOLEAN
        /\ told' = told \cup {a}
    BY <1>4, Zenon DEF Broken
  <2> HIDE DEF a, t
  <2> QED BY <1>1, <1>2, <1>4, <2>1, <2>2, <2>3, MultiTold, Zenon DEF ToldStep, ToldAt, t
<1> QED BY <1>1, <1>3, <1>4 DEF recv

\* A user of the fields of a handle drops them.
LEMMA MultiDrop ==
    ASSUME IInv, NEW t \in Tx, drop(t)
    PROVE  IInv'
<1> USE DEF IInv
<1>1. /\ handle[t] = "open" /\ handle' = [handle EXCEPT ![t] = "dropped"]
      /\ call' = [c \in Caller |-> IF call[c] # None /\ call[c].tx = t THEN None ELSE call[c]]
      /\ UNCHANGED <<bounds, thread, app2db, db2app, pending, calls, asked, events, failed,
                     committed, notified, told>>
  BY DEF drop, History
<1>2. \A c \in Caller : /\ call'[c] # None => call'[c] = call[c] /\ call[c] # None /\ call[c].tx # t
                        /\ call[c] # None /\ call[c].tx # t => call'[c] = call[c]
  BY <1>1, Zenon
<1>3. TypeOK'
  BY <1>1 DEF TypeOK
<1>4. OnePlace'
  <2>1. \A p, x : \A i \in 1..bounds.calls : Holds(p, x, i)' => Holds(p, x, i)
    BY <1>1, <1>2 DEF Holds
  <2>2. Moves(0, "none", "none")
    BY <2>1 DEF Moves
  <2> QED BY <1>1, <2>2, IdsMove, Zenon
<1>5. IdsInv' /\ AskedInv'
  BY <1>1, <1>2, Zenon DEF IdsInv, AskedInv
<1>6. StageInv'
  <2>1. ASSUME NEW c \in Caller, call'[c] # None PROVE handle'[call'[c].tx] = "open"
    <3>1. call'[c] = call[c] /\ call[c].tx # t /\ handle[call[c].tx] = "open"
      BY <1>2, <2>1, Zenon DEF StageInv
    <3>2. call[c].tx \in Tx
      BY <1>2, <2>1, Zenon DEF TypeOK, CallOf
    <3> QED BY <1>1, <3>1, <3>2, Zenon DEF TypeOK
  <2>2. \A u \in Tx : handle'[u] = "unborn" <=> thread'[u] = "none"
    BY <1>1, Zenon DEF StageInv, TypeOK
  <2> QED BY <1>1, <2>1, <2>2 DEF StageInv
<1>7. ~bounds.shared => OwnInv'
  <2> SUFFICES ASSUME ~bounds.shared PROVE OwnInv'
    OBVIOUS
  <2>1. OneCall'
    BY <1>2 DEF OwnInv, OneCall
  <2>2. ASSUME NEW u \in Tx, handle'[u] = "open" PROVE OwnOn(u)'
    <3>1. u # t /\ handle[u] = "open"
      BY <1>1, <2>2 DEF TypeOK
    <3> QED BY <1>1, <1>2, <3>1, OwnKept, Zenon DEF OwnInv
  <2> QED BY <1>1, <2>1, <2>2, Zenon DEF OwnInv, OwnAnswer
<1> QED BY <1>1, <1>3, <1>4, <1>5, <1>6, <1>7, Zenon DEF NotifiedAll

-----------------------------------------------------------------------------
(* The handler.                                                            *)

\* A step of the handler of t, to stage s: what it leaves alone, and what it makes
\* of its own part of the state.
HandlerStep(t, s) ==
    /\ thread[t] \notin {"none", "done"} /\ s \notin {"none", "waiting"}
    /\ thread' = [thread EXCEPT ![t] = s]
    /\ UNCHANGED <<bounds, handle, call, calls, asked, told>>
    /\ \A u \in Tx \ {t} :
         /\ app2db'[u] = app2db[u] /\ db2app'[u] = db2app[u] /\ pending'[u] = pending[u]
         /\ events'[u] = events[u] /\ notified'[u] = notified[u]
         /\ u \in committed' <=> u \in committed
HandlerAt(t, s) ==
    /\ app2db'[t] \in {app2db[t], <<>>}
    /\ pending'[t] # None <=> s \in Kind
    /\ pending'[t] # None => pending'[t].id \in 1..calls
    /\ db2app'[t] # <<>> => Head(db2app'[t]).id \in 0..calls
    /\ db2app'[t] # <<>> /\ Head(db2app'[t]).id = 0 => s = "done" /\ t \notin committed'
    /\ t \in committed' => t \in asked /\ s \in {"commit", "notify", "done"}
    /\ t \in committed' /\ s = "done" => notified'[t] = events'[t]
    /\ ~bounds.shared /\ handle[t] = "open" => OwnOn(t)'

\* A step of one handler.
LEMMA MultiHandler ==
    ASSUME IInv, NEW t \in Tx, NEW s, HandlerStep(t, s), HandlerAt(t, s), TypeOK', OnePlace'
    PROVE  IInv'
<1> USE DEF IInv
<1>1. thread'[t] = s /\ \A u \in Tx \ {t} : thread'[u] = thread[u]
  BY DEF HandlerStep, TypeOK
<1>2. IdsInv'
  BY Zenon DEF IdsInv, HandlerStep, HandlerAt
<1>3. StageInv'
  <2>1. handle[t] # "unborn"
    BY Zenon DEF StageInv, HandlerStep
  <2>2. \A c \in Caller : call'[c] # None => handle'[call'[c].tx] = "open"
    BY Zenon DEF StageInv, HandlerStep
  <2>3. ASSUME NEW u \in Tx
        PROVE  /\ handle'[u] = "unborn" <=> thread'[u] = "none"
               /\ pending'[u] # None <=> thread'[u] \in Kind
               /\ thread'[u] = "none" => app2db'[u] = <<>>
               /\ thread'[u] \in {"none", "waiting"} => db2app'[u] = <<>>
               /\ db2app'[u] # <<>> /\ Head(db2app'[u]).id = 0
                     => thread'[u] = "done" /\ u \notin committed'
               /\ u \in committed' => thread'[u] \in {"commit", "notify", "done"}
    <3>1. CASE u = t
      BY <1>1, <2>1, <3>1, Zenon DEF HandlerStep, HandlerAt
    <3>2. CASE u # t
      BY <1>1, <3>2 DEF HandlerStep, StageInv
    <3> QED BY <3>1, <3>2, Zenon
  <2> QED BY <2>2, <2>3, Zenon DEF StageInv
<1>4. AskedInv' /\ committed' \subseteq asked'
  <2>1. \A c \in Caller : call'[c] # None /\ call'[c].kind = "commit" => call'[c].tx \in asked'
    BY Zenon DEF AskedInv, HandlerStep
  <2>2. \A u \in Tx : app2db'[u] # <<>> /\ Head(app2db'[u]).kind = "commit" => u \in asked'
    BY Zenon DEF AskedInv, HandlerStep, HandlerAt
  <2>3. committed' \subseteq asked'
    BY DEF HandlerStep, HandlerAt, TypeOK
  <2> QED BY <2>1, <2>2, <2>3, Zenon DEF AskedInv
<1>5. ~bounds.shared => OwnInv'
  <2> SUFFICES ASSUME ~bounds.shared PROVE OwnInv'
    OBVIOUS
  <2>1. OneCall' /\ OwnAnswer'
    BY Zenon DEF OwnInv, OneCall, OwnAnswer, HandlerStep
  <2>2. ASSUME NEW u \in Tx, handle'[u] = "open" PROVE OwnOn(u)'
    <3>1. CASE u = t
      BY <2>2, <3>1, Zenon DEF HandlerStep, HandlerAt
    <3>2. CASE u # t
      <4>1. /\ OwnOn(u) /\ app2db'[u] = app2db[u] /\ db2app'[u] = db2app[u]
            /\ pending'[u] = pending[u] /\ thread'[u] = thread[u] /\ call' = call
            /\ u \in committed' <=> u \in committed
        BY <1>1, <2>2, <3>2, Zenon DEF HandlerStep, OwnInv
      <4> QED BY <4>1, OwnKept, Zenon
    <3> QED BY <3>1, <3>2, Zenon
  <2>3. \A a \in told' :
           a.kind = "abort" /\ a.ok => thread'[a.tx] = "done" /\ a.tx \notin committed'
    BY <1>1 DEF OwnInv, HandlerStep, TypeOK
  <2> QED BY <2>1, <2>2, <2>3, Zenon DEF OwnInv
<1>6. NotifiedAll'
  BY <1>1 DEF NotifiedAll, HandlerStep, HandlerAt, TypeOK
<1>7. bounds' = bounds
  BY Zenon DEF HandlerStep
<1> QED BY <1>2, <1>3, <1>4, <1>5, <1>6, <1>7, Zenon

\* rayon::spawn.
LEMMA MultiStart ==
    ASSUME IInv, NEW t \in Tx, NEW ok \in BOOLEAN, start(t, ok)
    PROVE  IInv'
<1> USE DEF IInv
<1> DEFINE s == IF ok THEN "loop" ELSE "done"
           r == [id |-> 0, ok |-> FALSE]
<1>1. /\ thread[t] = "waiting" /\ thread' = [thread EXCEPT ![t] = s]
      /\ db2app' = IF ok THEN db2app ELSE [db2app EXCEPT ![t] = <<r>>]
      /\ UNCHANGED <<bounds, handle, app2db, pending, call, calls, asked, events, failed, committed,
                     notified, told>>
  BY DEF start, History
<1>2. /\ s \in {"loop", "done"} /\ (ok => s = "loop") /\ (~ok => s = "done")
      /\ r \in Result /\ r.id = 0
  BY Zenon DEF Result
<1> HIDE DEF s, r
<1>3. pending[t] = None /\ db2app[t] = <<>> /\ t \notin committed
  BY <1>1, Zenon DEF StageInv, Kind
<1>4. /\ ok => db2app'[t] = <<>>
      /\ ~ok => db2app'[t] = <<r>> /\ Head(db2app'[t]) = r
      /\ \A u \in Tx \ {t} : db2app'[u] = db2app[u]
  BY <1>1, <1>2, <1>3, Singleton, Zenon DEF TypeOK
<1>5. TypeOK'
  <2>1. db2app' \in [Tx -> Seq(Result)]
    BY <1>1, <1>2, Singleton DEF TypeOK
  <2>2. ASSUME NEW u \in Tx PROVE Len(db2app'[u]) <= 1
    <3>1. Len(<<>>) <= 1 /\ Len(<<r>>) <= 1 /\ Len(db2app[u]) <= 1
      BY DEF TypeOK
    <3>2. db2app'[u] \in {db2app[u], <<>>, <<r>>}
      BY <1>4, Zenon
    <3> QED BY <3>1, <3>2, Zenon
  <2> QED BY <1>1, <1>2, <2>1, <2>2, Zenon DEF TypeOK
<1>6. OnePlace'
  <2>1. ASSUME NEW p, NEW x, NEW i \in 1..bounds.calls, Holds(p, x, i)'
        PROVE  Holds(p, x, i)
    <3>1. CASE p = "db2app" /\ x = t
      <4>1. i # 0
        OBVIOUS
      <4>2. db2app'[t] = <<>> \/ Head(db2app'[t]).id = 0
        BY <1>2, <1>4, Zenon
      <4> QED BY <2>1, <3>1, <4>1, <4>2, Zenon DEF Holds
    <3>2. CASE ~(p = "db2app" /\ x = t)
      BY <1>1, <1>4, <2>1, <3>2, Zenon DEF Holds
    <3> QED BY <3>1, <3>2, Zenon
  <2>2. Moves(0, "none", "none")
    BY <2>1 DEF Moves
  <2> QED BY <1>1, <2>2, IdsMove
<1>7. ~bounds.shared /\ handle[t] = "open" => OwnOn(t)'
  <2> SUFFICES ASSUME ~bounds.shared, handle[t] = "open" PROVE OwnOn(t)'
    BY Zenon
  <2>1. OwnOn(t) /\ thread'[t] = s
    BY <1>1 DEF OwnInv, TypeOK
  <2> QED BY <1>1, <1>2, <1>3, <1>4, <2>1, Zenon DEF OwnOn, Waiting
<1>8. HandlerStep(t, s)
  BY <1>1, <1>2, <1>4, Zenon DEF HandlerStep
<1>9. HandlerAt(t, s)
  <2>1. 0 \in 0..calls
    BY DEF TypeOK
  <2> QED BY <1>1, <1>2, <1>3, <1>4, <1>7, <2>1, Zenon DEF HandlerAt, Kind
<1> QED BY <1>5, <1>6, <1>8, <1>9, MultiHandler, Zenon

\* A payload is taken from the channel; what a payload does besides.
Effects(t, kind) ==
    /\ events' \in [Tx -> SUBSET Nat] /\ failed' \subseteq Tx
    /\ \A u \in Tx \ {t} : events'[u] = events[u]
    /\ committed' = committed \/ (kind = "commit" /\ committed' = committed \cup {t})

\* The id goes from the channel to the handler.
LEMMA MultiTake ==
    ASSUME IInv, NEW t \in Tx, NEW kind \in Kind, NEW ok \in BOOLEAN, Take(t, kind, ok),
           Effects(t, kind)
    PROVE  IInv'
<1> USE DEF IInv
<1> DEFINE b == Head(app2db[t])
           r == [id |-> b.id, ok |-> ok]
<1>1. /\ thread[t] = "loop" /\ app2db[t] # <<>> /\ b.kind = kind
      /\ app2db' = [app2db EXCEPT ![t] = Tail(@)]
      /\ pending' = [pending EXCEPT ![t] = r]
      /\ thread' = [thread EXCEPT ![t] = kind]
      /\ UNCHANGED <<bounds, handle, db2app, call, calls, asked, notified, told>>
  BY DEF Take
<1>2. b \in Payload /\ Tail(app2db[t]) = <<>>
  BY <1>1, Channels, Zenon
<1>3. r \in Result /\ r # None /\ r.id = b.id
  BY <1>2, MultiAssumption DEF Payload, Result
<1>4. b.id \in 1..calls /\ b.id \in 1..bounds.calls
  <2>1. calls \in Nat /\ bounds.calls \in Nat /\ calls <= bounds.calls
    BY MultiAssumption, Zenon DEF TypeOK
  <2> QED BY <1>1, <2>1 DEF IdsInv
<1> HIDE DEF b, r
<1>5. /\ app2db'[t] = <<>> /\ pending'[t] = r /\ thread'[t] = kind
      /\ \A u \in Tx \ {t} : app2db'[u] = app2db[u] /\ pending'[u] = pending[u]
  BY <1>1, <1>2, Zenon DEF TypeOK
<1>6. TypeOK'
  <2>1. app2db' \in [Tx -> Seq(Payload)] /\ \A u \in Tx : Len(app2db'[u]) <= 1
    <3>1. <<>> \in Seq(Payload) /\ Len(<<>>) = 0
      OBVIOUS
    <3>2. app2db' = [app2db EXCEPT ![t] = <<>>]
      BY <1>1, <1>2, Zenon
    <3> QED BY <3>1, <3>2 DEF TypeOK
  <2>2. pending' \in [Tx -> Result \cup {None}]
    BY <1>1, <1>3, Zenon DEF TypeOK
  <2>3. thread' \in [Tx -> {"none", "waiting", "loop", "query", "commit", "abort",
                             "notify", "done"}]
    BY <1>1, Zenon DEF TypeOK, Kind
  <2>4. committed' \subseteq Tx
    BY DEF TypeOK, Effects
  <2> QED BY <1>1, <2>1, <2>2, <2>3, <2>4, Zenon DEF TypeOK, Effects
<1>7. OnePlace'
  <2>1. Holds("app2db", t, b.id)
    BY <1>1, Zenon DEF Holds, b
  <2>2. ASSUME NEW p, NEW x, NEW i \in 1..bounds.calls, Holds(p, x, i)'
        PROVE  (i # b.id /\ Holds(p, x, i)) \/ (i = b.id /\ p = "pending" /\ x = t)
    <3>1. CASE p = "pending" /\ x = t
      BY <1>3, <1>5, <2>2, <3>1, Zenon DEF Holds
    <3>2. CASE ~(p = "pending" /\ x = t)
      <4>1. Holds(p, x, i) /\ ~(p = "app2db" /\ x = t)
        BY <1>1, <1>5, <2>2, <3>2, Zenon DEF Holds
      <4>2. p \in Place /\ x \in Holder /\ "app2db" \in Place /\ t \in Holder
        BY <4>1 DEF Holds, Place, Holder
      <4>3. ASSUME i = b.id PROVE p = "app2db" /\ x = t
        <5>1. Holds("app2db", t, i)
          BY <2>1, <4>3, Zenon
        <5> QED BY <4>1, <4>2, <5>1, OneHolder, Zenon
      <4> QED BY <4>1, <4>3
    <3> QED BY <3>1, <3>2, Zenon
  <2>3. Moves(b.id, "pending", t)
    BY <2>2, Zenon DEF Moves
  <2> QED BY <1>1, <2>3, IdsMove, Zenon
<1>8. t \notin committed /\ (db2app[t] # <<>> => Head(db2app[t]).id # 0)
  BY <1>1 DEF StageInv
<1>9. ~bounds.shared /\ handle[t] = "open" => OwnOn(t)'
  <2> SUFFICES ASSUME ~bounds.shared, handle[t] = "open" PROVE OwnOn(t)'
    OBVIOUS
  <2>1. OwnOn(t)
    BY DEF OwnInv
  <2>2. \E c \in Caller : Waiting(c, t, b.id) /\ call[c].kind = kind
    BY <1>1, <2>1, Zenon DEF OwnOn, b
  <2>3. db2app[t] # <<>> => \E c \in Caller : /\ Waiting(c, t, Head(db2app[t]).id)
                                              /\ call[c].kind # "abort"
    BY <1>1, <1>8, <2>1, Zenon DEF OwnOn
  <2> QED BY <1>1, <1>3, <1>5, <2>2, <2>3, Zenon DEF OwnOn, Waiting
<1>10. HandlerStep(t, kind)
  BY <1>1, <1>5, Zenon DEF HandlerStep, Effects, Kind
<1>11. HandlerAt(t, kind)
  <2>1. kind = "commit" => t \in asked
    BY <1>1 DEF AskedInv, b
  <2>2. kind # "done"
    BY DEF Kind
  <2> QED BY <1>1, <1>3, <1>4, <1>5, <1>8, <1>9, <2>1, <2>2, Zenon DEF HandlerAt, Effects, IdsInv
<1> QED BY <1>6, <1>7, <1>10, <1>11, MultiHandler, Zenon

\* results.send(...)
LEMMA MultiReply ==
    ASSUME IInv, NEW t \in Tx, reply(t)
    PROVE  IInv'
<1> USE DEF IInv
<1> DEFINE s == thread'[t]
           r == pending[t]
<1>1. /\ thread[t] \in Kind /\ pending' = [pending EXCEPT ![t] = None]
      /\ UNCHANGED <<bounds, handle, app2db, call, calls, asked, events, failed, committed,
                     notified, told>>
      /\ \/ /\ handle[t] = "dropped" /\ db2app' = db2app
            /\ thread' = [thread EXCEPT ![t] = IF @ = "commit" THEN "notify" ELSE "done"]
         \/ /\ handle[t] = "open" /\ db2app[t] = <<>>
            /\ db2app' = [db2app EXCEPT ![t] = <<r>>]
            /\ thread' = [thread EXCEPT ![t] = After(@)]
  BY Zenon DEF reply, History, Kind
<1>2. r # None /\ r \in Result /\ r.id \in 1..calls /\ r.id \in 1..bounds.calls /\ r.id # 0
  <2>1. calls \in Nat /\ bounds.calls \in Nat /\ calls <= bounds.calls
    BY MultiAssumption, Zenon DEF TypeOK
  <2>2. r # None
    BY <1>1, Zenon DEF StageInv
  <2>3. r \in Result
    BY <2>2, Zenon DEF TypeOK
  <2>4. r.id \in 1..calls
    BY <2>2, Zenon DEF IdsInv
  <2> QED BY <2>1, <2>2, <2>3, <2>4
<1> HIDE DEF r
<1>3. /\ s \in {"loop", "notify", "done"} /\ thread' = [thread EXCEPT ![t] = s]
      /\ thread[t] = "commit" => s = "notify"
      /\ thread[t] = "abort" => s = "done"
  BY <1>1, Zenon DEF After, Kind, TypeOK
<1> HIDE DEF s
<1>4. /\ pending'[t] = None /\ db2app'[t] \in {db2app[t], <<r>>}
      /\ \A u \in Tx \ {t} : pending'[u] = pending[u] /\ db2app'[u] = db2app[u]
  BY <1>1 DEF TypeOK
<1>5. TypeOK'
  <2>1. db2app' \in [Tx -> Seq(Result)]
    <3>1. <<r>> \in Seq(Result)
      BY <1>2, Singleton
    <3>2. db2app' = db2app \/ db2app' = [db2app EXCEPT ![t] = <<r>>]
      BY <1>1
    <3> QED BY <3>1, <3>2, Zenon DEF TypeOK
  <2>2. ASSUME NEW u \in Tx PROVE Len(db2app'[u]) <= 1
    <3>1. Len(<<r>>) <= 1 /\ Len(db2app[u]) <= 1
      BY DEF TypeOK
    <3>2. db2app'[u] \in {db2app[u], <<r>>}
      BY <1>4, Zenon
    <3> QED BY <3>1, <3>2, Zenon
  <2> QED BY <1>1, <1>3, <2>1, <2>2, Zenon DEF TypeOK
<1>6. OnePlace'
  <2>1. Holds("pending", t, r.id)
    BY <1>2 DEF Holds, r
  <2>2. ASSUME NEW p, NEW x, NEW i \in 1..bounds.calls, Holds(p, x, i)'
        PROVE  (i # r.id /\ Holds(p, x, i)) \/ (i = r.id /\ p = "db2app" /\ x = t)
    <3>1. CASE p = "db2app" /\ x = t /\ db2app'[t] = <<r>>
      BY <2>2, <3>1, Singleton DEF Holds
    <3>2. CASE ~(p = "db2app" /\ x = t /\ db2app'[t] = <<r>>)
      <4>a. p = "db2app" /\ x \in Tx => db2app'[x] = db2app[x]
        BY <1>4, <3>2, Zenon
      <4>b. p = "pending" => x \in Tx /\ x # t /\ pending'[x] = pending[x]
        BY <1>4, <2>2, Zenon DEF Holds
      <4>c. call' = call /\ app2db' = app2db /\ told' = told
        BY <1>1, Zenon
      <4>1. Holds(p, x, i) /\ ~(p = "pending" /\ x = t)
        BY <2>2, <4>a, <4>b, <4>c DEF Holds
      <4>2. p \in Place /\ x \in Holder /\ "pending" \in Place /\ t \in Holder
        BY <4>1 DEF Holds, Place, Holder
      <4>3. ASSUME i = r.id PROVE p = "pending" /\ x = t
        <5>1. Holds("pending", t, i)
          BY <2>1, <4>3, Zenon
        <5> QED BY <4>1, <4>2, <5>1, OneHolder, Zenon
      <4> QED BY <4>1, <4>3, Zenon
    <3> QED BY <3>1, <3>2, Zenon
  <2>3. Moves(r.id, "db2app", t)
    BY <2>2 DEF Moves
  <2> QED BY <1>1, <2>3, IdsMove, Zenon
<1>7. (t \in committed => thread[t] = "commit") /\ (db2app[t] # <<>> => Head(db2app[t]).id # 0)
  BY <1>1, Zenon DEF StageInv, Kind
<1>8. ~bounds.shared /\ handle[t] = "open" => OwnOn(t)'
  <2> SUFFICES ASSUME ~bounds.shared, handle[t] = "open" PROVE OwnOn(t)'
    OBVIOUS
  <2>1. OwnOn(t) /\ thread[t] # "done"
    BY <1>1, Zenon DEF OwnInv, Kind
  <2>2. db2app'[t] = <<r>> /\ Head(db2app'[t]) = r
    BY <1>1, <1>2, Singleton DEF TypeOK
  <2>3. \E c \in Caller : Waiting(c, t, r.id) /\ call[c].kind = thread[t]
    BY <1>2, <2>1, Zenon DEF OwnOn, r
  <2>4. thread'[t] = s
    BY DEF s
  <2> QED BY <1>1, <1>3, <1>4, <1>7, <2>1, <2>2, <2>3, <2>4, Zenon DEF OwnOn, Waiting
<1>9. HandlerStep(t, s)
  BY <1>1, <1>3, <1>4, Zenon DEF HandlerStep, Kind
<1>10. HandlerAt(t, s)
  <2>1. Head(<<r>>) = r
    BY <1>2, Singleton, Zenon
  <2>2. db2app'[t] # <<>> => Head(db2app'[t]).id \in 1..calls
    <3>1. CASE db2app'[t] = <<r>>
      BY <1>2, <2>1, <3>1, Zenon
    <3>2. CASE db2app'[t] = db2app[t]
      <4>1. db2app[t] # <<>> => Head(db2app[t]).id \in 0..calls /\ Head(db2app[t]).id # 0
        BY <1>7, Zenon DEF IdsInv
      <4>2. \A i \in 0..calls : i # 0 => i \in 1..calls
        BY DEF TypeOK
      <4> QED BY <3>2, <4>1, <4>2, Zenon
    <3> QED BY <1>4, <3>1, <3>2
  <2>3. ASSUME NEW i \in 1..calls PROVE i \in 0..calls /\ i # 0
    BY DEF TypeOK
  <2>4. s \notin Kind
    BY <1>3, Zenon DEF Kind
  <2>5. t \in committed' => t \in asked /\ s = "notify"
    BY <1>1, <1>3, <1>7, Zenon
  <2> QED BY <1>1, <1>4, <1>8, <2>2, <2>3, <2>4, <2>5, Zenon DEF HandlerAt
<1> QED BY <1>5, <1>6, <1>9, <1>10, MultiHandler, Zenon

\* The handler ends: send_callbacks(callback_collector), or nobody is left to ask.
LEMMA MultiEnd ==
    ASSUME IInv, NEW t \in Tx, notify(t) \/ hangup(t)
    PROVE  IInv'
<1> USE DEF IInv
<1>1. /\ thread' = [thread EXCEPT ![t] = "done"]
      /\ UNCHANGED <<bounds, handle, app2db, db2app, pending, call, calls, asked, events, failed,
                     committed, told>>
      /\ \/ thread[t] = "notify" /\ notified' = [notified EXCEPT ![t] = events[t]]
         \/ thread[t] = "loop" /\ handle[t] = "dropped" /\ notified' = notified
  BY DEF notify, hangup, History
<1>2. TypeOK'
  <2>1. notified' \in [Tx -> SUBSET Nat]
    BY <1>1, Zenon DEF TypeOK
  <2>2. thread' \in [Tx -> {"none", "waiting", "loop", "query", "commit", "abort",
                             "notify", "done"}]
    BY <1>1 DEF TypeOK
  <2> QED BY <1>1, <2>1, <2>2, Zenon DEF TypeOK
<1>3. OnePlace'
  BY <1>1, IdsStay, Zenon
<1>4. /\ pending[t] = None /\ (db2app[t] # <<>> => Head(db2app[t]).id # 0)
      /\ t \in committed => thread[t] = "notify" /\ t \in asked
  BY <1>1, Zenon DEF StageInv, Kind
<1>5. ~bounds.shared /\ handle[t] = "open" => OwnOn(t)'
  <2> SUFFICES ASSUME ~bounds.shared, handle[t] = "open" PROVE OwnOn(t)'
    BY Zenon
  <2>1. OwnOn(t) /\ thread'[t] = "done"
    BY <1>1, Zenon DEF OwnInv, TypeOK
  <2> QED BY <1>1, <1>4, <2>1, Zenon DEF OwnOn, Waiting
<1>6. HandlerStep(t, "done")
  BY <1>1, Zenon DEF HandlerStep, TypeOK
<1>7. t \in committed => notified'[t] = events'[t]
  BY <1>1, <1>4 DEF TypeOK
<1>8. HandlerAt(t, "done")
  BY <1>1, <1>4, <1>5, <1>7, Zenon DEF HandlerAt, Kind, IdsInv
<1> QED BY <1>2, <1>3, <1>6, <1>8, MultiHandler, Zenon

\* Every step keeps the invariant.
LEMMA MultiNext == IInv /\ [Next]_vars => IInv'
<1> SUFFICES ASSUME IInv, [Next]_vars PROVE IInv'
  OBVIOUS
<1>1. CASE UNCHANGED vars
  <2>1. OnePlace'
    BY <1>1, IdsStay DEF vars, IInv
  <2>2. TypeOK' /\ IdsInv' /\ StageInv' /\ AskedInv' /\ NotifiedAll' /\ committed' \subseteq asked'
    BY <1>1, Zenon DEF vars, IInv, TypeOK, IdsInv, StageInv, AskedInv, NotifiedAll
  <2>3. ~bounds'.shared => OwnInv'
    <3>1. UNCHANGED <<bounds, handle, thread, app2db, db2app, pending, call, committed, told>>
      BY <1>1 DEF vars
    <3>2. \A u \in Tx : OwnOn(u) => OwnOn(u)'
      BY <3>1, Zenon DEF OwnOn, Waiting
    <3> QED BY <3>1, <3>2, Zenon DEF IInv, OwnInv, OneCall, OwnAnswer
  <2> QED BY <2>1, <2>2, <2>3 DEF IInv
<1>2. ASSUME NEW t \in Tx, NEW ok \in BOOLEAN, query(t, ok) PROVE IInv'
  <2>1. Take(t, "query", ok) /\ "query" \in Kind /\ committed' = committed /\ failed' \subseteq Tx
    BY <1>2 DEF query, Kind, IInv, TypeOK
  <2>2. events' \in [Tx -> SUBSET Nat] /\ \A u \in Tx \ {t} : events'[u] = events[u]
    <3>1. Head(app2db[t]).id \in Nat
      BY <2>1, Channels, Zenon DEF Take, IInv, Payload
    <3> QED BY <1>2, <3>1 DEF query, IInv, TypeOK
  <2> QED BY <2>1, <2>2, MultiTake, Zenon DEF Effects
<1>3. ASSUME NEW t \in Tx, NEW ok \in BOOLEAN, commit(t, ok) PROVE IInv'
  <2>1. /\ Take(t, "commit", ok) /\ "commit" \in Kind
        /\ committed' = committed \/ committed' = committed \cup {t}
        /\ events' = events /\ failed' = failed
    BY <1>3, Zenon DEF commit, Kind
  <2>2. events' \in [Tx -> SUBSET Nat] /\ failed' \subseteq Tx
    BY <2>1 DEF IInv, TypeOK
  <2> QED BY <2>1, <2>2, MultiTake DEF Effects
<1>4. ASSUME NEW t \in Tx, abort(t) PROVE IInv'
  <2>1. /\ Take(t, "abort", TRUE) /\ "abort" \in Kind
        /\ committed' = committed /\ events' = events /\ failed' = failed
    BY <1>4, Zenon DEF abort, Kind
  <2>2. events' \in [Tx -> SUBSET Nat] /\ failed' \subseteq Tx
    BY <2>1 DEF IInv, TypeOK
  <2> QED BY <2>1, <2>2, MultiTake, Zenon DEF Effects
<1> QED
  BY <1>1, <1>2, <1>3, <1>4, MultiOpen, MultiDrop, MultiStart, MultiReply, MultiEnd, MultiCall,
     MultiSend, MultiRecv DEF Next, Handler, Kind

\* The properties that follow.
LEMMA MultiHold == IInv => MultiTxAnswers
<1> SUFFICES ASSUME IInv PROVE OwnAnswer /\ AnsweredOnce /\ OnlyOnRequest
  BY Zenon DEF MultiTxAnswers
<1>1. OwnAnswer
  BY DEF IInv, OwnInv, OwnAnswer
<1>2. AnsweredOnce
  <2> SUFFICES ASSUME NEW a \in told, NEW b \in told, a.got = b.got, a.got # 0 PROVE a = b
    BY Zenon DEF AnsweredOnce
  <2>1. a.got \in 1..bounds.calls
    BY MultiAssumption DEF IInv, TypeOK, IdsInv
  <2>2. Holds("told", a, a.got) /\ Holds("told", b, a.got)
    BY DEF Holds
  <2>3. "told" \in Place /\ a \in Holder /\ b \in Holder
    BY Zenon DEF Place, Holder
  <2> QED BY <2>1, <2>2, <2>3 DEF IInv, OnePlace
<1>3. OnlyOnRequest
  BY DEF IInv, OwnInv, OnlyOnRequest
<1> QED BY <1>1, <1>2, <1>3

\* Calls on the handle of a multi-transaction get their own answers and each
\* answer is given once; a transaction is committed only if that was asked for;
\* callbacks are told all that a committed transaction wrote.
THEOREM MultiTheorem == Spec => []MultiTxAnswers
<1> QED BY MultiInit, MultiNext, MultiHold, PTL DEF Spec
=============================================================================
