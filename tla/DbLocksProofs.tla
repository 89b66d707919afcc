--------------------------- MODULE DbLocksProofs ---------------------------
(***************************************************************************)
(* Scripts that run at the same time give back every lock and every        *)
(* transaction, and with one writer at a time an index agrees with its     *)
(* rows, for any number of sessions and any script for each.               *)
(*                                                                         *)
(* The inductive invariant says what a script holds from the steps that it *)
(* has behind it (HoldInv), and what is in the buffer of a transaction     *)
(* that has written (WriteInv): with one writer, the index is that of the  *)
(* rows at every moment, and a buffer has been made from the rows and the  *)
(* handle that are still the committed ones.                               *)
(***************************************************************************)
EXTENDS DbLocks, TLAPS

\* The provers of every step that does not name its own.
USE SMTT(30), ZenonT(20)

\* The steps of each script.
LEMMA StepsAre ==
    /\ \A k \in {"put", "rm"} :
         Steps(k) = <<"rel_read", "begin", k, "commit", "rel_release">>
    /\ Steps("imp_create") = <<"rel_read", "begin", "build", "commit", "rel_release">>
    /\ Steps("create_index") = <<"begin", "rel_write", "build", "rel_release", "commit">>
    /\ Steps("remove_index") = <<"begin", "rel_read", "unbuild", "rel_release", "commit">>
    /\ Steps("multi_put") = <<"begin", "put", "commit">>
    /\ Steps("import_rm") = <<"begin", "rm", "commit">>
    /\ Steps("read") = <<"begin_read", "commit">>
BY Zenon DEF Steps

\* Where a script of so many steps is.
LEMMA FiveSteps ==
    ASSUME NEW s \in Sess, NEW a, NEW b, NEW c, NEW d, NEW e,
           Steps(script[s]) = <<a, b, c, d, e>>, pc[s] \in 0..5
    PROVE  /\ \A step : Did(s, step) <=>
                \/ pc[s] >= 1 /\ step = a
                \/ pc[s] >= 2 /\ step = b
                \/ pc[s] >= 3 /\ step = c
                \/ pc[s] >= 4 /\ step = d
                \/ pc[s] >= 5 /\ step = e
           /\ \A step : At(s, step) <=>
                \/ pc[s] = 0 /\ step = a
                \/ pc[s] = 1 /\ step = b
                \/ pc[s] = 2 /\ step = c
                \/ pc[s] = 3 /\ step = d
                \/ pc[s] = 4 /\ step = e
           /\ Finished(s) <=> pc[s] = 5
<1>1. Len(<<a, b, c, d, e>>) = 5
  OBVIOUS
<1>2. \A step : At(s, step) <=> pc[s] # 5 /\ <<a, b, c, d, e>>[pc[s] + 1] = step
  BY <1>1 DEF At, Finished
<1>3. \A step : Did(s, step) <=> \E i \in 1..pc[s] : <<a, b, c, d, e>>[i] = step
  BY DEF Did
<1> QED BY <1>1, <1>2, <1>3 DEF Finished

\* The same for a script of three steps.
LEMMA ThreeSteps ==
    ASSUME NEW s \in Sess, NEW a, NEW b, NEW c,
           Steps(script[s]) = <<a, b, c>>, pc[s] \in 0..3
    PROVE  /\ \A step : Did(s, step) <=>
                \/ pc[s] >= 1 /\ step = a
                \/ pc[s] >= 2 /\ step = b
                \/ pc[s] >= 3 /\ step = c
           /\ \A step : At(s, step) <=>
                \/ pc[s] = 0 /\ step = a
                \/ pc[s] = 1 /\ step = b
                \/ pc[s] = 2 /\ step = c
           /\ Finished(s) <=> pc[s] = 3
<1>1. Len(<<a, b, c>>) = 3
  OBVIOUS
<1>2. \A step : At(s, step) <=> pc[s] # 3 /\ <<a, b, c>>[pc[s] + 1] = step
  BY <1>1 DEF At, Finished
<1>3. \A step : Did(s, step) <=> \E i \in 1..pc[s] : <<a, b, c>>[i] = step
  BY DEF Did
<1> QED BY <1>1, <1>2, <1>3 DEF Finished

\* The same for a script of two steps.
LEMMA TwoSteps ==
    ASSUME NEW s \in Sess, NEW a, NEW b,
           Steps(script[s]) = <<a, b>>, pc[s] \in 0..2
    PROVE  /\ \A step : Did(s, step) <=>
                \/ pc[s] >= 1 /\ step = a
                \/ pc[s] >= 2 /\ step = b
           /\ \A step : At(s, step) <=>
                \/ pc[s] = 0 /\ step = a
                \/ pc[s] = 1 /\ step = b
           /\ Finished(s) <=> pc[s] = 2
<1>1. Len(<<a, b>>) = 2
  OBVIOUS
<1>2. \A step : At(s, step) <=> pc[s] # 2 /\ <<a, b>>[pc[s] + 1] = step
  BY <1>1 DEF At, Finished
<1>3. \A step : Did(s, step) <=> \E i \in 1..pc[s] : <<a, b>>[i] = step
  BY DEF Did
<1> QED BY <1>1, <1>2, <1>3 DEF Finished

\* The order of the steps of a script.
LEMMA Order ==
    ASSUME NEW s \in Sess, script[s] \in Script,
           pc[s] \in 0..Len(Steps(script[s]))
    PROVE  /\ At(s, "rel_read") \/ At(s, "rel_write") => ~Did(s, "rel_release")
           /\ At(s, "begin") \/ At(s, "begin_read") =>
                ~Did(s, "commit") /\ ~Wrote(s) /\ ~InTx(s)
           /\ At(s, "begin_read") => ~At(s, "begin") /\ ~Did(s, "begin")
           /\ At(s, "put") \/ At(s, "rm") \/ At(s, "build") \/ At(s, "unbuild") =>
                InTx(s) /\ Did(s, "begin") /\ ~Wrote(s)
           /\ At(s, "commit") => InTx(s)
           /\ Wrote(s) => Did(s, "begin")
           /\ Len(Steps(script[s])) \in Nat
<1>1. CASE script[s] \in {"put", "rm"}
  <2>0. Steps(script[s]) = <<"rel_read", "begin", script[s], "commit", "rel_release">>
    BY <1>1, StepsAre, Zenon
  <2>1. /\ Steps(script[s]) = <<"rel_read", "begin", script[s], "commit", "rel_release">>
        /\ pc[s] \in 0..5
    BY <2>0
  <2>2. /\ \A step : Did(s, step) <=>
             \/ pc[s] >= 1 /\ step = "rel_read"
             \/ pc[s] >= 2 /\ step = "begin"
             \/ pc[s] >= 3 /\ step = script[s]
             \/ pc[s] >= 4 /\ step = "commit"
             \/ pc[s] >= 5 /\ step = "rel_release"
        /\ \A step : At(s, step) <=>
             \/ pc[s] = 0 /\ step = "rel_read"
             \/ pc[s] = 1 /\ step = "begin"
             \/ pc[s] = 2 /\ step = script[s]
             \/ pc[s] = 3 /\ step = "commit"
             \/ pc[s] = 4 /\ step = "rel_release"
        /\ Finished(s) <=> pc[s] = 5
    BY <2>1, FiveSteps
  <2> QED BY <1>1, <2>1, <2>2 DEF InTx, Wrote
<1>2. CASE script[s] = "imp_create"
  <2>0. Steps(script[s]) = <<"rel_read", "begin", "build", "commit", "rel_release">>
    BY <1>2, StepsAre, Zenon
  <2>1. /\ Steps(script[s]) = <<"rel_read", "begin", "build", "commit", "rel_release">>
        /\ pc[s] \in 0..5
    BY <2>0
  <2>2. /\ \A step : Did(s, step) <=>
             \/ pc[s] >= 1 /\ step = "rel_read"
             \/ pc[s] >= 2 /\ step = "begin"
             \/ pc[s] >= 3 /\ step = "build"
             \/ pc[s] >= 4 /\ step = "commit"
             \/ pc[s] >= 5 /\ step = "rel_release"
        /\ \A step : At(s, step) <=>
             \/ pc[s] = 0 /\ step = "rel_read"
             \/ pc[s] = 1 /\ step = "begin"
             \/ pc[s] = 2 /\ step = "build"
             \/ pc[s] = 3 /\ step = "commit"
             \/ pc[s] = 4 /\ step = "rel_release"
        /\ Finished(s) <=> pc[s] = 5
    BY <2>1, FiveSteps
  <2> QED BY <1>2, <2>1, <2>2 DEF InTx, Wrote
<1>3. CASE script[s] = "create_index"
  <2>0. Steps(script[s]) = <<"begin", "rel_write", "build", "rel_release", "commit">>
    BY <1>3, StepsAre, Zenon
  <2>1. /\ Steps(script[s]) = <<"begin", "rel_write", "build", "rel_release", "commit">>
        /\ pc[s] \in 0..5
    BY <2>0
  <2>2. /\ \A step : Did(s, step) <=>
             \/ pc[s] >= 1 /\ step = "begin"
             \/ pc[s] >= 2 /\ step = "rel_write"
             \/ pc[s] >= 3 /\ step = "build"
             \/ pc[s] >= 4 /\ step = "rel_release"
             \/ pc[s] >= 5 /\ step = "commit"
        /\ \A step : At(s, step) <=>
             \/ pc[s] = 0 /\ step = "begin"
             \/ pc[s] = 1 /\ step = "rel_write"
             \/ pc[s] = 2 /\ step = "build"
             \/ pc[s] = 3 /\ step = "rel_release"
             \/ pc[s] = 4 /\ step = "commit"
        /\ Finished(s) <=> pc[s] = 5
    BY <2>1, FiveSteps
  <2> QED BY <1>3, <2>1, <2>2 DEF InTx, Wrote
<1>4. CASE script[s] = "remove_index"
  <2>0. Steps(script[s]) = <<"begin", "rel_read", "unbuild", "rel_release", "commit">>
    BY <1>4, StepsAre, Zenon
  <2>1. /\ Steps(script[s]) = <<"begin", "rel_read", "unbuild", "rel_release", "commit">>
        /\ pc[s] \in 0..5
    BY <2>0
  <2>2. /\ \A step : Did(s, step) <=>
             \/ pc[s] >= 1 /\ step = "begin"
             \/ pc[s] >= 2 /\ step = "rel_read"
             \/ pc[s] >= 3 /\ step = "unbuild"
             \/ pc[s] >= 4 /\ step = "rel_release"
             \/ pc[s] >= 5 /\ step = "commit"
        /\ \A step : At(s, step) <=>
             \/ pc[s] = 0 /\ step = "begin"
             \/ pc[s] = 1 /\ step = "rel_read"
             \/ pc[s] = 2 /\ step = "unbuild"
             \/ pc[s] = 3 /\ step = "rel_release"
             \/ pc[s] = 4 /\ step = "commit"
        /\ Finished(s) <=> pc[s] = 5
    BY <2>1, FiveSteps
  <2> QED BY <1>4, <2>1, <2>2 DEF InTx, Wrote
<1>5. CASE script[s] = "multi_put"
  <2>0. Steps(script[s]) = <<"begin", "put", "commit">>
    BY <1>5, StepsAre, Zenon
  <2>1. Steps(script[s]) = <<"begin", "put", "commit">> /\ pc[s] \in 0..3
    BY <2>0
  <2>2. /\ \A step : Did(s, step) <=>
             \/ pc[s] >= 1 /\ step = "begin"
             \/ pc[s] >= 2 /\ step = "put"
             \/ pc[s] >= 3 /\ step = "commit"
        /\ \A step : At(s, step) <=>
             \/ pc[s] = 0 /\ step = "begin"
             \/ pc[s] = 1 /\ step = "put"
             \/ pc[s] = 2 /\ step = "commit"
        /\ Finished(s) <=> pc[s] = 3
    BY <2>1, ThreeSteps
  <2> QED BY <1>5, <2>1, <2>2 DEF InTx, Wrote
<1>6. CASE script[s] = "import_rm"
  <2>0. Steps(script[s]) = <<"begin", "rm", "commit">>
    BY <1>6, StepsAre, Zenon
  <2>1. Steps(script[s]) = <<"begin", "rm", "commit">> /\ pc[s] \in 0..3
    BY <2>0
  <2>2. /\ \A step : Did(s, step) <=>
             \/ pc[s] >= 1 /\ step = "begin"
             \/ pc[s] >= 2 /\ step = "rm"
             \/ pc[s] >= 3 /\ step = "commit"
        /\ \A step : At(s, step) <=>
             \/ pc[s] = 0 /\ step = "begin"
             \/ pc[s] = 1 /\ step = "rm"
             \/ pc[s] = 2 /\ step = "commit"
        /\ Finished(s) <=> pc[s] = 3
    BY <2>1, ThreeSteps
  <2> QED BY <1>6, <2>1, <2>2 DEF InTx, Wrote
<1>7. CASE script[s] = "read"
  <2>0. Steps(script[s]) = <<"begin_read", "commit">>
    BY <1>7, StepsAre, Zenon
  <2>1. Steps(script[s]) = <<"begin_read", "commit">> /\ pc[s] \in 0..2
    BY <2>0
  <2>2. /\ \A step : Did(s, step) <=>
             \/ pc[s] >= 1 /\ step = "begin_read"
             \/ pc[s] >= 2 /\ step = "commit"
        /\ \A step : At(s, step) <=>
             \/ pc[s] = 0 /\ step = "begin_read"
             \/ pc[s] = 1 /\ step = "commit"
        /\ Finished(s) <=> pc[s] = 2
    BY <2>1, TwoSteps
  <2> QED BY <1>7, <2>1, <2>2 DEF InTx, Wrote
<1> QED BY <1>1, <1>2, <1>3, <1>4, <1>5, <1>6, <1>7 DEF Script

\* A script gives back the lock that it takes, and ends its transaction.
LEMMA Complete ==
    ASSUME NEW k \in Script
    PROVE  /\ \A i \in 1..Len(Steps(k)) : Steps(k)[i] \in {"rel_read", "rel_write"} =>
                \E j \in 1..Len(Steps(k)) : Steps(k)[j] = "rel_release"
           /\ \E i \in 1..Len(Steps(k)) : Steps(k)[i] = "commit"
           /\ Len(Steps(k)) \in Nat
<1>1. CASE k \in {"put", "rm"}
  <2>1. Steps(k) = <<"rel_read", "begin", k, "commit", "rel_release">>
    BY <1>1, StepsAre, Zenon
  <2>2. Len(Steps(k)) = 5 /\ Steps(k)[4] = "commit" /\ Steps(k)[5] = "rel_release"
    BY <2>1
  <2> QED BY <2>2
<1>2. CASE k = "imp_create"
  <2>1. Steps(k) = <<"rel_read", "begin", "build", "commit", "rel_release">>
    BY <1>2, StepsAre, Zenon
  <2>2. Len(Steps(k)) = 5 /\ Steps(k)[4] = "commit" /\ Steps(k)[5] = "rel_release"
    BY <2>1
  <2> QED BY <2>2
<1>3. CASE k = "create_index"
  <2>1. Steps(k) = <<"begin", "rel_write", "build", "rel_release", "commit">>
    BY <1>3, StepsAre, Zenon
  <2>2. Len(Steps(k)) = 5 /\ Steps(k)[5] = "commit" /\ Steps(k)[4] = "rel_release"
    BY <2>1
  <2> QED BY <2>2
<1>4. CASE k = "remove_index"
  <2>1. Steps(k) = <<"begin", "rel_read", "unbuild", "rel_release", "commit">>
    BY <1>4, StepsAre, Zenon
  <2>2. Len(Steps(k)) = 5 /\ Steps(k)[5] = "commit" /\ Steps(k)[4] = "rel_release"
    BY <2>1
  <2> QED BY <2>2
<1>5. CASE k = "multi_put"
  <2>1. Steps(k) = <<"begin", "put", "commit">>
    BY <1>5, StepsAre, Zenon
  <2>2. Len(Steps(k)) = 3 /\ Steps(k)[3] = "commit"
    BY <2>1
  <2> QED BY <1>5, <2>1, <2>2
<1>6. CASE k = "import_rm"
  <2>1. Steps(k) = <<"begin", "rm", "commit">>
    BY <1>6, StepsAre, Zenon
  <2>2. Len(Steps(k)) = 3 /\ Steps(k)[3] = "commit"
    BY <2>1
  <2> QED BY <1>6, <2>1, <2>2
<1>7. CASE k = "read"
  <2>1. Steps(k) = <<"begin_read", "commit">>
    BY <1>7, StepsAre, Zenon
  <2>2. Len(Steps(k)) = 2 /\ Steps(k)[2] = "commit"
    BY <2>1
  <2> QED BY <1>7, <2>1, <2>2
<1> QED BY <1>1, <1>2, <1>3, <1>4, <1>5, <1>6, <1>7 DEF Script

\* A step that is done is added to what its script has behind it.
LEMMA Advance ==
    ASSUME LocksTypeOK, NEW s \in Sess, NEW x, At(s, x), Step(s)
    PROVE  /\ \A t \in Sess : \A step :
                 Did(t, step)' <=> Did(t, step) \/ (t = s /\ step = x)
           /\ pc' \in [Sess -> Nat] /\ script' \in [Sess -> Script]
           /\ \A t \in Sess : pc'[t] \in 0..Len(Steps(script[t]))'
           /\ exclusive' = exclusive
<1>1. /\ pc \in [Sess -> Nat] /\ pc[s] \in 0..Len(Steps(script[s]))
      /\ pc' = [pc EXCEPT ![s] = @ + 1] /\ script' = script /\ exclusive' = exclusive
  BY DEF LocksTypeOK, Step
<1>2. pc[s] # Len(Steps(script[s])) /\ Steps(script[s])[pc[s] + 1] = x
  BY DEF At, Finished
<1>3. pc[s] + 1 \in 0..Len(Steps(script[s]))
  <2>1. Len(Steps(script[s])) \in Nat
    BY <1>1, Order DEF LocksTypeOK
  <2> QED BY <1>1, <1>2, <2>1
<1>4. \A t \in Sess : Steps(script[t])' = Steps(script[t])
  BY <1>1 DEF Steps
<1>5. ASSUME NEW t \in Sess, NEW step
      PROVE  Did(t, step)' <=> Did(t, step) \/ (t = s /\ step = x)
  <2>1. CASE t = s
    <3>1. pc'[t] = pc[t] + 1 /\ 1..(pc[t] + 1) = (1..pc[t]) \cup {pc[t] + 1}
      BY <1>1, <2>1
    <3> QED BY <1>2, <1>4, <2>1, <3>1 DEF Did
  <2>2. CASE t # s
    BY <1>1, <1>4, <2>2 DEF Did
  <2> QED BY <2>1, <2>2
<1>6. \A t \in Sess : pc'[t] \in 0..Len(Steps(script[t]))'
  BY <1>1, <1>3, <1>4, Zenon DEF LocksTypeOK
<1> QED BY <1>1, <1>5, <1>6 DEF LocksTypeOK

\* The invariant of writes, when neither a transaction nor what it wrote changes.
LEMMA WritesKept ==
    ASSUME WriteInv, UNCHANGED <<exclusive, Db, tx, loaded, buf>>,
           \A t \in Sess : (InTx(t)' <=> InTx(t)) /\ (Wrote(t)' <=> Wrote(t))
    PROVE  WriteInv'
BY Zenon DEF WriteInv, Db, PutBuf, RmBuf, CreateBuf, DropBuf, Entries

\* The invariant of locks, from what becomes of each session.
LEMMA HoldFrom ==
    ASSUME readers' \subseteq Sess,
           \A t \in Sess : t \in readers' <=> Did(t, "rel_read")' /\ ~Did(t, "rel_release")',
           \A t \in Sess : writer' = t <=> Did(t, "rel_write")' /\ ~Did(t, "rel_release")',
           \A t \in Sess : /\ ~InTx(t)' => tx'[t] = "none"
                           /\ InTx(t)' /\ Did(t, "begin")' => tx'[t] = "write"
                           /\ InTx(t)' /\ ~Did(t, "begin")' => tx'[t] = "read"
    PROVE  HoldInv'
<1>1. readers' = {t \in Sess : Did(t, "rel_read")' /\ ~Did(t, "rel_release")'}
  OBVIOUS
<1>2. \A t \in Sess :
        tx'[t] = IF ~InTx(t)' THEN "none" ELSE IF Did(t, "begin")' THEN "write" ELSE "read"
  OBVIOUS
<1> QED BY <1>1, <1>2 DEF HoldInv

\* The same facts before the step.
LEMMA HoldGives ==
    ASSUME HoldInv
    PROVE  /\ \A t \in Sess : t \in readers <=> Did(t, "rel_read") /\ ~Did(t, "rel_release")
           /\ \A t \in Sess : writer = t <=> Did(t, "rel_write") /\ ~Did(t, "rel_release")
           /\ \A t \in Sess : /\ ~InTx(t) => tx[t] = "none"
                              /\ InTx(t) /\ Did(t, "begin") => tx[t] = "write"
                              /\ InTx(t) /\ ~Did(t, "begin") => tx[t] = "read"
BY DEF HoldInv

\* What commit_tx(s) makes of the index.
LEMMA CommitIs ==
    ASSUME NEW s \in Sess, commit_tx(s)
    PROVE  /\ buf[s].ix = "created" => index' = buf[s].iput /\ indexed' = version + 1
           /\ buf[s].ix = "dropped" => index' = {} /\ indexed' = Nothing
           /\ buf[s].ix = "same" =>
                /\ index' = IF loaded[s] = indexed THEN (index \ buf[s].idel) \cup buf[s].iput
                                                   ELSE index
                /\ indexed' = indexed
<1>1. CASE buf[s].ix = "created"
  BY <1>1, Zenon DEF commit_tx, IndexAfter
<1>2. CASE buf[s].ix = "dropped"
  BY <1>2, Zenon DEF commit_tx, IndexAfter
<1>3. CASE buf[s].ix = "same"
  BY <1>3, Zenon DEF commit_tx, IndexAfter
<1> QED BY <1>1, <1>2, <1>3, Zenon

\* No script has begun.
LEMMA StartInv == LocksInit => LocksIInv
<1> SUFFICES ASSUME LocksInit PROVE LocksIInv
  OBVIOUS
<1>1. script \in [Sess -> Script] /\ exclusive \in BOOLEAN
  BY LocksAssumption DEF LocksInit
<1>2. \A s \in Sess : pc[s] = 0 /\ pc[s] \in 0..Len(Steps(script[s]))
  BY <1>1, Complete DEF LocksInit
<1>3. \A s \in Sess : \A x : ~Did(s, x)
  BY <1>2 DEF Did
<1>4. LocksTypeOK
  BY <1>1, <1>2 DEF LocksInit, LocksTypeOK, NoBuf, Buf
<1>5. HoldInv
  BY <1>3, LocksAssumption DEF LocksInit, HoldInv, InTx
<1>6. WriteInv
  BY <1>3 DEF LocksInit, WriteInv, InTx
<1> QED BY <1>4, <1>5, <1>6 DEF LocksIInv

\* Every step of a script keeps the invariant.
LEMMA StepInv == LocksIInv /\ [LocksNext]_lockVars => LocksIInv'
<1> SUFFICES ASSUME LocksIInv, [LocksNext]_lockVars PROVE LocksIInv'
  OBVIOUS
<1> USE DEF LocksIInv
<1>0. \A s \in Sess : script[s] \in Script /\ pc[s] \in 0..Len(Steps(script[s]))
  BY DEF LocksTypeOK
<1>1. CASE UNCHANGED lockVars
  <2>1. \A t \in Sess : \A step : Did(t, step)' <=> Did(t, step)
    BY <1>1 DEF lockVars, Did
  <2>2. LocksTypeOK'
    BY <1>1 DEF lockVars, LocksTypeOK
  <2>3. HoldInv'
    BY <1>1, <2>1 DEF lockVars, HoldInv, InTx
  <2>4. WriteInv'
    BY <1>1, <2>1, WritesKept DEF lockVars, Db, InTx, Wrote
  <2> QED BY <2>2, <2>3, <2>4
<1>2. ASSUME NEW s \in Sess, rel_read(s) PROVE LocksIInv'
  <2>1. At(s, "rel_read") /\ Step(s)
    BY <1>2 DEF rel_read
  <2>2. /\ \A t \in Sess : \A step : Did(t, step)' <=> Did(t, step) \/ (t = s /\ step = "rel_read")
        /\ pc' \in [Sess -> Nat] /\ script' \in [Sess -> Script] /\ exclusive' = exclusive
        /\ \A t \in Sess : pc'[t] \in 0..Len(Steps(script[t]))'
    BY <2>1, Advance
  <2>3. LocksTypeOK'
    BY <1>2, <2>2 DEF rel_read, LocksTypeOK, Db, TxState
  <2>4. ~Did(s, "rel_release")
    BY <1>0, <2>1, Order
  <2>5. HoldInv'
    <3>1. readers' \subseteq Sess
      BY <2>3 DEF LocksTypeOK
    <3>2. \A t \in Sess : t \in readers' <=> Did(t, "rel_read")' /\ ~Did(t, "rel_release")'
      BY <1>2, <2>2, <2>4, HoldGives DEF rel_read
    <3>3. \A t \in Sess : writer' = t <=> Did(t, "rel_write")' /\ ~Did(t, "rel_release")'
      BY <1>2, <2>2, <2>4, HoldGives, LocksAssumption DEF rel_read
    <3>4. \A t \in Sess :
            (InTx(t)' <=> InTx(t)) /\ (Did(t, "begin")' <=> Did(t, "begin")) /\ tx'[t] = tx[t]
      BY <1>2, <2>2 DEF rel_read, InTx, TxState
    <3> QED BY <3>1, <3>2, <3>3, <3>4, HoldGives, HoldFrom
  <2>6. WriteInv'
    BY <1>2, <2>2, WritesKept DEF rel_read, TxState, InTx, Wrote
  <2> QED BY <2>3, <2>5, <2>6
<1>3. ASSUME NEW s \in Sess, rel_write(s) PROVE LocksIInv'
  <2>1. At(s, "rel_write") /\ Step(s)
    BY <1>3 DEF rel_write
  <2>2. /\ \A t \in Sess : \A step : Did(t, step)' <=> Did(t, step) \/ (t = s /\ step = "rel_write")
        /\ pc' \in [Sess -> Nat] /\ script' \in [Sess -> Script] /\ exclusive' = exclusive
        /\ \A t \in Sess : pc'[t] \in 0..Len(Steps(script[t]))'
    BY <2>1, Advance
  <2>3. LocksTypeOK'
    BY <1>3, <2>2 DEF rel_write, LocksTypeOK, Db, TxState
  <2>4. ~Did(s, "rel_release")
    BY <1>0, <2>1, Order
  <2>5. HoldInv'
    <3>1. readers' \subseteq Sess
      BY <2>3 DEF LocksTypeOK
    <3>2. \A t \in Sess : t \in readers' <=> Did(t, "rel_read")' /\ ~Did(t, "rel_release")'
      BY <1>3, <2>2, <2>4, HoldGives DEF rel_write
    <3>3. \A t \in Sess : writer' = t <=> Did(t, "rel_write")' /\ ~Did(t, "rel_release")'
      BY <1>3, <2>2, <2>4, HoldGives, LocksAssumption DEF rel_write
    <3>4. \A t \in Sess :
            (InTx(t)' <=> InTx(t)) /\ (Did(t, "begin")' <=> Did(t, "begin")) /\ tx'[t] = tx[t]
      BY <1>3, <2>2 DEF rel_write, InTx, TxState
    <3> QED BY <3>1, <3>2, <3>3, <3>4, HoldGives, HoldFrom
  <2>6. WriteInv'
    BY <1>3, <2>2, WritesKept DEF rel_write, TxState, InTx, Wrote
  <2> QED BY <2>3, <2>5, <2>6
<1>4. ASSUME NEW s \in Sess, rel_release(s) PROVE LocksIInv'
  <2>1. At(s, "rel_release") /\ Step(s)
    BY <1>4 DEF rel_release
  <2>2. /\ \A t \in Sess :
             \A step : Did(t, step)' <=> Did(t, step) \/ (t = s /\ step = "rel_release")
        /\ pc' \in [Sess -> Nat] /\ script' \in [Sess -> Script] /\ exclusive' = exclusive
        /\ \A t \in Sess : pc'[t] \in 0..Len(Steps(script[t]))'
    BY <2>1, Advance
  <2>3. LocksTypeOK'
    BY <1>4, <2>2 DEF rel_release, LocksTypeOK, Db, TxState
  <2>5. HoldInv'
    <3>1. readers' \subseteq Sess
      BY <2>3 DEF LocksTypeOK
    <3>2. \A t \in Sess : t \in readers' <=> Did(t, "rel_read")' /\ ~Did(t, "rel_release")'
      BY <1>4, <2>2, HoldGives DEF rel_release
    <3>3. \A t \in Sess : writer' = t <=> Did(t, "rel_write")' /\ ~Did(t, "rel_release")'
      BY <1>4, <2>2, HoldGives, LocksAssumption DEF rel_release
    <3>4. \A t \in Sess :
            (InTx(t)' <=> InTx(t)) /\ (Did(t, "begin")' <=> Did(t, "begin")) /\ tx'[t] = tx[t]
      BY <1>4, <2>2 DEF rel_release, InTx, TxState
    <3> QED BY <3>1, <3>2, <3>3, <3>4, HoldGives, HoldFrom
  <2>6. WriteInv'
    BY <1>4, <2>2, WritesKept DEF rel_release, TxState, InTx, Wrote
  <2> QED BY <2>3, <2>5, <2>6
<1>5. ASSUME NEW s \in Sess, begin(s) PROVE LocksIInv'
  <2>1. (At(s, "begin") \/ At(s, "begin_read")) /\ Step(s)
    BY <1>5 DEF begin
  <2>2. PICK x \in {"begin", "begin_read"} : At(s, x) /\ (x = "begin" <=> At(s, "begin"))
    BY <1>0, <2>1, Order
  <2>3. /\ \A t \in Sess : \A step : Did(t, step)' <=> Did(t, step) \/ (t = s /\ step = x)
        /\ pc' \in [Sess -> Nat] /\ script' \in [Sess -> Script] /\ exclusive' = exclusive
        /\ \A t \in Sess : pc'[t] \in 0..Len(Steps(script[t]))'
    BY <2>1, <2>2, Advance
  <2>4. ~Did(s, "commit") /\ ~Wrote(s) /\ ~InTx(s) /\ (x # "begin" => ~Did(s, "begin"))
    BY <1>0, <2>2, Order
  <2>5. tx' = [tx EXCEPT ![s] = IF x = "begin" THEN "write" ELSE "read"]
    BY <1>5, <2>2, Zenon DEF begin, Mode
  <2>6. LocksTypeOK'
    <3>1. tx' \in [Sess -> {"none", "read", "write"}]
      BY <2>5 DEF LocksTypeOK
    <3> QED BY <1>5, <2>3, <3>1 DEF begin, LocksTypeOK, Db
  <2>7. \A t \in Sess : /\ InTx(t)' <=> InTx(t) \/ t = s
                        /\ Wrote(t)' <=> Wrote(t)
    BY <2>2, <2>3, <2>4 DEF InTx, Wrote
  <2>8. HoldInv'
    <3>1. readers' = readers /\ writer' = writer /\ readers \subseteq Sess
      BY <1>5 DEF begin, LocksTypeOK
    <3>2. \A t \in Sess : /\ ~InTx(t)' => tx'[t] = "none"
                          /\ InTx(t)' /\ Did(t, "begin")' => tx'[t] = "write"
                          /\ InTx(t)' /\ ~Did(t, "begin")' => tx'[t] = "read"
      BY <2>2, <2>3, <2>4, <2>5, <2>7, HoldGives DEF LocksTypeOK
    <3>3. \A t \in Sess : /\ Did(t, "rel_read")' <=> Did(t, "rel_read")
                          /\ Did(t, "rel_write")' <=> Did(t, "rel_write")
                          /\ Did(t, "rel_release")' <=> Did(t, "rel_release")
      BY <2>2, <2>3
    <3> QED BY <3>1, <3>2, <3>3, HoldGives, HoldFrom
  <2>9. WriteInv'
    <3>1. \A t \in Sess : ~(InTx(t)' /\ Wrote(t)') => buf'[t] = NoBuf
      BY <1>5, <2>4, <2>7 DEF begin, WriteInv
    <3>2. exclusive => \A t, u \in Sess : tx'[t] = "write" /\ tx'[u] # "none" => t = u
      BY <1>5, <2>2, <2>5 DEF begin, WriteInv, LocksTypeOK, Mode
    <3>3. UNCHANGED <<exclusive, rows, index, indexed, loaded, buf>>
      BY <1>5, <2>3 DEF begin, Db
    <3>4. \A t \in Sess : /\ PutBuf(t)' = PutBuf(t) /\ RmBuf(t)' = RmBuf(t)
                          /\ CreateBuf' = CreateBuf /\ DropBuf' = DropBuf
      BY <3>3 DEF PutBuf, RmBuf, CreateBuf, DropBuf, Entries
    <3> QED BY <2>4, <2>7, <3>1, <3>2, <3>3, <3>4, Zenon DEF WriteInv
  <2> QED BY <2>6, <2>8, <2>9
<1>6. ASSUME NEW s \in Sess, put(s) PROVE LocksIInv'
  <2>1. At(s, "put") /\ Step(s)
    BY <1>6 DEF put
  <2>2. /\ \A t \in Sess : \A step : Did(t, step)' <=> Did(t, step) \/ (t = s /\ step = "put")
        /\ pc' \in [Sess -> Nat] /\ script' \in [Sess -> Script] /\ exclusive' = exclusive
        /\ \A t \in Sess : pc'[t] \in 0..Len(Steps(script[t]))'
    BY <2>1, Advance
  <2>3. InTx(s) /\ Did(s, "begin") /\ ~Wrote(s)
    BY <1>0, <2>1, Order
  <2>5. buf' = [buf EXCEPT ![s] = PutBuf(s)]
    BY <1>6 DEF put
  <2>6. LocksTypeOK'
    <3>1. PutBuf(s) \in Buf
      BY DEF LocksTypeOK, Buf, PutBuf, Entries
    <3>2. buf' \in [Sess -> Buf]
      BY <2>5, <3>1 DEF LocksTypeOK
    <3>3. loaded' \in [Sess -> Nat \cup {Nothing}]
      BY <1>6 DEF put, LocksTypeOK
    <3> QED BY <1>6, <2>2, <3>2, <3>3, Zenon DEF put, LocksTypeOK, Db
  <2>7. \A t \in Sess : /\ InTx(t)' <=> InTx(t)
                        /\ Wrote(t)' <=> Wrote(t) \/ t = s
    BY <2>2 DEF InTx, Wrote
  <2>8. HoldInv'
    <3>1. readers' \subseteq Sess
      BY <2>6 DEF LocksTypeOK
    <3>2. readers' = readers /\ writer' = writer /\ tx' = tx
      BY <1>6 DEF put
    <3> QED BY <2>2, <2>7, <3>1, <3>2, HoldGives, HoldFrom
  <2>9. WriteInv'
    <3>1. \A t \in Sess : ~(InTx(t)' /\ Wrote(t)') => buf'[t] = NoBuf
      BY <2>3, <2>5, <2>7, Zenon DEF WriteInv, LocksTypeOK
    <3>2. buf'[s] \in {PutBuf(s), RmBuf(s)}' /\ loaded'[s] = indexed'
      BY <1>6, <2>5 DEF put, LocksTypeOK, Db, PutBuf, Entries
    <3>3. \A t \in Sess \ {s} : buf'[t] = buf[t] /\ loaded'[t] = loaded[t]
      BY <1>6, <2>5 DEF put, LocksTypeOK
    <3>4. UNCHANGED <<exclusive, rows, index, indexed, tx>>
      BY <1>6, <2>2 DEF put, Db
    <3>5. \A t \in Sess : /\ PutBuf(t)' = PutBuf(t) /\ RmBuf(t)' = RmBuf(t)
                          /\ CreateBuf' = CreateBuf /\ DropBuf' = DropBuf
      BY <3>4, Zenon DEF PutBuf, RmBuf, CreateBuf, DropBuf, Entries
    <3> QED BY <2>7, <3>1, <3>2, <3>3, <3>4, <3>5 DEF WriteInv
  <2> QED BY <2>6, <2>8, <2>9
<1>7. ASSUME NEW s \in Sess, rm(s) PROVE LocksIInv'
  <2>1. At(s, "rm") /\ Step(s)
    BY <1>7 DEF rm
  <2>2. /\ \A t \in Sess : \A step : Did(t, step)' <=> Did(t, step) \/ (t = s /\ step = "rm")
        /\ pc' \in [Sess -> Nat] /\ script' \in [Sess -> Script] /\ exclusive' = exclusive
        /\ \A t \in Sess : pc'[t] \in 0..Len(Steps(script[t]))'
    BY <2>1, Advance, Zenon
  <2>3. InTx(s) /\ Did(s, "begin") /\ ~Wrote(s)
    BY <1>0, <2>1, Order
  <2>5. buf' = [buf EXCEPT ![s] = RmBuf(s)]
    BY <1>7 DEF rm
  <2>6. LocksTypeOK'
    <3>1. RmBuf(s) \in Buf
      BY DEF LocksTypeOK, Buf, RmBuf, Entries
    <3>2. buf' \in [Sess -> Buf]
      BY <2>5, <3>1 DEF LocksTypeOK
    <3>3. loaded' \in [Sess -> Nat \cup {Nothing}]
      BY <1>7 DEF rm, LocksTypeOK
    <3> QED BY <1>7, <2>2, <3>2, <3>3, Zenon DEF rm, LocksTypeOK, Db
  <2>7. \A t \in Sess : /\ InTx(t)' <=> InTx(t)
                        /\ Wrote(t)' <=> Wrote(t) \/ t = s
    BY <2>2 DEF InTx, Wrote
  <2>8. HoldInv'
    <3>1. readers' \subseteq Sess
      BY <2>6 DEF LocksTypeOK
    <3>2. readers' = readers /\ writer' = writer /\ tx' = tx
      BY <1>7, Zenon DEF rm
    <3> QED BY <2>2, <2>7, <3>1, <3>2, HoldGives, HoldFrom
  <2>9. WriteInv'
    <3>1. \A t \in Sess : ~(InTx(t)' /\ Wrote(t)') => buf'[t] = NoBuf
      BY <2>3, <2>5, <2>7, Zenon DEF WriteInv, LocksTypeOK
    <3>2. buf'[s] \in {PutBuf(s), RmBuf(s)}' /\ loaded'[s] = indexed'
      BY <1>7, <2>5 DEF rm, LocksTypeOK, Db, RmBuf, Entries
    <3>3. \A t \in Sess \ {s} : buf'[t] = buf[t] /\ loaded'[t] = loaded[t]
      BY <1>7, <2>5 DEF rm, LocksTypeOK
    <3>4. UNCHANGED <<exclusive, rows, index, indexed, tx>>
      BY <1>7, <2>2 DEF rm, Db
    <3>5. \A t \in Sess : /\ PutBuf(t)' = PutBuf(t) /\ RmBuf(t)' = RmBuf(t)
                          /\ CreateBuf' = CreateBuf /\ DropBuf' = DropBuf
      BY <3>4, Zenon DEF PutBuf, RmBuf, CreateBuf, DropBuf, Entries
    <3> QED BY <2>7, <3>1, <3>2, <3>3, <3>4, <3>5 DEF WriteInv
  <2> QED BY <2>6, <2>8, <2>9
<1>8. ASSUME NEW s \in Sess, build(s) PROVE LocksIInv'
  <2>1. At(s, "build") /\ Step(s)
    BY <1>8 DEF build
  <2>2. /\ \A t \in Sess : \A step : Did(t, step)' <=> Did(t, step) \/ (t = s /\ step = "build")
        /\ pc' \in [Sess -> Nat] /\ script' \in [Sess -> Script] /\ exclusive' = exclusive
        /\ \A t \in Sess : pc'[t] \in 0..Len(Steps(script[t]))'
    BY <2>1, Advance, Zenon
  <2>3. InTx(s) /\ Did(s, "begin") /\ ~Wrote(s)
    BY <1>0, <2>1, Order
  <2>5. buf' = [buf EXCEPT ![s] = CreateBuf]
    BY <1>8 DEF build
  <2>6. LocksTypeOK'
    <3>1. CreateBuf \in Buf
      BY DEF LocksTypeOK, Buf, CreateBuf, Entries
    <3>2. buf' \in [Sess -> Buf]
      BY <2>5, <3>1 DEF LocksTypeOK
    <3>3. loaded' \in [Sess -> Nat \cup {Nothing}]
      BY <1>8 DEF build, LocksTypeOK
    <3> QED BY <1>8, <2>2, <3>2, <3>3, Zenon DEF build, LocksTypeOK, Db
  <2>7. \A t \in Sess : /\ InTx(t)' <=> InTx(t)
                        /\ Wrote(t)' <=> Wrote(t) \/ t = s
    BY <2>2 DEF InTx, Wrote
  <2>8. HoldInv'
    <3>1. readers' \subseteq Sess
      BY <2>6 DEF LocksTypeOK
    <3>2. readers' = readers /\ writer' = writer /\ tx' = tx
      BY <1>8 DEF build
    <3> QED BY <2>2, <2>7, <3>1, <3>2, HoldGives, HoldFrom
  <2>9. WriteInv'
    <3>1. \A t \in Sess : ~(InTx(t)' /\ Wrote(t)') => buf'[t] = NoBuf
      BY <2>3, <2>5, <2>7, Zenon DEF WriteInv, LocksTypeOK
    <3>2. buf'[s] = (IF indexed = Nothing THEN CreateBuf ELSE DropBuf)'
      BY <1>8, <2>5 DEF build, LocksTypeOK, Db, CreateBuf
    <3>3. \A t \in Sess \ {s} : buf'[t] = buf[t] /\ loaded'[t] = loaded[t]
      BY <1>8, <2>5 DEF build, LocksTypeOK
    <3>4. UNCHANGED <<exclusive, rows, index, indexed, tx>>
      BY <1>8, <2>2, Zenon DEF build, Db
    <3>5. \A t \in Sess : /\ PutBuf(t)' = PutBuf(t) /\ RmBuf(t)' = RmBuf(t)
                          /\ CreateBuf' = CreateBuf /\ DropBuf' = DropBuf
      BY <3>4 DEF PutBuf, RmBuf, CreateBuf, DropBuf, Entries
    <3> QED BY <2>7, <3>1, <3>2, <3>3, <3>4, <3>5 DEF WriteInv
  <2> QED BY <2>6, <2>8, <2>9
<1>9. ASSUME NEW s \in Sess, unbuild(s) PROVE LocksIInv'
  <2>1. At(s, "unbuild") /\ Step(s)
    BY <1>9 DEF unbuild
  <2>2. /\ \A t \in Sess : \A step : Did(t, step)' <=> Did(t, step) \/ (t = s /\ step = "unbuild")
        /\ pc' \in [Sess -> Nat] /\ script' \in [Sess -> Script] /\ exclusive' = exclusive
        /\ \A t \in Sess : pc'[t] \in 0..Len(Steps(script[t]))'
    BY <2>1, Advance
  <2>3. InTx(s) /\ Did(s, "begin") /\ ~Wrote(s)
    BY <1>0, <2>1, Order
  <2>5. buf' = [buf EXCEPT ![s] = DropBuf]
    BY <1>9 DEF unbuild
  <2>6. LocksTypeOK'
    <3>1. DropBuf \in Buf
      BY DEF LocksTypeOK, Buf, DropBuf, Entries
    <3>2. buf' \in [Sess -> Buf]
      BY <2>5, <3>1 DEF LocksTypeOK
    <3>3. loaded' \in [Sess -> Nat \cup {Nothing}]
      BY <1>9 DEF unbuild, LocksTypeOK
    <3> QED BY <1>9, <2>2, <3>2, <3>3 DEF unbuild, LocksTypeOK, Db
  <2>7. \A t \in Sess : /\ InTx(t)' <=> InTx(t)
                        /\ Wrote(t)' <=> Wrote(t) \/ t = s
    BY <2>2 DEF InTx, Wrote
  <2>8. HoldInv'
    <3>1. readers' \subseteq Sess
      BY <2>6 DEF LocksTypeOK
    <3>2. readers' = readers /\ writer' = writer /\ tx' = tx
      BY <1>9 DEF unbuild
    <3> QED BY <2>2, <2>7, <3>1, <3>2, HoldGives, HoldFrom
  <2>9. WriteInv'
    <3>1. \A t \in Sess : ~(InTx(t)' /\ Wrote(t)') => buf'[t] = NoBuf
      BY <2>3, <2>5, <2>7, Zenon DEF WriteInv, LocksTypeOK
    <3>2. buf'[s] = (IF indexed = Nothing THEN CreateBuf ELSE DropBuf)'
      BY <1>9, <2>5 DEF unbuild, LocksTypeOK, Db, DropBuf
    <3>3. \A t \in Sess \ {s} : buf'[t] = buf[t] /\ loaded'[t] = loaded[t]
      BY <1>9, <2>5 DEF unbuild, LocksTypeOK
    <3>4. UNCHANGED <<exclusive, rows, index, indexed, tx>>
      BY <1>9, <2>2 DEF unbuild, Db
    <3>5. \A t \in Sess : /\ PutBuf(t)' = PutBuf(t) /\ RmBuf(t)' = RmBuf(t)
                          /\ CreateBuf' = CreateBuf /\ DropBuf' = DropBuf
      BY <3>4 DEF PutBuf, RmBuf, CreateBuf, DropBuf, Entries
    <3> QED BY <2>7, <3>1, <3>2, <3>3, <3>4, <3>5 DEF WriteInv
  <2> QED BY <2>6, <2>8, <2>9
<1>10. ASSUME NEW s \in Sess, fail(s) PROVE LocksIInv'
  <2>1. /\ pc' = [pc EXCEPT ![s] = Len(Steps(script[s]))] /\ UNCHANGED <<exclusive, script>>
        /\ readers' = readers \ {s} /\ writer' = IF writer = s THEN Nothing ELSE writer
        /\ tx' = [tx EXCEPT ![s] = "none"] /\ buf' = [buf EXCEPT ![s] = NoBuf]
        /\ UNCHANGED <<Db, loaded>>
    BY <1>10 DEF fail
  <2>2. Len(Steps(script[s])) \in Nat
    BY <1>0, Complete
  <2>3. \A t \in Sess : Steps(script[t])' = Steps(script[t])
    BY <2>1 DEF Steps
  <2>4. \A t \in Sess \ {s} : \A step : Did(t, step)' <=> Did(t, step)
    BY <2>1, <2>3, Zenon DEF Did, LocksTypeOK
  <2>5. /\ Did(s, "rel_read")' \/ Did(s, "rel_write")' => Did(s, "rel_release")'
        /\ Did(s, "commit")'
    <3>1. \A step : Did(s, step)' <=> \E i \in 1..Len(Steps(script[s])) : Steps(script[s])[i] = step
      BY <2>1, <2>3, Zenon DEF Did, LocksTypeOK
    <3> QED BY <1>0, <3>1, Complete
  <2>6. LocksTypeOK'
    BY <2>1, <2>2, <2>3 DEF LocksTypeOK, Db, NoBuf, Buf
  <2>7. HoldInv'
    <3>1. \A t \in Sess : t \in readers' <=> Did(t, "rel_read")' /\ ~Did(t, "rel_release")'
      BY <2>1, <2>4, <2>5, HoldGives, Zenon
    <3>2. \A t \in Sess : writer' = t <=> Did(t, "rel_write")' /\ ~Did(t, "rel_release")'
      BY <2>1, <2>4, <2>5, HoldGives, LocksAssumption
    <3>3. \A t \in Sess : /\ ~InTx(t)' => tx'[t] = "none"
                          /\ InTx(t)' /\ Did(t, "begin")' => tx'[t] = "write"
                          /\ InTx(t)' /\ ~Did(t, "begin")' => tx'[t] = "read"
      BY <2>1, <2>4, <2>5, HoldGives, Zenon DEF LocksTypeOK, InTx
    <3> QED BY <2>6, <3>1, <3>2, <3>3, HoldFrom DEF LocksTypeOK
  <2>8. WriteInv'
    <3>1. /\ \A t \in Sess : InTx(t)' <=> InTx(t) /\ t # s
          /\ \A t \in Sess \ {s} : Wrote(t)' <=> Wrote(t)
      BY <2>4, <2>5 DEF InTx, Wrote
    <3>2. \A t \in Sess : ~(InTx(t)' /\ Wrote(t)') => buf'[t] = NoBuf
      BY <2>1, <3>1 DEF WriteInv, LocksTypeOK
    <3>3. exclusive => \A t, u \in Sess : tx'[t] = "write" /\ tx'[u] # "none" => t = u
      BY <2>1 DEF WriteInv, LocksTypeOK
    <3>4. \A t \in Sess \ {s} : buf'[t] = buf[t]
      BY <2>1 DEF LocksTypeOK
    <3>5. /\ exclusive' = exclusive /\ rows' = rows /\ index' = index
          /\ indexed' = indexed /\ loaded' = loaded
      BY <2>1 DEF Db
    <3>6. CreateBuf' = CreateBuf /\ DropBuf' = DropBuf
      BY <3>5, Zenon DEF CreateBuf, DropBuf
    <3>7. \A t \in Sess : PutBuf(t)' = PutBuf(t) /\ RmBuf(t)' = RmBuf(t)
      BY <3>5, Zenon DEF PutBuf, RmBuf, Entries
    <3>8. ASSUME exclusive, NEW t \in Sess, InTx(t)', Wrote(t)'
          PROVE  \/ buf'[t] \in {PutBuf(t)', RmBuf(t)'} /\ loaded'[t] = indexed'
                 \/ buf'[t] = IF indexed' = Nothing THEN CreateBuf' ELSE DropBuf'
      <4>1. t # s /\ InTx(t) /\ Wrote(t)
        BY <3>1, <3>8
      <4> QED BY <3>4, <3>5, <3>6, <3>7, <3>8, <4>1 DEF WriteInv
    <3> QED BY <3>2, <3>3, <3>5, <3>8 DEF WriteInv
  <2> QED BY <2>6, <2>7, <2>8
<1>11. ASSUME NEW s \in Sess, commit_tx(s) PROVE LocksIInv'
  <2>1. At(s, "commit") /\ Step(s)
    BY <1>11 DEF commit_tx
  <2>2. /\ \A t \in Sess : \A step : Did(t, step)' <=> Did(t, step) \/ (t = s /\ step = "commit")
        /\ pc' \in [Sess -> Nat] /\ script' \in [Sess -> Script] /\ exclusive' = exclusive
        /\ \A t \in Sess : pc'[t] \in 0..Len(Steps(script[t]))'
    BY <2>1, Advance, Zenon
  <2>3. InTx(s)
    BY <1>0, <2>1, Order
  <2>4. \A t \in Sess : /\ InTx(t)' <=> InTx(t) /\ t # s
                        /\ Wrote(t)' <=> Wrote(t)
    BY <2>2 DEF InTx, Wrote
  <2>5. /\ rows' = (rows \ buf[s].del) \cup buf[s].put
        /\ version' = IF buf[s].ix = "same" THEN version ELSE version + 1
        /\ tx' = [tx EXCEPT ![s] = "none"] /\ buf' = [buf EXCEPT ![s] = NoBuf]
        /\ UNCHANGED <<readers, writer, loaded>>
    BY <1>11 DEF commit_tx
  <2>6. /\ buf[s].ix = "created" => index' = buf[s].iput /\ indexed' = version + 1
        /\ buf[s].ix = "dropped" => index' = {} /\ indexed' = Nothing
        /\ buf[s].ix = "same" =>
             /\ index' = IF loaded[s] = indexed
                           THEN (index \ buf[s].idel) \cup buf[s].iput ELSE index
             /\ indexed' = indexed
    BY <1>11, CommitIs, Zenon
  <2>7. LocksTypeOK'
    <3>1. /\ buf[s] \in Buf
          /\ NoBuf \in Buf
      BY DEF LocksTypeOK, Buf, NoBuf
    <3>2. /\ rows' \subseteq Sess /\ index' \subseteq Sess
          /\ indexed' \in Nat \cup {Nothing} /\ version' \in Nat
      BY <2>5, <2>6, <3>1 DEF LocksTypeOK, Buf
    <3> QED BY <2>2, <2>5, <3>1, <3>2, Zenon DEF LocksTypeOK
  <2>8. HoldInv'
    <3>1. \A t \in Sess : /\ ~InTx(t)' => tx'[t] = "none"
                          /\ InTx(t)' /\ Did(t, "begin")' => tx'[t] = "write"
                          /\ InTx(t)' /\ ~Did(t, "begin")' => tx'[t] = "read"
      BY <2>2, <2>4, <2>5, HoldGives, Zenon DEF LocksTypeOK
    <3>2. \A t \in Sess : /\ t \in readers' <=> Did(t, "rel_read")' /\ ~Did(t, "rel_release")'
                          /\ writer' = t <=> Did(t, "rel_write")' /\ ~Did(t, "rel_release")'
      BY <2>2, <2>5, HoldGives
    <3> QED BY <2>7, <3>1, <3>2, HoldFrom, Zenon DEF LocksTypeOK
  <2>9. WriteInv'
    <3>1. \A t \in Sess : ~(InTx(t)' /\ Wrote(t)') => buf'[t] = NoBuf
      BY <2>4, <2>5 DEF WriteInv, LocksTypeOK
    <3>2. exclusive => \A t, u \in Sess : tx'[t] = "write" /\ tx'[u] # "none" => t = u
      BY <2>5, Zenon DEF WriteInv, LocksTypeOK
    <3>3. exclusive => \A t \in Sess : ~(InTx(t)' /\ Wrote(t)')
      <4> SUFFICES ASSUME exclusive, NEW t \in Sess, t # s, InTx(t), Wrote(t) PROVE FALSE
        BY <2>4, Zenon
      <4>1. Did(t, "begin")
        BY <1>0, Order
      <4>2. tx[t] = "write" /\ tx[s] # "none"
        BY <2>3, <4>1 DEF HoldInv
      <4> QED BY <4>2 DEF WriteInv
    <3>4. exclusive /\ indexed' # Nothing => index' = rows'
      <4> SUFFICES ASSUME exclusive, indexed' # Nothing PROVE index' = rows'
        BY Zenon
      <4>0. indexed # Nothing => index = rows
        BY DEF WriteInv
      <4>1. CASE buf[s] = NoBuf
        <5>1. /\ buf[s].ix = "same" /\ buf[s].put = {} /\ buf[s].del = {}
              /\ buf[s].iput = {} /\ buf[s].idel = {}
          BY <4>1 DEF NoBuf
        <5>2. rows' = rows /\ index' = index /\ indexed' = indexed
          BY <2>5, <2>6, <5>1
        <5> QED BY <4>0, <5>2
      <4>2. CASE buf[s] \in {PutBuf(s), RmBuf(s)} /\ loaded[s] = indexed
        <5>1. /\ buf[s].ix = "same"
              /\ buf[s].iput = Entries(buf[s].put) /\ buf[s].idel = Entries(buf[s].del)
          BY <4>2 DEF PutBuf, RmBuf, Entries
        <5>2. index' = (index \ buf[s].idel) \cup buf[s].iput /\ indexed' = indexed
          BY <2>6, <4>2, <5>1, Zenon
        <5>3. buf[s].iput = buf[s].put /\ buf[s].idel = buf[s].del
          BY <5>1, <5>2 DEF Entries
        <5> QED BY <2>5, <4>0, <5>2, <5>3, Zenon
      <4>3. CASE buf[s] = IF indexed = Nothing THEN CreateBuf ELSE DropBuf
        <5>1. CASE buf[s] = CreateBuf
          <6>1. buf[s].ix = "created" /\ buf[s].iput = rows /\ buf[s].put = {} /\ buf[s].del = {}
            BY <5>1 DEF CreateBuf
          <6> QED BY <2>5, <2>6, <6>1, Zenon
        <5>2. CASE buf[s] = DropBuf
          <6>1. buf[s].ix = "dropped"
            BY <5>2 DEF DropBuf
          <6> QED BY <2>6, <6>1
        <5> QED BY <4>3, <5>1, <5>2, Zenon
      <4> QED BY <2>3, <4>1, <4>2, <4>3 DEF WriteInv
    <3> QED BY <2>2, <3>1, <3>2, <3>3, <3>4, Zenon DEF WriteInv
  <2> QED BY <2>7, <2>8, <2>9
<1> QED BY <1>1, <1>2, <1>3, <1>4, <1>5, <1>6, <1>7, <1>8, <1>9, <1>10, <1>11 DEF LocksNext, Act

\* A script with all its steps behind it holds nothing.
LEMMA HoldSafe == LocksIInv => LocksSafe
<1> SUFFICES ASSUME LocksIInv PROVE LocksSafe
  OBVIOUS
<1>1. ASSUME NEW s \in Sess, Finished(s)
      PROVE  s \notin readers /\ writer # s /\ tx[s] = "none"
  <2>1. \A step : Did(s, step) <=> \E i \in 1..Len(Steps(script[s])) : Steps(script[s])[i] = step
    BY <1>1 DEF Did, Finished
  <2>2. script[s] \in Script
    BY DEF LocksIInv, LocksTypeOK
  <2>3. Did(s, "commit") /\ (Did(s, "rel_read") \/ Did(s, "rel_write") => Did(s, "rel_release"))
    BY <2>1, <2>2, Complete
  <2> QED BY <2>3 DEF LocksIInv, HoldInv, InTx
<1>2. exclusive => IndexAgrees
  BY DEF LocksIInv, WriteInv, IndexAgrees
<1> QED BY <1>1, <1>2 DEF LocksSafe, Released

\* Every script that is over has given back its locks and its transaction, and
\* with the engines that have one writer an index has the entries of the rows
\* whenever no transaction is open, whatever scripts run at the same time.
THEOREM LocksTheorem == LocksSpec => []LocksSafe
<1> QED BY StartInv, StepInv, HoldSafe, PTL DEF LocksSpec
=============================================================================
