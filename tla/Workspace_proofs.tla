----------------------------- MODULE Workspace_proofs -----------------------------
(***************************************************************************)
(* Proofs about the log of conversations, messages, Glip and contacts:     *)
(* each has an inductive invariant, XxIInv for the instance Xx, that its   *)
(* initial states have, its steps keep, and that implies what its module   *)
(* says of it; the specification of Workspace keeps that of the component  *)
(* that runs.                                                              *)
(***************************************************************************)
EXTENDS Workspace, SequenceTheorems, FiniteSetTheorems, TLAPS

-----------------------------------------------------------------------------
(***************************************************************************)
(* Proofs about the recording of conversations: for any things, batches    *)
(* and bounds, and however messages, logs, options, logins and failures    *)
(* cross, the latest change of a thing is the last one on its way.         *)
(***************************************************************************)

CvBounds == IsFiniteSet(CvThing) /\ CvBatchSize \in Nat

\* Logs are told apart; one waits for one at logFunction, of the same thing; the one in
\* _logPromises is at logFunction, and no other one of its thing is, unless logs overlapped.
CvLogsFit ==
  /\ IsFiniteSet(logs)
  /\ \A k, l \in logs : k.id = l.id => k = l
  /\ \A w \in logs : w.after # 0 => \E l \in logs : l.id = w.after /\ l.of = w.of /\ l.after = 0
  /\ \A t \in CvThing : logPromises[t] # 0 =>
       \E l \in logs : l.id = logPromises[t] /\ l.of = t /\ l.after = 0
  /\ \A l \in logs : l.after = 0 /\ l.of \notin disturbed => l.id = logPromises[l.of]

CvLogIInv == Cv!LoggerTypeOK /\ CvLogsFit /\ Cv!OnlyLogging

\* What the record of a thing will be when its logs are done.
CvLastLogged(t, v) ==
  \/ \E l \in logs : l.of = t /\ l.after # 0 /\ l.version = v
  \/ /\ \A l \in logs : l.of = t => l.after = 0 /\ l.version = v
     /\ (\A l \in logs : l.of # t) => recorded[t] = v

--------------------
(* Logs. *)

\* Its cardinality is that of the sets here.
LEMMA CvCardinality == ASSUME NEW S PROVE Cv!Cardinality(S) = Cardinality(S)
  BY DEF Cv!Cardinality, Cardinality

LEMMA CvNewLogFree == ASSUME CvLogIInv PROVE Cv!NewLog \in Nat \ {0} /\ \A l \in logs : l.id # Cv!NewLog
<1>. DEFINE n == Cardinality(logs)
            Ids == {l.id : l \in logs}
<1>1. IsFiniteSet(logs) /\ n \in Nat
  BY FS_CardinalityType DEF CvLogIInv, CvLogsFit
<1>2. IsFiniteSet(Ids) /\ Cardinality(Ids) <= n
  <2>. DEFINE id == [l \in logs |-> l.id]
  <2>1. id \in [logs -> Ids] /\ \A i \in Ids : \E l \in logs : id[l] = i
    OBVIOUS
  <2>2. id \in Surjection(logs, Ids)
    BY <2>1 DEF Surjection
  <2>. QED  BY <1>1, <2>2, FS_Surjection
<1>3. IsFiniteSet(1..(n + 1)) /\ Cardinality(1..(n + 1)) = n + 1
  BY <1>1, FS_Interval
<1>4. Cv!NewLog = CHOOSE i \in 1..(n + 1) : \A l \in logs : l.id # i
  BY CvCardinality DEF Cv!NewLog
<1>. HIDE DEF n
<1>5. ~(1..(n + 1) \subseteq Ids)
  <2>. SUFFICES ASSUME 1..(n + 1) \subseteq Ids PROVE FALSE
    OBVIOUS
  <2>1. Cardinality(1..(n + 1)) <= Cardinality(Ids)
    BY <1>2, FS_Subset
  <2>2. Cardinality(Ids) \in Nat
    BY <1>2, FS_CardinalityType
  <2>. QED  BY <1>1, <1>2, <1>3, <2>1, <2>2
<1>6. \E i \in 1..(n + 1) : \A l \in logs : l.id # i
  BY <1>5
<1>7. Cv!NewLog \in 1..(n + 1) /\ \A l \in logs : l.id # Cv!NewLog
  BY <1>4, <1>6
<1>. QED  BY <1>1, <1>7

\* A new log is the last of its thing, of which nothing that is undisturbed is at logFunction
\* when it is itself.
LEMMA CvBeginLogKeeps ==
  ASSUME CvLogIInv, NEW t \in CvThing, NEW v \in Nat, Cv!BeginLog(t, v)
  PROVE  /\ CvLogIInv'
         /\ disturbed \subseteq disturbed' /\ recorded' = recorded
         /\ \E k \in logs' : k.of = t /\ k.version = v /\ logs' = logs \cup {k}
         /\ t \notin disturbed' => CvLastLogged(t, v)'
         /\ \A s \in CvThing \ {t}, u \in Nat : CvLastLogged(s, u) => CvLastLogged(s, u)'
<1>0. Cv!LoggerTypeOK /\ CvLogsFit /\ Cv!OnlyLogging
  BY DEF CvLogIInv
<1>1. PICK n : n = Cv!NewLog /\ n \in Nat \ {0} /\ \A l \in logs : l.id # n
  BY CvNewLogFree
<1>2. PICK a \in Nat : a = logPromises[t]
  BY <1>0 DEF Cv!LoggerTypeOK
<1>3. PICK k : k = [id |-> n, of |-> t, version |-> v, after |-> a]
  OBVIOUS
<1>4. k \in Cv!Log /\ k.id = n /\ k.of = t /\ k.version = v /\ k.after = a
  BY <1>1, <1>2, <1>3 DEF Cv!Log
<1>5. /\ logs' = logs \cup {k}
      /\ logPromises' = IF a = 0 THEN [logPromises EXCEPT ![t] = n] ELSE logPromises
      /\ loggingList' = IF a = 0 THEN loggingList \cup {t} ELSE loggingList
      /\ disturbed' = IF a = 0 /\ Cv!Running(t) # {} THEN disturbed \cup {t} ELSE disturbed
      /\ recorded' = recorded
  BY <1>1, <1>2, <1>3, <1>4 DEF Cv!BeginLog, Cv!Awaited
<1>. HIDE DEF Cv!NewLog
<1>6. Cv!LoggerTypeOK'
  BY <1>0, <1>1, <1>4, <1>5 DEF Cv!LoggerTypeOK
<1>7. IsFiniteSet(logs')
  BY <1>0, <1>5, FS_AddElement DEF CvLogsFit
<1>8. \A l, m \in logs' : l.id = m.id => l = m
  BY <1>0, <1>1, <1>4, <1>5 DEF CvLogsFit
<1>9. a # 0 => \E l \in logs : l.id = a /\ l.of = t /\ l.after = 0
  BY <1>0, <1>2 DEF CvLogsFit
<1>10. \A w \in logs' : w.after # 0 => \E l \in logs' : l.id = w.after /\ l.of = w.of /\ l.after = 0
  BY <1>0, <1>4, <1>5, <1>9 DEF CvLogsFit
<1>11. \A s \in CvThing : logPromises'[s] # 0 =>
         \E l \in logs' : l.id = logPromises'[s] /\ l.of = s /\ l.after = 0
  <2>. SUFFICES ASSUME NEW s \in CvThing, logPromises'[s] # 0
                PROVE  \E l \in logs' : l.id = logPromises'[s] /\ l.of = s /\ l.after = 0
    OBVIOUS
  <2>1. CASE a = 0 /\ s = t
    <3>1. logPromises'[s] = n
      BY <1>0, <1>5, <2>1 DEF Cv!LoggerTypeOK
    <3>. QED  BY <1>4, <1>5, <2>1, <3>1
  <2>2. CASE ~(a = 0 /\ s = t)
    <3>1. logPromises'[s] = logPromises[s]
      BY <1>0, <1>5, <2>2 DEF Cv!LoggerTypeOK
    <3>. QED  BY <1>0, <1>5, <3>1 DEF CvLogsFit
  <2>. QED  BY <2>1, <2>2
<1>12. ASSUME NEW l \in logs', l.after = 0, l.of \notin disturbed' PROVE l.id = logPromises'[l.of]
  <2>1. CASE l = k
    BY <1>0, <1>4, <1>5, <1>12, <2>1 DEF Cv!LoggerTypeOK
  <2>2. CASE l # k
    <3>1. l \in logs /\ l.of \in CvThing /\ l.of \notin disturbed
      BY <1>0, <1>5, <1>12, <2>2 DEF Cv!LoggerTypeOK, Cv!Log
    <3>2. l.id = logPromises[l.of]
      BY <1>0, <1>12, <3>1 DEF CvLogsFit
    <3>3. ~(a = 0 /\ l.of = t)
      BY <1>5, <1>12, <3>1 DEF Cv!Running
    <3>. QED  BY <1>0, <1>5, <3>1, <3>2, <3>3 DEF Cv!LoggerTypeOK
  <2>. QED  BY <2>1, <2>2
<1>13. CvLogsFit'
  BY <1>7, <1>8, <1>10, <1>11, <1>12 DEF CvLogsFit
<1>14. Cv!OnlyLogging'
  BY <1>0, <1>4, <1>5 DEF Cv!OnlyLogging, Cv!Running
<1>15. CvLogIInv'
  BY <1>6, <1>13, <1>14 DEF CvLogIInv
<1>16. ASSUME t \notin disturbed' PROVE CvLastLogged(t, v)'
  <2>1. CASE a # 0
    BY <1>4, <1>5, <2>1 DEF CvLastLogged
  <2>2. CASE a = 0
    <3>1. \A l \in logs : l.of = t => l.after # 0
      BY <1>5, <1>16, <2>2 DEF Cv!Running
    <3>2. \A l \in logs : l.of # t
      BY <1>0, <3>1 DEF CvLogsFit
    <3>. QED  BY <1>4, <1>5, <2>2, <3>2 DEF CvLastLogged
  <2>. QED  BY <2>1, <2>2
<1>17. ASSUME NEW s \in CvThing \ {t}, NEW u \in Nat, CvLastLogged(s, u) PROVE CvLastLogged(s, u)'
  BY <1>4, <1>5, <1>17 DEF CvLastLogged
<1>. QED  BY <1>4, <1>5, <1>15, <1>16, <1>17

\* A log that ends leaves the logs of other things; what is undisturbed has its last one still.
LEMMA CvLogDoneKeeps ==
  ASSUME CvLogIInv, NEW l \in logs, Cv!LogDone(l)
  PROVE  /\ CvLogIInv'
         /\ disturbed \subseteq disturbed'
         /\ \A k \in logs' : \E m \in logs : m.of = k.of /\ m.version = k.version
         /\ \A m \in logs : m.of # l.of => m \in logs'
         /\ recorded' = [recorded EXCEPT ![l.of] = l.version]
         /\ \A t \in CvThing \ disturbed', v \in Nat : CvLastLogged(t, v) => CvLastLogged(t, v)'
<1>0. Cv!LoggerTypeOK /\ CvLogsFit /\ Cv!OnlyLogging
  BY DEF CvLogIInv
<1>1. l \in Cv!Log /\ l.after = 0 /\ l.of \in CvThing /\ l.id \in Nat \ {0} /\ l.version \in Nat
  BY <1>0 DEF Cv!LoggerTypeOK, Cv!Log, Cv!LogDone
<1>. DEFINE On(w) == [w EXCEPT !.after = 0]
<1>2. PICK W : W = Cv!Waiting(l)
  OBVIOUS
<1>3. /\ W \subseteq logs /\ l \notin W
      /\ \A w \in logs : w \in W <=> w.after = l.id
      /\ \A w \in W : /\ w.of = l.of /\ w \in Cv!Log
                      /\ On(w) \in Cv!Log /\ On(w).id = w.id /\ On(w).of = w.of
                      /\ On(w).version = w.version /\ On(w).after = 0
  <2>1. W \subseteq logs /\ l \notin W /\ \A w \in logs : w \in W <=> w.after = l.id
    BY <1>1, <1>2 DEF Cv!Waiting
  <2>2. \A w \in W : w \in Cv!Log /\ w.after # 0 /\ w.after = l.id
    BY <1>0, <1>1, <2>1 DEF Cv!LoggerTypeOK
  <2>3. \A w \in W : w.of = l.of
    BY <1>0, <2>1, <2>2 DEF CvLogsFit
  <2>4. \A w \in W : /\ On(w) \in Cv!Log /\ On(w).id = w.id /\ On(w).of = w.of
                     /\ On(w).version = w.version /\ On(w).after = 0
    BY <2>2 DEF Cv!Log
  <2>. QED  BY <2>1, <2>2, <2>3, <2>4
<1>4. /\ recorded' = [recorded EXCEPT ![l.of] = l.version]
      /\ logs' = (logs \ ({l} \cup W)) \cup {On(w) : w \in W}
      /\ \E heir \in IF W = {} THEN {0} ELSE {w.id : w \in W} :
           logPromises' = [logPromises EXCEPT ![l.of] = heir]
      /\ loggingList' = IF W = {} THEN loggingList \ {l.of} ELSE loggingList \cup {l.of}
      /\ disturbed' = IF Cardinality(W) > 1 \/ Cv!Running(l.of) # {l}
                      THEN disturbed \cup {l.of} ELSE disturbed
  BY <1>2, CvCardinality DEF Cv!LogDone
<1>5. PICK heir \in IF W = {} THEN {0} ELSE {w.id : w \in W} :
        logPromises' = [logPromises EXCEPT ![l.of] = heir]
  BY <1>4
<1>6. heir \in Nat
  <2>1. \A w \in W : w.id \in Nat
    BY <1>3 DEF Cv!Log
  <2>. QED  BY <1>5, <2>1
<1>. HIDE DEF On
<1>7. /\ \A k \in logs' : (k \in logs /\ k # l /\ k \notin W) \/ \E w \in W : k = On(w)
      /\ \A k \in logs : k # l /\ k \notin W => k \in logs'
      /\ \A w \in W : On(w) \in logs'
  BY <1>4
<1>8. Cv!LoggerTypeOK'
  <2>1. logs' \subseteq Cv!Log
    BY <1>0, <1>3, <1>7 DEF Cv!LoggerTypeOK
  <2>2. logPromises' \in [CvThing -> Nat] /\ recorded' \in [CvThing -> Nat]
    BY <1>0, <1>1, <1>4, <1>5, <1>6 DEF Cv!LoggerTypeOK
  <2>3. loggingList' \subseteq CvThing /\ disturbed' \subseteq CvThing
    BY <1>0, <1>1, <1>4 DEF Cv!LoggerTypeOK
  <2>. QED  BY <2>1, <2>2, <2>3 DEF Cv!LoggerTypeOK
<1>9. IsFiniteSet(logs')
  <2>1. IsFiniteSet(logs) /\ IsFiniteSet(W)
    BY <1>0, <1>3, FS_Subset DEF CvLogsFit
  <2>2. IsFiniteSet({On(w) : w \in W})
    <3>. DEFINE on == [w \in W |-> On(w)]
    <3>1. on \in Surjection(W, {On(w) : w \in W})
      BY DEF Surjection
    <3>. QED  BY <2>1, <3>1, FS_Surjection
  <2>3. IsFiniteSet(logs \ ({l} \cup W))
    BY <2>1, FS_Subset
  <2>. QED  BY <1>4, <2>2, <2>3, FS_Union
<1>10. ASSUME NEW k \in logs', NEW m \in logs', k.id = m.id PROVE k = m
  <2>1. \A x \in logs' : \E y \in logs : y.id = x.id /\ (x = y \/ (y \in W /\ x = On(y)))
                                       /\ (y \in W => x = On(y))
    BY <1>3, <1>7
  <2>2. PICK y \in logs : y.id = k.id /\ (k = y \/ (y \in W /\ k = On(y))) /\ (y \in W => k = On(y))
    BY <2>1
  <2>3. PICK z \in logs : z.id = m.id /\ (m = z \/ (z \in W /\ m = On(z))) /\ (z \in W => m = On(z))
    BY <2>1
  <2>4. y = z
    BY <1>0, <1>10, <2>2, <2>3 DEF CvLogsFit
  <2>. QED  BY <2>2, <2>3, <2>4
<1>11. ASSUME NEW w \in logs', w.after # 0
       PROVE  \E k \in logs' : k.id = w.after /\ k.of = w.of /\ k.after = 0
  <2>1. w \in logs /\ w \notin W
    BY <1>3, <1>7, <1>11
  <2>2. PICK k \in logs : k.id = w.after /\ k.of = w.of /\ k.after = 0
    BY <1>0, <1>11, <2>1 DEF CvLogsFit
  <2>3. k # l /\ k \notin W
    BY <1>1, <1>3, <2>1, <2>2
  <2>. QED  BY <1>7, <2>2, <2>3
<1>12. ASSUME NEW t \in CvThing, logPromises'[t] # 0
       PROVE  \E k \in logs' : k.id = logPromises'[t] /\ k.of = t /\ k.after = 0
  <2>1. CASE t = l.of
    <3>1. logPromises'[t] = heir
      BY <1>0, <1>5, <2>1 DEF Cv!LoggerTypeOK
    <3>2. PICK w \in W : w.id = heir
      BY <1>5, <1>12, <3>1
    <3>. QED  BY <1>3, <1>7, <2>1, <3>1, <3>2
  <2>2. CASE t # l.of
    <3>1. logPromises'[t] = logPromises[t]
      BY <1>0, <1>5, <2>2 DEF Cv!LoggerTypeOK
    <3>2. PICK k \in logs : k.id = logPromises[t] /\ k.of = t /\ k.after = 0
      BY <1>0, <1>12, <3>1 DEF CvLogsFit
    <3>. QED  BY <1>3, <1>7, <2>2, <3>1, <3>2
  <2>. QED  BY <2>1, <2>2
<1>13. ASSUME l.of \notin disturbed'
       PROVE  /\ \A k \in logs : k.of = l.of /\ k.after = 0 => k = l
              /\ \A k, m \in W : k = m
              /\ \A k \in logs : k.of = l.of => k = l \/ k \in W
  <2>1. ~(Cardinality(W) > 1) /\ Cv!Running(l.of) = {l}
    BY <1>4, <1>13
  <2>2. \A k \in logs : k.of = l.of /\ k.after = 0 => k = l
    BY <2>1 DEF Cv!Running
  <2>3. \A k, m \in W : k = m
    <3>. SUFFICES ASSUME NEW k \in W, NEW m \in W, k # m PROVE FALSE
      OBVIOUS
    <3>1. IsFiniteSet(W)
      BY <1>0, <1>3, FS_Subset DEF CvLogsFit
    <3>2. IsFiniteSet({k}) /\ Cardinality({k}) = 1
      BY FS_Singleton
    <3>3. Cardinality({k} \cup {m}) = 2
      <4>1. m \notin {k}
        OBVIOUS
      <4>2. Cardinality({k} \cup {m}) = Cardinality({k}) + 1
        BY <3>2, <4>1, FS_AddElement
      <4>. QED  BY <3>2, <4>2
    <3>4. Cardinality({k} \cup {m}) <= Cardinality(W)
      BY <3>1, FS_Subset
    <3>5. Cardinality(W) \in Nat
      BY <3>1, FS_CardinalityType
    <3>. QED  BY <2>1, <3>3, <3>4, <3>5
  <2>4. ASSUME NEW k \in logs, k.of = l.of, k.after # 0 PROVE k \in W
    <3>1. PICK m \in logs : m.id = k.after /\ m.of = k.of /\ m.after = 0
      BY <1>0, <2>4 DEF CvLogsFit
    <3>. QED  BY <1>3, <2>2, <2>4, <3>1
  <2>. QED  BY <2>2, <2>3, <2>4
<1>14. ASSUME NEW k \in logs', k.after = 0, k.of \notin disturbed' PROVE k.id = logPromises'[k.of]
  <2>1. CASE k.of = l.of
    <3>1. PICK w \in W : k = On(w)
      BY <1>7, <1>13, <1>14, <2>1
    <3>2. heir = w.id
      BY <1>5, <1>13, <1>14, <2>1, <3>1
    <3>. QED  BY <1>0, <1>1, <1>3, <1>5, <2>1, <3>1, <3>2 DEF Cv!LoggerTypeOK
  <2>2. CASE k.of # l.of
    <3>1. k \in logs /\ k.of \notin disturbed /\ k.of \in CvThing
      BY <1>0, <1>3, <1>4, <1>7, <1>14, <2>2 DEF Cv!LoggerTypeOK, Cv!Log
    <3>2. k.id = logPromises[k.of]
      BY <1>0, <1>14, <3>1 DEF CvLogsFit
    <3>. QED  BY <1>0, <1>5, <2>2, <3>1, <3>2 DEF Cv!LoggerTypeOK
  <2>. QED  BY <2>1, <2>2
<1>15. CvLogsFit'
  BY <1>9, <1>10, <1>11, <1>12, <1>14 DEF CvLogsFit
<1>16. Cv!OnlyLogging'
  <2>. SUFFICES ASSUME NEW t \in loggingList' PROVE \E k \in logs' : k.of = t /\ k.after = 0
    BY DEF Cv!OnlyLogging, Cv!Running
  <2>1. CASE t = l.of
    <3>1. W # {}
      BY <1>4, <2>1
    <3>2. PICK w \in W : TRUE
      BY <3>1
    <3>. QED  BY <1>3, <1>7, <2>1, <3>2
  <2>2. CASE t # l.of
    <3>1. t \in loggingList
      BY <1>4, <2>2
    <3>2. PICK k \in logs : k.of = t /\ k.after = 0
      BY <1>0, <3>1 DEF Cv!OnlyLogging, Cv!Running
    <3>. QED  BY <1>3, <1>7, <2>2, <3>2
  <2>. QED  BY <2>1, <2>2
<1>17. CvLogIInv'
  BY <1>8, <1>15, <1>16 DEF CvLogIInv
<1>18. ASSUME NEW t \in CvThing \ disturbed', NEW v \in Nat, CvLastLogged(t, v) PROVE CvLastLogged(t, v)'
  <2>1. CASE t # l.of
    <3>1. \A k \in logs' : k.of = t => k \in logs
      BY <1>3, <1>7, <2>1
    <3>2. \A k \in logs : k.of = t => k \in logs'
      BY <1>3, <1>7, <2>1
    <3>3. recorded'[t] = recorded[t]
      BY <1>0, <1>4, <2>1 DEF Cv!LoggerTypeOK
    <3>. QED  BY <1>18, <3>1, <3>2, <3>3 DEF CvLastLogged
  <2>2. CASE t = l.of /\ W = {}
    <3>1. \A k \in logs : k.of = t => k = l
      BY <1>13, <2>2
    <3>2. l.version = v
      BY <1>1, <1>18, <2>2, <3>1 DEF CvLastLogged
    <3>3. \A k \in logs' : k.of # t
      BY <1>7, <2>2, <3>1
    <3>4. recorded'[t] = v
      BY <1>0, <1>4, <2>2, <3>2 DEF Cv!LoggerTypeOK
    <3>. QED  BY <3>3, <3>4 DEF CvLastLogged
  <2>3. CASE t = l.of /\ W # {}
    <3>1. PICK w \in W : TRUE
      BY <2>3
    <3>2. \A k \in logs : k.of = t => k = l \/ k = w
      BY <1>13, <2>3, <3>1
    <3>3. w.of = t /\ w.after # 0 /\ w \in logs
      BY <1>1, <1>3, <2>3, <3>1
    <3>4. w.version = v
      BY <1>1, <1>18, <3>2, <3>3 DEF CvLastLogged
    <3>5. \A k \in logs' : k.of = t => k = On(w)
      BY <1>3, <1>7, <2>3, <3>1, <3>2
    <3>6. On(w) \in logs' /\ On(w).of = t /\ On(w).after = 0 /\ On(w).version = v
      BY <1>3, <1>7, <3>1, <3>3, <3>4
    <3>. QED  BY <3>5, <3>6 DEF CvLastLogged
  <2>. QED  BY <2>1, <2>2, <2>3
<1>19. \A k \in logs' : \E m \in logs : m.of = k.of /\ m.version = k.version
  BY <1>3, <1>7
<1>20. \A m \in logs : m.of # l.of => m \in logs'
  BY <1>3, <1>7
<1>21. disturbed \subseteq disturbed'
  BY <1>4
<1>. QED  BY <1>4, <1>17, <1>18, <1>19, <1>20, <1>21

LEMMA CvLogFailsKeeps ==
  ASSUME CvLogIInv, NEW l \in logs, Cv!LogFails(l)
  PROVE  /\ CvLogIInv'
         /\ disturbed' = disturbed \cup {l.of} /\ recorded' = recorded
         /\ logs' \subseteq logs /\ \A m \in logs : m.of # l.of => m \in logs'
         /\ \A t \in CvThing \ disturbed', v \in Nat : CvLastLogged(t, v) => CvLastLogged(t, v)'
<1>0. Cv!LoggerTypeOK /\ CvLogsFit /\ Cv!OnlyLogging
  BY DEF CvLogIInv
<1>1. l \in Cv!Log /\ l.after = 0 /\ l.of \in CvThing /\ l.id \in Nat \ {0}
  BY <1>0 DEF Cv!LoggerTypeOK, Cv!Log, Cv!LogFails
<1>2. PICK W : W = Cv!Waiting(l)
  OBVIOUS
<1>3. /\ W \subseteq logs /\ l \notin W
      /\ \A w \in logs : w \in W <=> w.after = l.id
      /\ \A w \in W : w.after # 0 /\ w.of = l.of
  <2>1. W \subseteq logs /\ l \notin W /\ \A w \in logs : w \in W <=> w.after = l.id
    BY <1>1, <1>2 DEF Cv!Waiting
  <2>2. \A w \in W : w.after # 0 /\ w.after = l.id
    BY <1>1, <2>1
  <2>. QED  BY <1>0, <2>1, <2>2 DEF CvLogsFit
<1>4. /\ logs' = logs \ ({l} \cup W)
      /\ logPromises' = [logPromises EXCEPT ![l.of] = 0]
      /\ loggingList' = loggingList \ {l.of}
      /\ disturbed' = disturbed \cup {l.of}
      /\ recorded' = recorded
  BY <1>2 DEF Cv!LogFails
<1>5. \A t \in CvThing : logPromises'[t] = IF t = l.of THEN 0 ELSE logPromises[t]
  BY <1>0, <1>1, <1>4 DEF Cv!LoggerTypeOK
<1>6. /\ logs' \subseteq logs /\ \A m \in logs : m.of # l.of => m \in logs'
  BY <1>3, <1>4
<1>7. Cv!LoggerTypeOK'
  BY <1>0, <1>1, <1>4, <1>6 DEF Cv!LoggerTypeOK
<1>8. CvLogsFit'
  <2>1. IsFiniteSet(logs')
    BY <1>0, <1>6, FS_Subset DEF CvLogsFit
  <2>2. ASSUME NEW w \in logs', w.after # 0
        PROVE  \E k \in logs' : k.id = w.after /\ k.of = w.of /\ k.after = 0
    <3>1. w \in logs /\ w \notin W
      BY <1>4, <2>2
    <3>2. PICK k \in logs : k.id = w.after /\ k.of = w.of /\ k.after = 0
      BY <1>0, <2>2, <3>1 DEF CvLogsFit
    <3>3. k # l /\ k \notin W
      BY <1>3, <3>1, <3>2
    <3>. QED  BY <1>4, <3>2, <3>3
  <2>3. ASSUME NEW t \in CvThing, logPromises'[t] # 0
        PROVE  \E k \in logs' : k.id = logPromises'[t] /\ k.of = t /\ k.after = 0
    <3>1. t # l.of /\ logPromises'[t] = logPromises[t]
      BY <1>5, <2>3
    <3>. QED  BY <1>0, <1>6, <2>3, <3>1 DEF CvLogsFit
  <2>4. ASSUME NEW k \in logs', k.after = 0, k.of \notin disturbed' PROVE k.id = logPromises'[k.of]
    <3>1. k \in logs /\ k.of \in CvThing /\ k.of # l.of /\ k.of \notin disturbed
      BY <1>0, <1>4, <2>4 DEF Cv!LoggerTypeOK, Cv!Log
    <3>. QED  BY <1>0, <1>5, <2>4, <3>1 DEF CvLogsFit
  <2>5. \A k, m \in logs' : k.id = m.id => k = m
    BY <1>0, <1>6 DEF CvLogsFit
  <2>. QED  BY <2>1, <2>2, <2>3, <2>4, <2>5 DEF CvLogsFit
<1>9. Cv!OnlyLogging'
  BY <1>0, <1>4, <1>6 DEF Cv!OnlyLogging, Cv!Running
<1>10. ASSUME NEW t \in CvThing \ disturbed', NEW v \in Nat, CvLastLogged(t, v) PROVE CvLastLogged(t, v)'
  <2>1. t # l.of
    BY <1>4
  <2>2. \A k \in logs' : k.of = t => k \in logs
    BY <1>6
  <2>3. \A k \in logs : k.of = t => k \in logs'
    BY <1>6, <2>1
  <2>. QED  BY <1>4, <1>10, <2>2, <2>3 DEF CvLastLogged
<1>. QED  BY <1>4, <1>6, <1>7, <1>8, <1>9, <1>10 DEF CvLogIInv

LEMMA CvLoggerResetKeeps ==
  ASSUME CvLogIInv, Cv!LoggerReset
  PROVE  CvLogIInv' /\ UNCHANGED <<logs, recorded, disturbed>>
<1>1. loggingList' = {} /\ UNCHANGED <<logs, logPromises, recorded, disturbed>>
  BY DEF Cv!LoggerReset
<1>2. Cv!LoggerTypeOK'
  BY <1>1 DEF CvLogIInv, Cv!LoggerTypeOK
<1>3. CvLogsFit'
  BY <1>1 DEF CvLogIInv, CvLogsFit
<1>4. Cv!OnlyLogging'
  BY <1>1 DEF Cv!OnlyLogging
<1>. QED  BY <1>1, <1>2, <1>3, <1>4 DEF CvLogIInv

LEMMA CvLoggerSame ==
  ASSUME UNCHANGED Cv!logger, CvLogIInv
  PROVE  CvLogIInv' /\ UNCHANGED <<logs, recorded, disturbed>>
<1>1. UNCHANGED <<logs, logPromises, loggingList, recorded, disturbed>>
  BY DEF Cv!logger
<1>. QED  BY <1>1 DEF CvLogIInv, Cv!LoggerTypeOK, CvLogsFit, Cv!OnlyLogging, Cv!Running

LEMMA CvLoggerInitIInv == ASSUME Cv!LoggerInit PROVE CvLogIInv
<1>1. Cv!LoggerTypeOK
  BY DEF Cv!LoggerInit, Cv!LoggerTypeOK
<1>2. CvLogsFit
  BY FS_EmptySet DEF Cv!LoggerInit, CvLogsFit
<1>. QED  BY <1>1, <1>2 DEF Cv!LoggerInit, CvLogIInv, Cv!OnlyLogging

--------------------
(* The way to the record. *)

CvQueued(t)  == \E i \in DOMAIN queue : queue[i].of = t
CvInBatch(t) == \E r \in runs : \E i \in DOMAIN r.batch : r.batch[i].of = t

\* After a change of a thing the queue has its latest one.
CvQueueEnds(t) ==
  \A i \in DOMAIN queue : queue[i].of = t =>
    \E j \in DOMAIN queue : j >= i /\ queue[j].of = t /\ queue[j].version = latest[t]
CvBatchEnds(t) ==
  \A r \in runs : \A i \in DOMAIN r.batch : r.batch[i].of = t => r.batch[i].version = latest[t]

\* The latest change of a thing is the last one on its way.
CvFinal(t) ==
  /\ CvQueueEnds(t)
  /\ ~CvQueued(t) => CvBatchEnds(t)
  /\ ~CvQueued(t) /\ ~CvInBatch(t) => CvLastLogged(t, latest[t])

CvAllServed == \A t \in CvThing \ (excused \cup disturbed) : latest[t] # last[t] \/ CvFinal(t)

\* Until it is too late for everything, there is one run at most, and one for a queue.
CvRunsFit ==
  /\ \A r \in runs : r.asleep => r.batch = <<>>
  /\ \/ excused = CvThing
     \/ /\ \A r, s \in runs : r = s
        /\ \A r \in runs : ~r.failed
        /\ promise = (runs # {})
        /\ queue # <<>> => runs # {}

CvPending == status = "pending" => queue = <<>> /\ ~promise /\ \A t \in CvThing : last[t] = 0

CvBehind ==
  /\ \A t \in CvThing : last[t] <= latest[t]
  /\ \A i \in DOMAIN queue : queue[i].version # 0

CvApart == \A t \in CvThing \ excused : \A r \in runs : t \notin Cv!Twice(r.batch)

\* What is not SMS is only logged after the user did.
CvOnlyAsked ==
  /\ \A t \in CvThing : recorded[t] # 0 => t \in CvSms \cup asked
  /\ \A l \in logs : l.of \in CvSms \cup asked
  /\ \A r \in runs : \A i \in DOMAIN r.batch : i \in r.contacts => r.batch[i].of \in CvSms
  /\ known \subseteq CvSms \cup asked

CvIInv == Cv!TypeOK /\ CvLogIInv /\ CvRunsFit /\ CvPending /\ CvBehind /\ CvApart /\ CvOnlyAsked /\ CvAllServed

LEMMA CvRunFits ==
  ASSUME NEW r, Cv!IsRun(r)
  PROVE  /\ r = [asleep |-> r.asleep, batch |-> r.batch, contacts |-> r.contacts,
                 failed |-> r.failed]
         /\ r.asleep \in BOOLEAN /\ r.failed \in BOOLEAN
         /\ \A i \in DOMAIN r.batch : r.batch[i] \in Cv!Change /\ i \in 1..CvBatchSize
  BY DEF Cv!IsRun

LEMMA CvAsleepFits ==
  /\ Cv!IsRun(Cv!Asleep) /\ Cv!Asleep.asleep /\ ~Cv!Asleep.failed
  /\ Cv!Asleep.batch = <<>> /\ DOMAIN Cv!Asleep.batch = {} /\ Cv!Asleep.contacts = {}
  BY DEF Cv!IsRun, Cv!Asleep

\* Processing takes a change out of its batch.
LEMMA CvProcessedFits ==
  ASSUME NEW r, Cv!IsRun(r), NEW i \in DOMAIN r.batch, r.asleep => r.batch = <<>>,
         NEW p, p = Cv!Processed(r, i) \/ p = [Cv!Processed(r, i) EXCEPT !.failed = TRUE]
  PROVE  /\ Cv!IsRun(p) /\ ~p.asleep
         /\ p = Cv!Processed(r, i) => p.failed = r.failed
         /\ DOMAIN p.batch = DOMAIN r.batch \ {i}
         /\ \A j \in DOMAIN p.batch : p.batch[j] = r.batch[j]
         /\ p.contacts \subseteq r.contacts
<1>. DEFINE b == [j \in DOMAIN r.batch \ {i} |-> r.batch[j]]
            c == r.contacts \ {i}
<1>1. /\ r = [asleep |-> r.asleep, batch |-> r.batch, contacts |-> r.contacts, failed |-> r.failed]
      /\ r.asleep \in BOOLEAN /\ r.failed \in BOOLEAN
      /\ DOMAIN r.batch \subseteq 1..CvBatchSize
      /\ r.batch \in [DOMAIN r.batch -> Cv!Change]
      /\ r.contacts \subseteq 1..CvBatchSize
  BY DEF Cv!IsRun
<1>2. Cv!Processed(r, i) = [r EXCEPT !.batch = b, !.contacts = c]
  BY DEF Cv!Processed, Cv!Restrict
<1>4. DOMAIN b = DOMAIN r.batch \ {i} /\ b \in [DOMAIN b -> Cv!Change] /\ \A j \in DOMAIN b : b[j] = r.batch[j]
  BY <1>1
<1>5. ~r.asleep
  BY <1>1
<1>12. c \subseteq r.contacts
  OBVIOUS
<1>. HIDE DEF b, c
<1>3. Cv!Processed(r, i) = [asleep |-> r.asleep, batch |-> b, contacts |-> c, failed |-> r.failed]
  BY <1>1, <1>2
<1>6. \/ p = [asleep |-> r.asleep, batch |-> b, contacts |-> c, failed |-> r.failed]
      \/ p = [asleep |-> r.asleep, batch |-> b, contacts |-> c, failed |-> TRUE]
  BY <1>3
<1>7. /\ p.batch = b /\ p.asleep = r.asleep /\ p.contacts = c
      /\ p.failed = r.failed \/ p.failed = TRUE
  BY <1>6
<1>8. p = [asleep |-> p.asleep, batch |-> p.batch, contacts |-> p.contacts, failed |-> p.failed]
  BY <1>6
<1>11. p.failed \in BOOLEAN
  BY <1>1, <1>7
<1>9. p = Cv!Processed(r, i) => p.failed = r.failed
  BY <1>3
<1>10. Cv!IsRun(p)
  BY <1>1, <1>4, <1>7, <1>8, <1>11, <1>12 DEF Cv!IsRun
<1>. QED  BY <1>4, <1>5, <1>7, <1>9, <1>10, <1>12

\* What waits for the contact matcher stays in its batch.
LEMMA CvContactsFit ==
  ASSUME NEW r, Cv!IsRun(r), NEW i \in DOMAIN r.batch,
         NEW p, p = [r EXCEPT !.contacts = @ \cup {i}]
  PROVE  /\ Cv!IsRun(p) /\ p.asleep = r.asleep /\ p.failed = r.failed /\ p.batch = r.batch
         /\ p.contacts = r.contacts \cup {i}
<1>. DEFINE c == r.contacts \cup {i}
<1>1. /\ r = [asleep |-> r.asleep, batch |-> r.batch, contacts |-> r.contacts, failed |-> r.failed]
      /\ r.asleep \in BOOLEAN /\ r.failed \in BOOLEAN
      /\ DOMAIN r.batch \subseteq 1..CvBatchSize
      /\ r.batch \in [DOMAIN r.batch -> Cv!Change]
      /\ r.contacts \subseteq 1..CvBatchSize
  BY DEF Cv!IsRun
<1>2. c \subseteq 1..CvBatchSize /\ p = [r EXCEPT !.contacts = c]
  BY <1>1
<1>. HIDE DEF c
<1>3. p = [asleep |-> r.asleep, batch |-> r.batch, contacts |-> c, failed |-> r.failed]
  BY <1>1, <1>2
<1>4. p.asleep = r.asleep /\ p.batch = r.batch /\ p.contacts = c /\ p.failed = r.failed
  BY <1>3
<1>5. Cv!IsRun(p)
  BY <1>1, <1>2, <1>3, <1>4 DEF Cv!IsRun
<1>. QED  BY <1>4, <1>5 DEF c

\* A step of the logs alone that keeps the last ones keeps the end of the way.
LEMMA CvFinalKept ==
  ASSUME NEW t \in CvThing, latest \in [CvThing -> Nat], CvFinal(t), UNCHANGED <<queue, runs, latest>>,
         \A v \in Nat : CvLastLogged(t, v) => CvLastLogged(t, v)'
  PROVE  CvFinal(t)'
<1>1. PICK v \in Nat : v = latest[t]
  OBVIOUS
<1>2. CvQueueEnds(t)' /\ (~CvQueued(t)' => CvBatchEnds(t)')
  BY DEF CvFinal, CvQueueEnds, CvQueued, CvBatchEnds
<1>3. ASSUME ~CvQueued(t)', ~CvInBatch(t)' PROVE CvLastLogged(t, latest[t])'
  <2>1. ~CvQueued(t) /\ ~CvInBatch(t)
    BY <1>3 DEF CvQueued, CvInBatch
  <2>2. CvLastLogged(t, v)
    BY <1>1, <2>1 DEF CvFinal
  <2>3. CvLastLogged(t, v)'
    BY <2>2
  <2>. QED  BY <1>1, <2>3 DEF CvLastLogged
<1>. QED  BY <1>2, <1>3 DEF CvFinal

\* Steps that touch neither what waits nor the logs.
LEMMA CvFinalSame ==
  ASSUME NEW t \in CvThing, latest \in [CvThing -> Nat], CvFinal(t),
         UNCHANGED <<queue, runs, latest, logs, recorded>>
  PROVE  CvFinal(t)'
<1>1. \A v \in Nat : CvLastLogged(t, v) => CvLastLogged(t, v)'
  BY DEF CvLastLogged
<1>. QED  BY <1>1, CvFinalKept

\* No other step makes a thing one that is logged, or has something wait for its contact.
LEMMA CvOnlyAskedSame ==
  ASSUME CvOnlyAsked, UNCHANGED <<logs, recorded, known, asked>>,
         \A x \in runs' : x \in runs \/ x.contacts = {}
  PROVE  CvOnlyAsked'
  BY DEF CvOnlyAsked

LEMMA CvInitIInv == ASSUME CvBounds PROVE Cv!Init => CvIInv
<1>. SUFFICES ASSUME Cv!Init PROVE CvIInv
  OBVIOUS
<1>1. CvLogIInv
  BY CvLoggerInitIInv DEF Cv!Init
<1>0. /\ latest = [t \in CvThing |-> 0] /\ last = [t \in CvThing |-> 0]
      /\ queue = <<>> /\ runs = {} /\ ~promise
      /\ known = {} /\ asked = {} /\ excused = {} /\ events = 0 /\ active = TRUE /\ promise = FALSE
      /\ loggedIn = FALSE /\ status = "pending"
      /\ autoLog = TRUE /\ lastAutoLog = FALSE
  BY DEF Cv!Init
<1>2. Cv!TypeOK
  <2>1. Cv!LoggerTypeOK
    BY <1>1 DEF CvLogIInv
  <2>2. queue \in Seq(Cv!Change)
    BY <1>0
  <2>. QED  BY <1>0, <2>1, <2>2 DEF Cv!TypeOK
<1>3. CvRunsFit /\ CvPending /\ CvBehind /\ CvApart /\ CvOnlyAsked
  <2>1. CvRunsFit
    BY <1>0 DEF CvRunsFit
  <2>2. CvPending
    BY <1>0 DEF CvPending
  <2>3. CvBehind
    BY <1>0 DEF CvBehind
  <2>4. CvApart
    BY <1>0 DEF CvApart
  <2>5. CvOnlyAsked
    BY <1>0 DEF CvOnlyAsked, Cv!Init, Cv!LoggerInit
  <2>. QED  BY <2>1, <2>2, <2>3, <2>4, <2>5
<1>4. CvAllServed
  <2>. SUFFICES ASSUME NEW t \in CvThing PROVE CvFinal(t)
    BY DEF CvAllServed
  <2>1. latest[t] = 0 /\ logs = {} /\ recorded[t] = 0 /\ queue = <<>> /\ runs = {}
    BY DEF Cv!Init, Cv!LoggerInit
  <2>2. CvLastLogged(t, latest[t])
    BY <2>1 DEF CvLastLogged
  <2>. QED  BY <2>1, <2>2 DEF CvFinal, CvQueueEnds, CvBatchEnds
<1>. QED  BY <1>1, <1>2, <1>3, <1>4 DEF CvIInv

--------------------
(* Steps. *)

LEMMA CvInitializeKeeps == ASSUME CvBounds, CvIInv, Cv!Initialize PROVE CvIInv'
<1>0. /\ Cv!TypeOK /\ CvLogIInv /\ CvRunsFit /\ CvPending /\ CvBehind /\ CvApart /\ CvOnlyAsked /\ CvAllServed
      /\ status' = "ready"
      /\ UNCHANGED <<Cv!logger, latest, loggedIn, active, autoLog, lastAutoLog, last, queue, runs,
                     promise, known, asked, excused, events>>
  BY DEF CvIInv, Cv!Initialize
<1>1. CvLogIInv' /\ UNCHANGED <<logs, recorded, disturbed>>
  BY <1>0, CvLoggerSame
<1>2. Cv!TypeOK'
  <2>1. Cv!LoggerTypeOK'
    BY <1>1 DEF CvLogIInv
  <2>2. \A r \in runs' : Cv!IsRun(r)
    BY <1>0 DEF Cv!TypeOK
  <2>. QED  BY <1>0, <2>1, <2>2 DEF Cv!TypeOK, Cv!IsRun
<1>3. CvRunsFit' /\ CvPending' /\ CvBehind' /\ CvApart'
  BY <1>0 DEF CvRunsFit, CvPending, CvBehind, CvApart
<1>4. CvAllServed'
  BY <1>0, <1>1, CvFinalSame DEF CvAllServed, Cv!TypeOK
<1>5. CvOnlyAsked'
  BY <1>0, <1>1, CvOnlyAskedSame
<1>. QED  BY <1>5, <1>1, <1>2, <1>3, <1>4 DEF CvIInv

LEMMA CvResetKeeps == ASSUME CvBounds, CvIInv, Cv!Reset PROVE CvIInv'
<1>0. /\ Cv!TypeOK /\ CvLogIInv /\ CvRunsFit /\ CvPending /\ CvBehind /\ CvApart /\ CvOnlyAsked /\ CvAllServed
      /\ status' = "pending" /\ last' = [t \in CvThing |-> 0] /\ lastAutoLog' = FALSE
      /\ queue' = <<>> /\ promise' = FALSE
      /\ Cv!LoggerReset
      /\ excused' = IF runs = {} THEN excused ELSE CvThing
      /\ UNCHANGED <<latest, loggedIn, active, autoLog, runs, known, asked, events>>
  BY DEF CvIInv, Cv!Reset
<1>1. CvLogIInv' /\ UNCHANGED <<logs, recorded, disturbed>>
  BY <1>0, CvLoggerResetKeeps
<1>2. Cv!TypeOK'
  <2>1. Cv!LoggerTypeOK'
    BY <1>1 DEF CvLogIInv
  <2>2. \A r \in runs' : Cv!IsRun(r)
    BY <1>0 DEF Cv!TypeOK
  <2>3. queue' \in Seq(Cv!Change) /\ last' \in [CvThing -> Nat]
    BY <1>0
  <2>4. excused' \subseteq CvThing
    BY <1>0 DEF Cv!TypeOK
  <2>. QED  BY <1>0, <2>1, <2>2, <2>3, <2>4 DEF Cv!TypeOK, Cv!IsRun
<1>3. CvRunsFit'
  BY <1>0 DEF CvRunsFit
<1>4. CvPending'
  BY <1>0 DEF CvPending
<1>5. CvBehind'
  BY <1>0 DEF CvBehind, Cv!TypeOK
<1>6. CvApart'
  BY <1>0 DEF CvApart, Cv!TypeOK
<1>7. CvAllServed'
  <2>. SUFFICES ASSUME NEW t \in CvThing \ (excused' \cup disturbed'), latest'[t] = last'[t]
                PROVE  CvFinal(t)'
    BY DEF CvAllServed
  <2>1. runs = {} /\ excused' = excused /\ t \notin excused \cup disturbed
    BY <1>0, <1>1
  <2>2. latest[t] = 0 /\ last[t] = 0
    BY <1>0 DEF Cv!TypeOK, CvBehind
  <2>3. CvFinal(t)
    BY <1>0, <2>1, <2>2 DEF CvAllServed
  <2>4. ~CvQueued(t)
    <3>. SUFFICES ASSUME NEW i \in DOMAIN queue, queue[i].of = t PROVE FALSE
      BY DEF CvQueued
    <3>1. PICK j \in DOMAIN queue : queue[j].version = latest[t]
      BY <2>3 DEF CvFinal, CvQueueEnds
    <3>. QED  BY <1>0, <2>2, <3>1 DEF CvBehind
  <2>5. ~CvInBatch(t)
    BY <2>1 DEF CvInBatch
  <2>6. CvLastLogged(t, latest[t])
    BY <2>3, <2>4, <2>5 DEF CvFinal
  <2>7. CvLastLogged(t, latest[t])'
    BY <1>0, <1>1, <2>6 DEF CvLastLogged
  <2>. QED  BY <1>0, <2>1, <2>7 DEF CvFinal, CvQueueEnds, CvBatchEnds
<1>8. CvOnlyAsked'
  BY <1>0, <1>1, CvOnlyAskedSame
<1>. QED  BY <1>8, <1>1, <1>2, <1>3, <1>4, <1>5, <1>6, <1>7 DEF CvIInv

\* The length of two sequences, one after the other.
LEMMA CvConcatenated ==
  ASSUME NEW S, NEW p \in Seq(S), NEW q \in Seq(S)
  PROVE  Len(p \o q) = Len(p) + Len(q)
  OBVIOUS

LEMMA CvProcessMapKeeps == ASSUME CvBounds, CvIInv, Cv!ProcessConversationLogMap PROVE CvIInv'
<1>0. /\ Cv!TypeOK /\ CvLogIInv /\ CvRunsFit /\ CvPending /\ CvBehind /\ CvApart /\ CvOnlyAsked /\ CvAllServed
      /\ status = "ready" /\ last' = latest /\ lastAutoLog' = autoLog
      /\ IF active /\ Cv!Changed # {} /\ ~promise
         THEN runs' = runs \cup {Cv!Asleep} /\ promise' = TRUE
         ELSE UNCHANGED <<runs, promise>>
      /\ excused' = IF active THEN excused ELSE excused \cup Cv!Changed
      /\ UNCHANGED <<Cv!logger, latest, loggedIn, status, active, autoLog, known, asked,
                     events>>
  BY DEF CvIInv, Cv!ProcessConversationLogMap, Cv!ShouldProcess
<1>1. CvLogIInv' /\ UNCHANGED <<logs, recorded, disturbed>>
  BY <1>0, CvLoggerSame
<1>20. PICK C : C = Cv!Changed
  OBVIOUS
<1>2. /\ C = Cv!Changed /\ C \subseteq CvThing
      /\ \A t \in C : latest[t] # 0
      /\ \A t \in CvThing \ C : latest[t] = 0 \/ latest[t] = last[t]
  BY <1>20 DEF Cv!Changed
<1>3. PICK m \in Nat : m = Cardinality(C)
  <2>1. IsFiniteSet(C)
    BY <1>2, FS_Subset DEF CvBounds
  <2>. QED  BY <2>1, FS_CardinalityType
<1>4. PICK order \in [1..m -> C] :
        /\ \A t \in C : \E i \in DOMAIN order : order[i] = t
        /\ queue' = IF active
                    THEN queue \o [i \in DOMAIN order |->
                                     [of |-> order[i], version |-> latest[order[i]]]]
                    ELSE queue
  BY <1>2, <1>3, CvCardinality DEF Cv!ProcessConversationLogMap
<1>. DEFINE new == [i \in 1..m |-> [of |-> order[i], version |-> latest[order[i]]]]
<1>5. new \in Seq(Cv!Change) /\ Len(new) = m /\ DOMAIN new = 1..m
      /\ \A i \in 1..m : new[i].of = order[i] /\ new[i].version = latest[order[i]]
  <2>1. \A i \in 1..m : [of |-> order[i], version |-> latest[order[i]]] \in Cv!Change
    BY <1>0, <1>2 DEF Cv!TypeOK, Cv!Change
  <2>2. new \in [1..m -> Cv!Change]
    BY <2>1
  <2>3. new \in Seq(Cv!Change) /\ Len(new) = m
    BY <1>3, <2>2
  <2>. QED  BY <2>3
<1>6. queue' = IF active THEN queue \o new ELSE queue
  BY <1>4
<1>. HIDE DEF new
<1>7. PICK n \in Nat : n = Len(queue)
  BY <1>0 DEF Cv!TypeOK
<1>8. DOMAIN queue = 1..n /\ queue \in Seq(Cv!Change)
  BY <1>0, <1>7 DEF Cv!TypeOK
<1>9. ASSUME active
      PROVE  /\ DOMAIN queue' = 1..(n + m)
             /\ \A i \in 1..n : queue'[i] = queue[i]
             /\ \A i \in 1..m : n + i \in 1..(n + m) /\ queue'[n + i] = new[i]
             /\ \A i \in 1..(n + m) : i \in 1..n \/ (i - n \in 1..m /\ queue'[i] = new[i - n])
  <2>1. queue' = queue \o new
    BY <1>6, <1>9
  <2>0. Len(queue \o new) = Len(queue) + Len(new)
    BY <1>5, <1>8, CvConcatenated
  <2>2. Len(queue') = n + m
    BY <1>5, <1>7, <2>0, <2>1
  <2>3. queue' \in Seq(Cv!Change)
    BY <1>5, <1>8, <2>1
  <2>4. DOMAIN queue' = 1..(n + m)
    BY <2>2, <2>3
  <2>5. \A i \in 1..n : queue'[i] = queue[i]
    BY <1>5, <1>7, <1>8, <2>1
  <2>6. \A i \in 1..(n + m) : i \notin 1..n => i - n \in 1..m /\ queue'[i] = new[i - n]
    BY <1>5, <1>7, <1>8, <2>1
  <2>7. \A i \in 1..m : n + i \in 1..(n + m) /\ n + i \notin 1..n /\ (n + i) - n = i
    OBVIOUS
  <2>. QED  BY <2>4, <2>5, <2>6, <2>7
<1>10. Cv!TypeOK'
  <2>1. queue' \in Seq(Cv!Change)
    BY <1>5, <1>6, <1>8
  <2>2. \A r \in runs' : Cv!IsRun(r)
    BY <1>0, CvAsleepFits DEF Cv!TypeOK
  <2>3. excused' \subseteq CvThing
    BY <1>0, <1>2 DEF Cv!TypeOK
  <2>4. promise' \in BOOLEAN
    BY <1>0 DEF Cv!TypeOK
  <2>5. Cv!LoggerTypeOK'
    BY <1>1 DEF CvLogIInv
  <2>. QED  BY <1>0, <2>1, <2>2, <2>3, <2>4, <2>5 DEF Cv!TypeOK, Cv!IsRun
<1>11. excused = CvThing => excused' = CvThing
  BY <1>0, <1>2
<1>12. ~(active /\ Cv!Changed # {}) => queue' = queue
  <2>. SUFFICES ASSUME active, C = {} PROVE queue' = queue
    BY <1>2, <1>6
  <2>1. m = 0
    BY <1>4
  <2>2. new = <<>>
    BY <1>5, <2>1
  <2>. QED  BY <1>6, <1>8, <2>2
<1>13. CvRunsFit'
  <2>1. \A r \in runs' : r.asleep => r.batch = <<>>
    BY <1>0, CvAsleepFits DEF CvRunsFit
  <2>2. CASE excused = CvThing
    BY <1>11, <2>1, <2>2 DEF CvRunsFit
  <2>3. CASE excused # CvThing
    <3>0. /\ \A r, s \in runs : r = s
          /\ \A r \in runs : ~r.failed
          /\ promise = (runs # {})
          /\ queue # <<>> => runs # {}
      BY <1>0, <2>3 DEF CvRunsFit
    <3>1. CASE active /\ Cv!Changed # {} /\ ~promise
      <4>1. runs' = {Cv!Asleep} /\ promise' = TRUE
        BY <1>0, <3>0, <3>1
      <4>. QED  BY <2>1, <4>1, CvAsleepFits DEF CvRunsFit
    <3>2. CASE ~(active /\ Cv!Changed # {} /\ ~promise)
      <4>1. runs' = runs /\ promise' = promise
        BY <1>0, <3>2
      <4>2. queue' # <<>> => runs' # {}
        BY <1>12, <3>0, <3>2, <4>1
      <4>. QED  BY <2>1, <3>0, <4>1, <4>2 DEF CvRunsFit
    <3>. QED  BY <3>1, <3>2
  <2>. QED  BY <2>2, <2>3
<1>14. CvPending'
  BY <1>0 DEF CvPending
<1>15. CvBehind'
  <2>1. \A t \in CvThing : last'[t] <= latest'[t]
    BY <1>0 DEF Cv!TypeOK
  <2>2. ASSUME NEW i \in 1..m PROVE new[i].version # 0
    <3>1. order[i] \in C /\ new[i].version = latest[order[i]]
      BY <1>4, <1>5
    <3>. QED  BY <1>2, <3>1
  <2>3. \A i \in DOMAIN queue' : queue'[i].version # 0
    <3>1. CASE active
      BY <1>0, <1>8, <1>9, <2>2, <3>1 DEF CvBehind
    <3>2. CASE ~active
      BY <1>0, <1>6, <3>2 DEF CvBehind
    <3>. QED  BY <3>1, <3>2
  <2>. QED  BY <2>1, <2>3 DEF CvBehind
<1>16. CvApart'
  <2>1. Cv!Twice(Cv!Asleep.batch) = {}
    BY CvAsleepFits DEF Cv!Twice
  <2>2. \A r \in runs' : r \in runs \/ r = Cv!Asleep
    BY <1>0
  <2>3. excused \subseteq excused'
    BY <1>0
  <2>. QED  BY <1>0, <2>1, <2>2, <2>3 DEF CvApart
<1>17. CvAllServed'
  <2>. SUFFICES ASSUME NEW t \in CvThing \ (excused' \cup disturbed') PROVE CvFinal(t)'
    BY DEF CvAllServed
  <2>0. t \notin excused \cup disturbed /\ (t \in C => active)
    BY <1>0, <1>1, <1>2
  <2>1. \A r \in runs' : r \in runs \/ (r = Cv!Asleep /\ DOMAIN r.batch = {})
    BY <1>0, CvAsleepFits
  <2>2. CvBatchEnds(t) => CvBatchEnds(t)'
    BY <1>0, <2>1 DEF CvBatchEnds
  <2>3. ~CvInBatch(t)' => ~CvInBatch(t)
    BY <1>0 DEF CvInBatch
  <2>4. CvLastLogged(t, latest[t]) => CvLastLogged(t, latest[t])'
    BY <1>0, <1>1 DEF CvLastLogged
  <2>5. CASE t \in C
    <3>1. active
      BY <2>0, <2>5
    <3>2. PICK i \in 1..m : order[i] = t
      BY <1>4, <2>5
    <3>3. n + i \in DOMAIN queue' /\ queue'[n + i].of = t /\ queue'[n + i].version = latest'[t]
      BY <1>0, <1>5, <1>9, <3>1, <3>2
    <3>4. CvQueued(t)'
      BY <3>3 DEF CvQueued
    <3>5. CvQueueEnds(t)'
      <4>. SUFFICES ASSUME NEW k \in DOMAIN queue', queue'[k].of = t
                    PROVE  \E j \in DOMAIN queue' : j >= k /\ queue'[j].of = t
                                                    /\ queue'[j].version = latest'[t]
        BY DEF CvQueueEnds
      <4>1. CASE k \in 1..n
        <5>1. n + i >= k
          BY <4>1
        <5>. QED  BY <3>3, <5>1
      <4>2. CASE k \notin 1..n
        <5>1. k - n \in 1..m /\ queue'[k] = new[k - n]
          BY <1>9, <3>1, <4>2
        <5>2. queue'[k].version = latest'[t]
          BY <1>0, <1>5, <5>1
        <5>3. k >= k
          BY <1>9, <3>1
        <5>. QED  BY <5>2, <5>3
      <4>. QED  BY <4>1, <4>2
    <3>. QED  BY <3>4, <3>5 DEF CvFinal
  <2>6. CASE t \notin C
    <3>1. latest[t] = last[t]
      <4>1. last[t] <= latest[t] /\ last[t] \in Nat /\ latest[t] \in Nat
        BY <1>0 DEF CvBehind, Cv!TypeOK
      <4>. QED  BY <1>2, <2>6, <4>1
    <3>2. CvFinal(t)
      BY <1>0, <2>0, <3>1 DEF CvAllServed
    <3>3. \A k \in DOMAIN queue : k \in DOMAIN queue' /\ queue'[k] = queue[k]
      BY <1>6, <1>8, <1>9
    <3>4. \A k \in DOMAIN queue' : queue'[k].of = t => k \in DOMAIN queue
      <4>. SUFFICES ASSUME NEW k \in DOMAIN queue', queue'[k].of = t, k \notin DOMAIN queue
                    PROVE  FALSE
        OBVIOUS
      <4>1. active
        BY <1>6
      <4>2. k - n \in 1..m /\ queue'[k] = new[k - n]
        BY <1>8, <1>9, <4>1
      <4>. QED  BY <1>4, <1>5, <2>6, <4>2
    <3>5. CvQueued(t) => CvQueued(t)'
      BY <3>3 DEF CvQueued
    <3>6. CvQueueEnds(t)'
      BY <1>0, <3>2, <3>3, <3>4 DEF CvFinal, CvQueueEnds
    <3>. QED  BY <1>0, <2>2, <2>3, <2>4, <3>2, <3>5, <3>6 DEF CvFinal
  <2>. QED  BY <2>5, <2>6
<1>18. CvOnlyAsked'
  <2>1. \A x \in runs' : x \in runs \/ x.contacts = {}
    BY <1>0, CvAsleepFits
  <2>. QED  BY <1>0, <1>1, <2>1, CvOnlyAskedSame
<1>. QED  BY <1>18, <1>1, <1>10, <1>13, <1>14, <1>15, <1>16, <1>17 DEF CvIInv

LEMMA CvWakeUpKeeps == ASSUME CvBounds, CvIInv, NEW r \in runs, Cv!WakeUp(r) PROVE CvIInv'
<1>. DEFINE batch == SubSeq(queue, 1, Cv!Least(CvBatchSize, Len(queue)))
            rest == SubSeq(queue, Cv!Least(CvBatchSize, Len(queue)) + 1, Len(queue))
            w == Cv!Awake(batch)
<1>0. /\ Cv!TypeOK /\ CvLogIInv /\ CvRunsFit /\ CvPending /\ CvBehind /\ CvApart /\ CvOnlyAsked /\ CvAllServed
      /\ Cv!Settled /\ r.asleep
      /\ UNCHANGED <<Cv!logger, latest, loggedIn, status, active, autoLog, lastAutoLog, last, promise,
                     known, asked, events>>
  BY DEF CvIInv, Cv!WakeUp
<1>1. CvLogIInv' /\ UNCHANGED <<logs, recorded, disturbed>>
  BY <1>0, CvLoggerSame
<1>2. /\ loggedIn => /\ runs' = (runs \ {r}) \cup {w} /\ queue' = rest
                     /\ excused' = excused \cup Cv!Twice(batch)
      /\ ~loggedIn => runs' = runs \ {r} /\ queue' = queue /\ excused' = excused
  BY DEF Cv!WakeUp
<1>3. r.batch = <<>> /\ DOMAIN r.batch = {}
  BY <1>0 DEF CvRunsFit
<1>4. PICK len \in Nat : len = Len(queue)
  BY <1>0 DEF Cv!TypeOK
<1>5. PICK n \in Nat : n = Cv!Least(CvBatchSize, Len(queue)) /\ n <= CvBatchSize /\ n <= len
  BY <1>4 DEF Cv!Least, CvBounds
<1>6. queue \in Seq(Cv!Change) /\ DOMAIN queue = 1..len
  BY <1>0, <1>4 DEF Cv!TypeOK
<1>7. /\ batch \in Seq(Cv!Change) /\ DOMAIN batch = 1..n
      /\ \A i \in 1..n : i \in 1..len /\ batch[i] = queue[i]
  <2>1. batch = SubSeq(queue, 1, n)
    BY <1>5
  <2>2. batch \in Seq(Cv!Change) /\ Len(batch) = n
    BY <1>4, <1>5, <1>6, <2>1
  <2>3. \A i \in 1..n : i \in 1..len /\ batch[i] = queue[i]
    BY <1>4, <1>5, <1>6, <2>1
  <2>. QED  BY <2>2, <2>3
<1>8. /\ rest \in Seq(Cv!Change) /\ DOMAIN rest = 1..(len - n)
      /\ \A i \in 1..(len - n) : n + i \in 1..len /\ rest[i] = queue[n + i]
      /\ \A j \in 1..len : j > n => j - n \in 1..(len - n) /\ rest[j - n] = queue[j]
  <2>1. rest = SubSeq(queue, n + 1, len)
    BY <1>4, <1>5
  <2>2. rest \in Seq(Cv!Change) /\ Len(rest) = len - n
    BY <1>4, <1>5, <1>6, <2>1
  <2>3. \A i \in 1..(len - n) : n + i \in 1..len /\ rest[i] = queue[n + i]
    BY <1>4, <1>5, <1>6, <2>1
  <2>4. \A j \in 1..len : j > n => j - n \in 1..(len - n) /\ n + (j - n) = j
    BY <1>5
  <2>5. DOMAIN rest = 1..(len - n)
    BY <2>2
  <2>6. \A j \in 1..len : j > n => rest[j - n] = queue[j]
    BY <2>3, <2>4
  <2>. QED  BY <2>2, <2>3, <2>4, <2>5, <2>6
<1>. HIDE DEF batch, rest
<1>9. w = [asleep |-> FALSE, batch |-> batch, contacts |-> {}, failed |-> FALSE]
  BY DEF Cv!Awake
<1>. HIDE DEF w
<1>10. /\ w.batch = batch /\ ~w.asleep /\ ~w.failed /\ w.contacts = {} /\ Cv!IsRun(w)
  <2>1. w.batch = batch /\ w.asleep = FALSE /\ w.failed = FALSE /\ w.contacts = {}
    BY <1>9
  <2>2. DOMAIN batch \subseteq 1..CvBatchSize
    BY <1>5, <1>7 DEF CvBounds
  <2>3. batch \in [DOMAIN batch -> Cv!Change]
    BY <1>7
  <2>. QED  BY <1>9, <2>1, <2>2, <2>3 DEF Cv!IsRun
<1>11. Cv!Twice(batch) \subseteq CvThing
  BY DEF Cv!Twice
<1>12. Cv!TypeOK'
  <2>1. Cv!LoggerTypeOK'
    BY <1>1 DEF CvLogIInv
  <2>2. \A x \in runs' : Cv!IsRun(x)
    BY <1>0, <1>2, <1>10 DEF Cv!TypeOK
  <2>3. queue' \in Seq(Cv!Change)
    BY <1>2, <1>6, <1>8
  <2>4. excused' \subseteq CvThing
    BY <1>0, <1>2, <1>11 DEF Cv!TypeOK
  <2>. QED  BY <1>0, <2>1, <2>2, <2>3, <2>4 DEF Cv!TypeOK, Cv!IsRun
<1>13. ~loggedIn => status = "pending"
  BY <1>0 DEF Cv!Settled, Cv!ShouldReset, Cv!TypeOK
<1>14. ASSUME excused # CvThing PROVE loggedIn /\ runs = {r} /\ runs' = {w} /\ promise = TRUE
  <2>1. runs = {r} /\ promise = TRUE
    BY <1>0, <1>14 DEF CvRunsFit
  <2>2. loggedIn
    BY <1>0, <1>13, <2>1 DEF CvPending
  <2>. QED  BY <1>2, <2>1, <2>2
<1>15. excused \subseteq excused' /\ (excused = CvThing => excused' = CvThing)
  BY <1>2, <1>11
<1>16. CvRunsFit'
  <2>1. \A x \in runs' : x.asleep => x.batch = <<>>
    BY <1>0, <1>2, <1>10 DEF CvRunsFit
  <2>2. CASE excused = CvThing
    BY <1>15, <2>1, <2>2 DEF CvRunsFit
  <2>3. CASE excused # CvThing
    <3>1. runs' = {w} /\ promise' = TRUE
      BY <1>0, <1>14, <2>3
    <3>. QED  BY <1>10, <2>1, <3>1 DEF CvRunsFit
  <2>. QED  BY <2>2, <2>3
<1>17. CvPending'
  <2>1. queue = <<>> => queue' = <<>>
    <3>. SUFFICES ASSUME queue = <<>>, loggedIn PROVE rest = <<>>
      BY <1>2
    <3>1. len = 0 /\ n = 0
      BY <1>4, <1>5
    <3>. QED  BY <1>8, <3>1
  <2>. QED  BY <1>0, <2>1 DEF CvPending
<1>18. CvBehind'
  <2>0. \A i \in DOMAIN queue : queue[i].version # 0
    BY <1>0 DEF CvBehind
  <2>1. \A i \in DOMAIN queue' : queue'[i].version # 0
    <3>1. CASE loggedIn
      <4>. SUFFICES ASSUME NEW i \in 1..(len - n) PROVE rest[i].version # 0
        BY <1>2, <1>8, <3>1
      <4>1. n + i \in DOMAIN queue /\ rest[i] = queue[n + i]
        BY <1>6, <1>8
      <4>. QED  BY <2>0, <4>1
    <3>2. CASE ~loggedIn
      BY <1>2, <2>0, <3>2
    <3>. QED  BY <3>1, <3>2
  <2>. QED  BY <1>0, <2>1 DEF CvBehind
<1>19. CvApart'
  BY <1>0, <1>2, <1>10 DEF CvApart
<1>20. CvAllServed'
  <2>. SUFFICES ASSUME NEW t \in CvThing \ (excused' \cup disturbed'), latest'[t] = last'[t]
                PROVE  CvFinal(t)'
    BY DEF CvAllServed
  <2>1. t \notin excused \cup disturbed /\ excused # CvThing
    BY <1>1, <1>15
  <2>2. loggedIn /\ runs = {r} /\ runs' = {w} /\ t \notin Cv!Twice(batch) /\ queue' = rest
    BY <1>2, <1>14, <2>1
  <2>3. CvFinal(t)
    BY <1>0, <2>1 DEF CvAllServed
  <2>4. CvQueueEnds(t)'
    <3>. SUFFICES ASSUME NEW i \in 1..(len - n), rest[i].of = t
                  PROVE  \E j \in 1..(len - n) : j >= i /\ rest[j].of = t
                                                 /\ rest[j].version = latest[t]
      BY <1>0, <1>8, <2>2 DEF CvQueueEnds
    <3>1. n + i \in 1..len /\ queue[n + i].of = t
      BY <1>8
    <3>2. PICK j \in 1..len : j >= n + i /\ queue[j].of = t /\ queue[j].version = latest[t]
      BY <1>6, <2>3, <3>1 DEF CvFinal, CvQueueEnds
    <3>3. j > n /\ j - n >= i
      BY <1>5, <3>2
    <3>. QED  BY <1>8, <3>2, <3>3
  <2>5. ASSUME ~CvQueued(t)' PROVE CvBatchEnds(t)'
    <3>. SUFFICES ASSUME NEW i \in 1..n, batch[i].of = t PROVE batch[i].version = latest[t]
      BY <1>0, <1>7, <1>10, <2>2 DEF CvBatchEnds
    <3>1. i \in 1..len /\ queue[i].of = t
      BY <1>7
    <3>2. PICK j \in 1..len : j >= i /\ queue[j].of = t /\ queue[j].version = latest[t]
      BY <1>6, <2>3, <3>1 DEF CvFinal, CvQueueEnds
    <3>3. j \in 1..n
      <4>1. ~(j > n)
        BY <1>8, <2>2, <2>5, <3>2 DEF CvQueued
      <4>. QED  BY <1>5, <4>1
    <3>4. batch[j].of = t /\ batch[j].version = latest[t]
      BY <1>7, <3>2, <3>3
    <3>. QED  BY <1>7, <2>2, <3>3, <3>4 DEF Cv!Twice
  <2>6. ASSUME ~CvQueued(t)', ~CvInBatch(t)' PROVE CvLastLogged(t, latest[t])'
    <3>1. ~CvQueued(t)
      <4>. SUFFICES ASSUME NEW i \in 1..len, queue[i].of = t PROVE FALSE
        BY <1>6 DEF CvQueued
      <4>1. CASE i \in 1..n
        <5>1. batch[i].of = t
          BY <1>7, <4>1
        <5>. QED  BY <1>7, <1>10, <2>2, <2>6, <4>1, <5>1 DEF CvInBatch
      <4>2. CASE i \notin 1..n
        <5>1. i > n
          BY <1>5, <4>2
        <5>. QED  BY <1>8, <2>2, <2>6, <5>1 DEF CvQueued
      <4>. QED  BY <4>1, <4>2
    <3>2. ~CvInBatch(t)
      BY <1>3, <2>2 DEF CvInBatch
    <3>3. CvLastLogged(t, latest[t])
      BY <2>3, <3>1, <3>2 DEF CvFinal
    <3>. QED  BY <1>0, <1>1, <3>3 DEF CvLastLogged
  <2>. QED  BY <2>4, <2>5, <2>6 DEF CvFinal
<1>21. CvOnlyAsked'
  <2>1. \A x \in runs' : x \in runs \/ x.contacts = {}
    BY <1>2, <1>10
  <2>. QED  BY <1>0, <1>1, <2>1, CvOnlyAskedSame
<1>. QED  BY <1>21, <1>1, <1>12, <1>16, <1>17, <1>18, <1>19, <1>20 DEF CvIInv

\* One of a batch is done: it is logged, or left alone.
LEMMA CvProcessedKeeps ==
  ASSUME CvBounds, CvIInv, NEW r \in runs, NEW i \in DOMAIN r.batch,
         runs' = (runs \ {r}) \cup {Cv!Processed(r, i)},
         \/ Cv!BeginLog(r.batch[i].of, r.batch[i].version) /\ excused' = excused
         \/ UNCHANGED Cv!logger /\ excused' = excused \cup {r.batch[i].of},
         UNCHANGED Cv!logger \/ r.batch[i].of \in CvSms \cup asked,
         known' \subseteq CvThing \cap (CvSms \cup asked),
         UNCHANGED <<latest, loggedIn, status, active, autoLog, lastAutoLog, last, queue, promise,
                     asked, events>>
  PROVE  CvIInv'
<1>0. /\ Cv!TypeOK /\ CvLogIInv /\ CvRunsFit /\ CvPending /\ CvBehind /\ CvApart /\ CvOnlyAsked /\ CvAllServed
  BY DEF CvIInv
<1>1. PICK p : p = Cv!Processed(r, i)
  OBVIOUS
<1>2. runs' = (runs \ {r}) \cup {p}
  BY <1>1
<1>3. Cv!IsRun(r) /\ (r.asleep => r.batch = <<>>)
  BY <1>0 DEF Cv!TypeOK, CvRunsFit
<1>4. /\ Cv!IsRun(p) /\ ~p.asleep /\ p.failed = r.failed
      /\ DOMAIN p.batch = DOMAIN r.batch \ {i}
      /\ \A j \in DOMAIN p.batch : p.batch[j] = r.batch[j]
      /\ p.contacts \subseteq r.contacts
  BY <1>1, <1>3, CvProcessedFits
<1>5. PICK t0 \in CvThing, v \in Nat : t0 = r.batch[i].of /\ v = r.batch[i].version
  BY <1>3, CvRunFits DEF Cv!Change
<1>6. \/ Cv!BeginLog(t0, v) /\ excused' = excused
      \/ UNCHANGED Cv!logger /\ excused' = excused \cup {t0}
  BY <1>5
<1>7. /\ CvLogIInv' /\ disturbed \subseteq disturbed'
      /\ excused \subseteq excused' /\ excused' \subseteq excused \cup {t0}
      /\ t0 \notin excused' \cup disturbed' => CvLastLogged(t0, v)'
      /\ \A s \in CvThing \ {t0}, u \in Nat : CvLastLogged(s, u) => CvLastLogged(s, u)'
  <2>1. CASE Cv!BeginLog(t0, v) /\ excused' = excused
    BY <1>0, <2>1, CvBeginLogKeeps
  <2>2. CASE UNCHANGED Cv!logger /\ excused' = excused \cup {t0}
    <3>1. CvLogIInv' /\ UNCHANGED <<logs, recorded, disturbed>>
      BY <1>0, <2>2, CvLoggerSame
    <3>2. \A s \in CvThing \ {t0}, u \in Nat : CvLastLogged(s, u) => CvLastLogged(s, u)'
      BY <3>1 DEF CvLastLogged
    <3>. QED  BY <2>2, <3>1, <3>2
  <2>. QED  BY <1>6, <2>1, <2>2
<1>8. Cv!TypeOK'
  <2>1. Cv!LoggerTypeOK'
    BY <1>7 DEF CvLogIInv
  <2>2. \A x \in runs' : Cv!IsRun(x)
    BY <1>0, <1>2, <1>4 DEF Cv!TypeOK
  <2>3. excused' \subseteq CvThing
    BY <1>0, <1>5, <1>7 DEF Cv!TypeOK
  <2>. QED  BY <1>0, <2>1, <2>2, <2>3 DEF Cv!TypeOK, Cv!IsRun
<1>9. excused = CvThing => excused' = CvThing
  BY <1>5, <1>7
<1>10. ASSUME excused # CvThing PROVE runs = {r} /\ runs' = {p}
  <2>1. runs = {r}
    BY <1>0, <1>10 DEF CvRunsFit
  <2>. QED  BY <1>2, <2>1
<1>11. CvRunsFit'
  <2>1. \A x \in runs' : x.asleep => x.batch = <<>>
    BY <1>0, <1>2, <1>4 DEF CvRunsFit
  <2>2. CASE excused = CvThing
    BY <1>9, <2>1, <2>2 DEF CvRunsFit
  <2>3. CASE excused # CvThing
    <3>1. runs = {r} /\ runs' = {p}
      BY <1>10, <2>3
    <3>2. ~p.failed /\ promise = TRUE
      BY <1>0, <1>4, <2>3, <3>1 DEF CvRunsFit
    <3>. QED  BY <1>0, <2>1, <3>1, <3>2 DEF CvRunsFit
  <2>. QED  BY <2>2, <2>3
<1>12. CvPending' /\ CvBehind'
  BY <1>0 DEF CvPending, CvBehind
<1>13. CvApart'
  <2>1. Cv!Twice(p.batch) \subseteq Cv!Twice(r.batch)
    BY <1>4 DEF Cv!Twice
  <2>. QED  BY <1>0, <1>2, <1>7, <2>1 DEF CvApart
<1>14. CvAllServed'
  <2>. SUFFICES ASSUME NEW t \in CvThing \ (excused' \cup disturbed'), latest'[t] = last'[t]
                PROVE  CvFinal(t)'
    BY DEF CvAllServed
  <2>1. t \notin excused \cup disturbed /\ excused # CvThing
    BY <1>7
  <2>2. runs = {r} /\ runs' = {p}
    BY <1>10, <2>1
  <2>3. CvFinal(t)
    BY <1>0, <2>1 DEF CvAllServed
  <2>4. CvQueueEnds(t)' /\ CvQueued(t)' = CvQueued(t)
    BY <1>0, <2>3 DEF CvFinal, CvQueueEnds, CvQueued
  <2>5. ~CvQueued(t) => CvBatchEnds(t)'
    BY <1>0, <1>4, <2>2, <2>3 DEF CvFinal, CvBatchEnds
  <2>6. PICK u \in Nat : u = latest[t]
    BY <1>0 DEF Cv!TypeOK
  <2>7. ASSUME ~CvQueued(t), ~CvInBatch(t)' PROVE CvLastLogged(t, latest[t])'
    <3>1. CASE t = t0
      <4>1. v = u
        BY <1>5, <2>2, <2>3, <2>6, <2>7, <3>1 DEF CvFinal, CvBatchEnds
      <4>2. CvLastLogged(t, u)'
        BY <1>7, <3>1, <4>1
      <4>. QED  BY <1>0, <2>6, <4>2 DEF CvLastLogged
    <3>2. CASE t # t0
      <4>1. ~CvInBatch(t)
        BY <1>4, <1>5, <2>2, <2>7, <3>2 DEF CvInBatch
      <4>2. CvLastLogged(t, u)
        BY <2>3, <2>6, <2>7, <4>1 DEF CvFinal
      <4>3. CvLastLogged(t, u)'
        BY <1>7, <3>2, <4>2
      <4>. QED  BY <1>0, <2>6, <4>3 DEF CvLastLogged
    <3>. QED  BY <3>1, <3>2
  <2>. QED  BY <2>4, <2>5, <2>7 DEF CvFinal
<1>15. CvOnlyAsked'
  <2>1. \A j \in DOMAIN p.batch : j \in p.contacts => p.batch[j].of \in CvSms
    BY <1>0, <1>4 DEF CvOnlyAsked
  <2>2. CASE UNCHANGED Cv!logger
    <3>1. UNCHANGED <<logs, recorded>>
      BY <2>2 DEF Cv!logger
    <3>. QED  BY <1>0, <1>2, <2>1, <3>1 DEF CvOnlyAsked
  <2>3. CASE Cv!BeginLog(t0, v) /\ ~UNCHANGED Cv!logger
    <3>1. t0 \in CvSms \cup asked
      BY <1>5, <2>3
    <3>2. recorded' = recorded /\ \E k \in logs' : k.of = t0 /\ logs' = logs \cup {k}
      BY <1>0, <2>3, CvBeginLogKeeps
    <3>. QED  BY <1>0, <1>2, <2>1, <3>1, <3>2 DEF CvOnlyAsked
  <2>. QED  BY <1>6, <2>2, <2>3
<1>. QED  BY <1>15, <1>7, <1>8, <1>11, <1>12, <1>13, <1>14 DEF CvIInv

LEMMA CvAutoLogKeeps ==
  ASSUME CvBounds, CvIInv, NEW r \in runs, NEW i \in DOMAIN r.batch, Cv!AutoLog(r, i),
         r.batch[i].of \in CvSms \cup asked, known' \subseteq CvThing \cap (CvSms \cup asked),
         UNCHANGED <<latest, loggedIn, status, active, autoLog, lastAutoLog, last, queue, promise,
                     asked, events>>
  PROVE  CvIInv'
  BY CvProcessedKeeps DEF Cv!AutoLog

LEMMA CvProcessKeeps ==
  ASSUME CvBounds, CvIInv, NEW r \in runs, NEW i \in DOMAIN r.batch, Cv!ProcessConversationLog(r, i)
  PROVE  CvIInv'
<1>0. /\ Cv!TypeOK /\ CvLogIInv /\ CvRunsFit /\ CvPending /\ CvBehind /\ CvApart /\ CvOnlyAsked /\ CvAllServed
      /\ UNCHANGED <<latest, loggedIn, status, active, autoLog, lastAutoLog, last, queue, promise,
                     asked, events>>
  BY DEF CvIInv, Cv!ProcessConversationLog
<1>1. Cv!IsRun(r) /\ (r.asleep => r.batch = <<>>)
  BY <1>0 DEF Cv!TypeOK, CvRunsFit
<1>2. PICK t \in CvThing : t = r.batch[i].of
  BY <1>1, CvRunFits DEF Cv!Change
<1>3. PICK found \in Cv!Found(t) :
        /\ known' = IF found THEN known \cup {t} ELSE known
        /\ \/ found /\ Cv!AutoLog(r, i)
           \/ /\ ~found /\ Cv!IsNewEntry(t)
              /\ runs' = (runs \ {r}) \cup {[r EXCEPT !.contacts = @ \cup {i}]}
              /\ UNCHANGED <<Cv!logger, excused>>
           \/ /\ ~found /\ ~Cv!IsNewEntry(t)
              /\ runs' = (runs \ {r}) \cup {Cv!Processed(r, i)}
              /\ excused' = excused \cup {t}
              /\ UNCHANGED Cv!logger
  BY <1>2 DEF Cv!ProcessConversationLog
<1>4. found => t \in CvSms \cup asked
  BY <1>0, <1>3 DEF Cv!Found, CvOnlyAsked
<1>5. known' \subseteq CvThing \cap (CvSms \cup asked)
  BY <1>0, <1>3, <1>4 DEF Cv!TypeOK, CvOnlyAsked
<1>6. CASE found /\ Cv!AutoLog(r, i)
  BY <1>0, <1>2, <1>4, <1>5, <1>6, CvAutoLogKeeps
<1>7. CASE ~found /\ Cv!IsNewEntry(t)
  <2>1. PICK p : p = [r EXCEPT !.contacts = @ \cup {i}]
    OBVIOUS
  <2>2. runs' = (runs \ {r}) \cup {p} /\ UNCHANGED <<Cv!logger, excused, known>>
    BY <1>3, <1>7, <2>1
  <2>3. /\ Cv!IsRun(p) /\ p.asleep = r.asleep /\ p.failed = r.failed /\ p.batch = r.batch
        /\ p.contacts = r.contacts \cup {i}
    BY <1>1, <2>1, CvContactsFit
  <2>4. CvLogIInv' /\ UNCHANGED <<logs, recorded, disturbed>>
    BY <1>0, <2>2, CvLoggerSame
  <2>5. Cv!TypeOK'
    <3>1. Cv!LoggerTypeOK'
      BY <2>4 DEF CvLogIInv
    <3>2. \A x \in runs' : Cv!IsRun(x)
      BY <1>0, <2>2, <2>3 DEF Cv!TypeOK
    <3>. QED  BY <1>0, <2>2, <3>1, <3>2 DEF Cv!TypeOK, Cv!IsRun
  <2>6. CvRunsFit'
    <3>1. \A x \in runs' : x.asleep => x.batch = <<>>
      BY <1>0, <2>2, <2>3 DEF CvRunsFit
    <3>2. CASE excused = CvThing
      BY <2>2, <3>1, <3>2 DEF CvRunsFit
    <3>3. CASE excused # CvThing
      <4>1. runs = {r} /\ runs' = {p} /\ ~p.failed /\ promise = TRUE
        BY <1>0, <2>2, <2>3, <3>3 DEF CvRunsFit
      <4>. QED  BY <1>0, <3>1, <4>1 DEF CvRunsFit
    <3>. QED  BY <3>2, <3>3
  <2>7. CvPending' /\ CvBehind' /\ CvApart'
    BY <1>0, <2>2, <2>3 DEF CvPending, CvBehind, CvApart
  <2>8. CvOnlyAsked'
    <3>1. t \in CvSms
      BY <1>7 DEF Cv!IsNewEntry
    <3>2. \A j \in DOMAIN p.batch : j \in p.contacts => p.batch[j].of \in CvSms
      BY <1>0, <1>2, <2>3, <3>1 DEF CvOnlyAsked
    <3>. QED  BY <1>0, <2>2, <2>4, <3>2 DEF CvOnlyAsked
  <2>9. ASSUME NEW s \in CvThing, CvFinal(s) PROVE CvFinal(s)'
    <3>1. CvQueueEnds(s)' /\ CvQueued(s)' = CvQueued(s)
      BY <1>0, <2>9 DEF CvFinal, CvQueueEnds, CvQueued
    <3>2. ~CvQueued(s) => CvBatchEnds(s)'
      BY <1>0, <2>2, <2>3, <2>9 DEF CvFinal, CvBatchEnds
    <3>3. CvInBatch(s) => CvInBatch(s)'
      BY <2>2, <2>3 DEF CvInBatch
    <3>4. CvLastLogged(s, latest[s]) => CvLastLogged(s, latest[s])'
      BY <1>0, <2>4 DEF CvLastLogged
    <3>. QED  BY <2>9, <3>1, <3>2, <3>3, <3>4 DEF CvFinal
  <2>10. CvAllServed'
    BY <1>0, <2>2, <2>4, <2>9 DEF CvAllServed
  <2>. QED  BY <2>4, <2>5, <2>6, <2>7, <2>8, <2>10 DEF CvIInv
<1>8. CASE ~found /\ ~Cv!IsNewEntry(t)
  BY <1>0, <1>2, <1>3, <1>5, <1>8, CvProcessedKeeps
<1>. QED  BY <1>3, <1>6, <1>7, <1>8

LEMMA CvContactsMatchedKeeps ==
  ASSUME CvBounds, CvIInv, NEW r \in runs, NEW i \in DOMAIN r.batch, Cv!ContactsMatched(r, i)
  PROVE  CvIInv'
<1>1. /\ Cv!TypeOK /\ CvOnlyAsked /\ i \in r.contacts /\ Cv!AutoLog(r, i)
      /\ UNCHANGED <<latest, loggedIn, status, active, autoLog, lastAutoLog, last, queue, promise,
                     known, asked, events>>
  BY DEF CvIInv, Cv!ContactsMatched
<1>2. r.batch[i].of \in CvSms \cup asked
  BY <1>1 DEF CvOnlyAsked
<1>3. known' \subseteq CvThing \cap (CvSms \cup asked)
  BY <1>1 DEF CvOnlyAsked, Cv!TypeOK
<1>. QED  BY <1>1, <1>2, <1>3, CvAutoLogKeeps

LEMMA CvMatchFailsKeeps ==
  ASSUME CvBounds, CvIInv, NEW r \in runs, NEW i \in DOMAIN r.batch, Cv!MatchFails(r, i)
  PROVE  CvIInv'
<1>0. /\ Cv!TypeOK /\ CvLogIInv /\ CvRunsFit /\ CvPending /\ CvBehind /\ CvApart /\ CvOnlyAsked /\ CvAllServed
      /\ excused' = CvThing /\ events' = events + 1
      /\ UNCHANGED <<Cv!logger, latest, loggedIn, status, active, autoLog, lastAutoLog, last, queue,
                     promise, known, asked>>
  BY DEF CvIInv, Cv!MatchFails, Cv!Counted
<1>1. PICK p : p = [Cv!Processed(r, i) EXCEPT !.failed = TRUE]
  OBVIOUS
<1>2. runs' = (runs \ {r}) \cup {p}
  BY <1>1 DEF Cv!MatchFails
<1>3. Cv!IsRun(r) /\ (r.asleep => r.batch = <<>>)
  BY <1>0 DEF Cv!TypeOK, CvRunsFit
<1>4. /\ Cv!IsRun(p) /\ ~p.asleep
      /\ DOMAIN p.batch = DOMAIN r.batch \ {i}
      /\ \A j \in DOMAIN p.batch : p.batch[j] = r.batch[j]
      /\ p.contacts \subseteq r.contacts
  BY <1>1, <1>3, CvProcessedFits
<1>5. CvLogIInv' /\ UNCHANGED <<logs, recorded, disturbed>>
  BY <1>0, CvLoggerSame
<1>6. Cv!TypeOK'
  <2>1. Cv!LoggerTypeOK'
    BY <1>5 DEF CvLogIInv
  <2>2. \A x \in runs' : Cv!IsRun(x)
    BY <1>0, <1>2, <1>4 DEF Cv!TypeOK
  <2>. QED  BY <1>0, <2>1, <2>2 DEF Cv!TypeOK, Cv!IsRun
<1>7. CvRunsFit'
  BY <1>0, <1>2, <1>4 DEF CvRunsFit
<1>8. CvOnlyAsked'
  <2>1. \A j \in DOMAIN p.batch : j \in p.contacts => p.batch[j].of \in CvSms
    BY <1>0, <1>4 DEF CvOnlyAsked
  <2>. QED  BY <1>0, <1>2, <1>5, <2>1 DEF CvOnlyAsked
<1>. QED  BY <1>0, <1>8, <1>5, <1>6, <1>7 DEF CvIInv, CvPending, CvBehind, CvApart, CvAllServed

LEMMA CvEndRunKeeps == ASSUME CvBounds, CvIInv, NEW r \in runs, Cv!EndRun(r) PROVE CvIInv'
<1>0. /\ Cv!TypeOK /\ CvLogIInv /\ CvRunsFit /\ CvPending /\ CvBehind /\ CvApart /\ CvOnlyAsked /\ CvAllServed
      /\ Cv!Settled /\ DOMAIN r.batch = {}
      /\ runs' = (runs \ {r}) \cup (IF ~r.failed /\ Cv!Continues(r) THEN {Cv!Asleep} ELSE {})
      /\ promise' = IF r.failed THEN promise ELSE Cv!Continues(r)
      /\ UNCHANGED <<Cv!logger, latest, loggedIn, status, active, autoLog, lastAutoLog, last, queue,
                     known, asked, excused, events>>
  BY DEF CvIInv, Cv!EndRun
<1>1. CvLogIInv' /\ UNCHANGED <<logs, recorded, disturbed>>
  BY <1>0, CvLoggerSame
<1>2. Cv!Continues(r) \in BOOLEAN /\ (~loggedIn => ~Cv!Continues(r)) /\ (queue = <<>> => ~Cv!Continues(r))
      /\ (loggedIn /\ queue # <<>> => Cv!Continues(r))
  BY DEF Cv!Continues
<1>3. ~loggedIn => status = "pending"
  BY <1>0 DEF Cv!Settled, Cv!ShouldReset, Cv!TypeOK
<1>4. \A x \in runs' : x \in runs \/ x = Cv!Asleep
  BY <1>0
<1>5. Cv!TypeOK'
  <2>1. Cv!LoggerTypeOK'
    BY <1>1 DEF CvLogIInv
  <2>2. \A x \in runs' : Cv!IsRun(x)
    BY <1>0, <1>4, CvAsleepFits DEF Cv!TypeOK
  <2>3. promise' \in BOOLEAN
    BY <1>0, <1>2 DEF Cv!TypeOK
  <2>. QED  BY <1>0, <2>1, <2>2, <2>3 DEF Cv!TypeOK, Cv!IsRun
<1>6. CvRunsFit'
  <2>1. \A x \in runs' : x.asleep => x.batch = <<>>
    BY <1>0, <1>4, CvAsleepFits DEF CvRunsFit
  <2>2. CASE excused = CvThing
    BY <1>0, <2>1, <2>2 DEF CvRunsFit
  <2>3. CASE excused # CvThing
    <3>1. runs = {r} /\ ~r.failed
      BY <1>0, <2>3 DEF CvRunsFit
    <3>2. CASE Cv!Continues(r)
      <4>1. runs' = {Cv!Asleep} /\ promise' = TRUE
        BY <1>0, <1>2, <3>1, <3>2
      <4>. QED  BY <2>1, <4>1, CvAsleepFits DEF CvRunsFit
    <3>3. CASE ~Cv!Continues(r)
      <4>1. runs' = {} /\ promise' = FALSE
        BY <1>0, <1>2, <3>1, <3>3
      <4>2. queue' = <<>>
        BY <1>0, <1>2, <1>3, <3>3 DEF CvPending
      <4>. QED  BY <4>1, <4>2 DEF CvRunsFit
    <3>. QED  BY <3>2, <3>3
  <2>. QED  BY <2>2, <2>3
<1>7. CvPending'
  <2>1. queue = <<>> /\ ~promise => ~promise'
    BY <1>0, <1>2
  <2>. QED  BY <1>0, <2>1 DEF CvPending
<1>8. CvBehind'
  BY <1>0 DEF CvBehind
<1>9. CvApart'
  <2>1. Cv!Twice(Cv!Asleep.batch) = {}
    BY CvAsleepFits DEF Cv!Twice
  <2>. QED  BY <1>0, <1>4, <2>1 DEF CvApart
<1>10. CvAllServed'
  <2>. SUFFICES ASSUME NEW t \in CvThing \ (excused' \cup disturbed'), latest'[t] = last'[t]
                PROVE  CvFinal(t)'
    BY DEF CvAllServed
  <2>1. CvFinal(t)
    BY <1>0, <1>1 DEF CvAllServed
  <2>2. CvQueueEnds(t)' /\ CvQueued(t)' = CvQueued(t)
    BY <1>0, <2>1 DEF CvFinal, CvQueueEnds, CvQueued
  <2>3. ~CvQueued(t) => CvBatchEnds(t)'
    BY <1>0, <1>4, <2>1, CvAsleepFits DEF CvFinal, CvBatchEnds
  <2>4. ~CvInBatch(t)' => ~CvInBatch(t)
    BY <1>0 DEF CvInBatch
  <2>5. CvLastLogged(t, latest[t]) => CvLastLogged(t, latest[t])'
    BY <1>0, <1>1 DEF CvLastLogged
  <2>. QED  BY <2>1, <2>2, <2>3, <2>4, <2>5 DEF CvFinal
<1>11. CvOnlyAsked'
  <2>1. \A x \in runs' : x \in runs \/ x.contacts = {}
    BY <1>4, CvAsleepFits
  <2>. QED  BY <1>0, <1>1, <2>1, CvOnlyAskedSame
<1>. QED  BY <1>11, <1>1, <1>5, <1>6, <1>7, <1>8, <1>9, <1>10 DEF CvIInv

\* Steps of the logs.
LEMMA CvLogStepKeeps ==
  ASSUME CvBounds, CvIInv, CvLogIInv', disturbed \subseteq disturbed', events' \in Nat,
         CvOnlyAsked', asked' \subseteq CvThing,
         UNCHANGED <<latest, loggedIn, status, active, autoLog, lastAutoLog, last, queue, runs,
                     promise, known, excused>>,
         \A t \in CvThing \ (excused \cup disturbed') : CvFinal(t) => CvFinal(t)'
  PROVE  CvIInv'
<1>0. Cv!TypeOK /\ CvRunsFit /\ CvPending /\ CvBehind /\ CvApart /\ CvOnlyAsked /\ CvAllServed
  BY DEF CvIInv
<1>1. Cv!TypeOK'
  <2>1. Cv!LoggerTypeOK'
    BY DEF CvLogIInv
  <2>2. \A x \in runs' : Cv!IsRun(x)
    BY <1>0 DEF Cv!TypeOK
  <2>. QED  BY <1>0, <2>1, <2>2 DEF Cv!TypeOK, Cv!IsRun
<1>2. CvRunsFit' /\ CvPending' /\ CvBehind' /\ CvApart'
  BY <1>0 DEF CvRunsFit, CvPending, CvBehind, CvApart
<1>3. CvAllServed'
  BY <1>0 DEF CvAllServed
<1>. QED  BY <1>1, <1>2, <1>3 DEF CvIInv

LEMMA CvLogConversationKeeps ==
  ASSUME CvBounds, CvIInv, NEW t \in CvThing, Cv!LogConversation(t) PROVE CvIInv'
<1>0. /\ Cv!TypeOK /\ CvLogIInv /\ CvOnlyAsked
      /\ events' = events + 1
      /\ Cv!BeginLog(t, latest[t])
      /\ asked' = asked \cup {t}
      /\ UNCHANGED <<latest, loggedIn, status, active, autoLog, lastAutoLog, last, queue, runs,
                     promise, known, excused>>
  BY DEF CvIInv, Cv!LogConversation, Cv!Counted
<1>1. latest \in [CvThing -> Nat] /\ events' \in Nat
  BY <1>0 DEF Cv!TypeOK
<1>2. PICK v \in Nat : v = latest[t]
  BY <1>1
<1>3. Cv!BeginLog(t, v)
  BY <1>0, <1>2
<1>4. /\ CvLogIInv' /\ disturbed \subseteq disturbed' /\ recorded' = recorded
      /\ \E k \in logs' : k.of = t /\ logs' = logs \cup {k}
      /\ t \notin disturbed' => CvLastLogged(t, v)'
      /\ \A s \in CvThing \ {t}, u \in Nat : CvLastLogged(s, u) => CvLastLogged(s, u)'
  BY <1>0, <1>3, CvBeginLogKeeps
<1>5. ASSUME NEW s \in CvThing \ (excused \cup disturbed'), CvFinal(s) PROVE CvFinal(s)'
  <2>1. CASE s # t
    BY <1>0, <1>1, <1>4, <1>5, <2>1, CvFinalKept
  <2>2. CASE s = t
    <3>1. CvLastLogged(t, latest[t])'
      BY <1>0, <1>2, <1>4, <1>5, <2>2 DEF CvLastLogged
    <3>2. CvQueueEnds(t)' /\ (~CvQueued(t)' => CvBatchEnds(t)')
      BY <1>0, <1>5, <2>2 DEF CvFinal, CvQueueEnds, CvQueued, CvBatchEnds
    <3>. QED  BY <2>2, <3>1, <3>2 DEF CvFinal
  <2>. QED  BY <2>1, <2>2
<1>6. CvOnlyAsked'
  BY <1>0, <1>4 DEF CvOnlyAsked
<1>7. asked' \subseteq CvThing
  BY <1>0 DEF Cv!TypeOK
<1>. QED  BY <1>0, <1>1, <1>4, <1>5, <1>6, <1>7, CvLogStepKeeps

LEMMA CvLogsKeep == ASSUME CvBounds, CvIInv, Cv!Logs PROVE CvIInv'
<1>0. /\ Cv!TypeOK /\ CvLogIInv /\ CvOnlyAsked
      /\ UNCHANGED <<latest, loggedIn, status, active, autoLog, lastAutoLog, last, queue, runs,
                     promise, known, asked, excused>>
  BY DEF CvIInv, Cv!Logs
<1>1. PICK l \in logs : \/ Cv!LogDone(l) /\ UNCHANGED events
                        \/ Cv!LogFails(l) /\ Cv!Counted
  BY DEF Cv!Logs
<1>2. /\ CvLogIInv' /\ disturbed \subseteq disturbed' /\ events' \in Nat
      /\ \A t \in CvThing \ disturbed', v \in Nat : CvLastLogged(t, v) => CvLastLogged(t, v)'
  <2>1. CASE Cv!LogDone(l) /\ UNCHANGED events
    <3>1. /\ CvLogIInv' /\ disturbed \subseteq disturbed'
          /\ \A t \in CvThing \ disturbed', v \in Nat : CvLastLogged(t, v) => CvLastLogged(t, v)'
      BY <1>0, <2>1, CvLogDoneKeeps
    <3>. QED  BY <1>0, <2>1, <3>1 DEF Cv!TypeOK
  <2>2. CASE Cv!LogFails(l) /\ Cv!Counted
    <3>1. /\ CvLogIInv' /\ disturbed \subseteq disturbed'
          /\ \A t \in CvThing \ disturbed', v \in Nat : CvLastLogged(t, v) => CvLastLogged(t, v)'
      BY <1>0, <2>2, CvLogFailsKeeps
    <3>2. events' \in Nat
      BY <1>0, <2>2 DEF Cv!TypeOK, Cv!Counted
    <3>. QED  BY <3>1, <3>2
  <2>. QED  BY <1>1, <2>1, <2>2
<1>3. \A t \in CvThing \ (excused \cup disturbed') : CvFinal(t) => CvFinal(t)'
  BY <1>0, <1>2, CvFinalKept DEF Cv!TypeOK
<1>4. CvOnlyAsked'
  <2>1. l.of \in CvSms \cup asked
    BY <1>0 DEF CvOnlyAsked
  <2>2. CASE Cv!LogDone(l)
    <3>1. /\ \A k \in logs' : \E m \in logs : m.of = k.of
          /\ recorded' = [recorded EXCEPT ![l.of] = l.version]
      BY <1>0, <2>2, CvLogDoneKeeps
    <3>2. \A t \in CvThing : recorded'[t] # 0 => recorded[t] # 0 \/ t = l.of
      BY <1>0, <3>1 DEF Cv!TypeOK, Cv!LoggerTypeOK
    <3>. QED  BY <1>0, <2>1, <3>1, <3>2 DEF CvOnlyAsked
  <2>3. CASE Cv!LogFails(l)
    <3>1. recorded' = recorded /\ logs' \subseteq logs
      BY <1>0, <2>3, CvLogFailsKeeps
    <3>. QED  BY <1>0, <3>1 DEF CvOnlyAsked
  <2>. QED  BY <1>1, <2>2, <2>3
<1>5. asked' \subseteq CvThing
  BY <1>0 DEF Cv!TypeOK
<1>. QED  BY <1>0, <1>2, <1>3, <1>4, <1>5, CvLogStepKeeps

LEMMA CvMessageKeeps == ASSUME CvBounds, CvIInv, NEW t \in CvThing, Cv!Message(t) PROVE CvIInv'
<1>0. /\ Cv!TypeOK /\ CvLogIInv /\ CvRunsFit /\ CvPending /\ CvBehind /\ CvApart /\ CvOnlyAsked /\ CvAllServed
      /\ latest' = [latest EXCEPT ![t] = @ + 1]
      /\ UNCHANGED <<Cv!logger, loggedIn, status, active, autoLog, lastAutoLog, last, queue, runs,
                     promise, known, asked, excused, events>>
  BY DEF CvIInv, Cv!Message
<1>1. CvLogIInv' /\ UNCHANGED <<logs, recorded, disturbed>>
  BY <1>0, CvLoggerSame
<1>2. /\ latest' \in [CvThing -> Nat]
      /\ \A s \in CvThing : latest'[s] = IF s = t THEN latest[s] + 1 ELSE latest[s]
  BY <1>0 DEF Cv!TypeOK
<1>3. Cv!TypeOK'
  <2>1. Cv!LoggerTypeOK'
    BY <1>1 DEF CvLogIInv
  <2>2. \A x \in runs' : Cv!IsRun(x)
    BY <1>0 DEF Cv!TypeOK
  <2>. QED  BY <1>0, <1>2, <2>1, <2>2 DEF Cv!TypeOK, Cv!IsRun
<1>4. CvRunsFit' /\ CvPending' /\ CvApart'
  BY <1>0 DEF CvRunsFit, CvPending, CvApart
<1>5. CvBehind'
  <2>1. \A s \in CvThing : last'[s] <= latest'[s]
    BY <1>0, <1>2 DEF CvBehind, Cv!TypeOK
  <2>. QED  BY <1>0, <2>1 DEF CvBehind
<1>6. CvAllServed'
  <2>. SUFFICES ASSUME NEW s \in CvThing \ (excused' \cup disturbed'), latest'[s] = last'[s]
                PROVE  CvFinal(s)'
    BY DEF CvAllServed
  <2>1. s # t
    BY <1>0, <1>2 DEF CvBehind, Cv!TypeOK
  <2>2. latest'[s] = latest[s]
    BY <1>2, <2>1
  <2>3. CvFinal(s)
    BY <1>0, <1>1, <2>2 DEF CvAllServed
  <2>4. CvQueueEnds(s)' /\ (~CvQueued(s)' => CvBatchEnds(s)')
    BY <1>0, <2>2, <2>3 DEF CvFinal, CvQueueEnds, CvQueued, CvBatchEnds
  <2>5. ASSUME ~CvQueued(s)', ~CvInBatch(s)' PROVE CvLastLogged(s, latest[s])'
    <3>1. CvLastLogged(s, latest[s])
      BY <1>0, <2>3, <2>5 DEF CvFinal, CvQueued, CvInBatch
    <3>. QED  BY <1>1, <2>2, <3>1 DEF CvLastLogged
  <2>. QED  BY <2>4, <2>5 DEF CvFinal
<1>7. CvOnlyAsked'
  BY <1>0, <1>1, CvOnlyAskedSame
<1>. QED  BY <1>7, <1>1, <1>3, <1>4, <1>5, <1>6 DEF CvIInv

LEMMA CvTurnKeeps == ASSUME CvBounds, CvIInv, Cv!Turn PROVE CvIInv'
<1>0. /\ Cv!TypeOK /\ CvLogIInv /\ CvRunsFit /\ CvPending /\ CvBehind /\ CvApart /\ CvOnlyAsked /\ CvAllServed
      /\ events' = events + 1
      /\ UNCHANGED <<Cv!logger, latest, status, lastAutoLog, last, queue, runs, promise, known,
                     asked, excused>>
  BY DEF CvIInv, Cv!Turn, Cv!Counted
<1>1. CvLogIInv' /\ UNCHANGED <<logs, recorded, disturbed>>
  BY <1>0, CvLoggerSame
<1>2. loggedIn' \in BOOLEAN /\ active' \in BOOLEAN /\ autoLog' \in BOOLEAN
  BY <1>0 DEF Cv!Turn, Cv!TypeOK
<1>3. Cv!TypeOK'
  <2>1. Cv!LoggerTypeOK'
    BY <1>1 DEF CvLogIInv
  <2>2. \A x \in runs' : Cv!IsRun(x)
    BY <1>0 DEF Cv!TypeOK
  <2>3. events' \in Nat
    BY <1>0 DEF Cv!TypeOK
  <2>. QED  BY <1>0, <1>2, <2>1, <2>2, <2>3 DEF Cv!TypeOK, Cv!IsRun
<1>4. CvRunsFit' /\ CvPending' /\ CvBehind' /\ CvApart'
  BY <1>0 DEF CvRunsFit, CvPending, CvBehind, CvApart
<1>5. CvAllServed'
  BY <1>0, <1>1, CvFinalSame DEF CvAllServed, Cv!TypeOK
<1>6. CvOnlyAsked'
  BY <1>0, <1>1, CvOnlyAskedSame
<1>. QED  BY <1>6, <1>1, <1>3, <1>4, <1>5 DEF CvIInv

LEMMA CvNextIInv == ASSUME CvBounds PROVE CvIInv /\ [Cv!Next]_(Cv!vars) => CvIInv'
<1>. SUFFICES ASSUME CvIInv, [Cv!Next]_(Cv!vars) PROVE CvIInv'
  OBVIOUS
<1>1. CASE UNCHANGED Cv!vars
  <2>1. /\ Cv!TypeOK /\ CvLogIInv /\ CvRunsFit /\ CvPending /\ CvBehind /\ CvApart /\ CvOnlyAsked /\ CvAllServed
        /\ UNCHANGED <<Cv!logger, latest, loggedIn, status, active, autoLog, lastAutoLog, last, queue,
                       runs, promise, known, asked, excused, events>>
    BY <1>1 DEF CvIInv, Cv!vars, Cv!conversations
  <2>2. CvLogIInv' /\ UNCHANGED <<logs, recorded, disturbed>>
    BY <2>1, CvLoggerSame
  <2>3. Cv!TypeOK'
    <3>1. Cv!LoggerTypeOK'
      BY <2>2 DEF CvLogIInv
    <3>2. \A x \in runs' : Cv!IsRun(x)
      BY <2>1 DEF Cv!TypeOK
    <3>. QED  BY <2>1, <3>1, <3>2 DEF Cv!TypeOK, Cv!IsRun
  <2>4. CvRunsFit' /\ CvPending' /\ CvBehind' /\ CvApart'
    BY <2>1 DEF CvRunsFit, CvPending, CvBehind, CvApart
  <2>5. CvAllServed'
    BY <2>1, <2>2, CvFinalSame DEF CvAllServed, Cv!TypeOK
  <2>6. CvOnlyAsked'
    BY <2>1, <2>2, CvOnlyAskedSame
  <2>. QED  BY <2>2, <2>3, <2>4, <2>5, <2>6 DEF CvIInv
<1>2. CASE Cv!Next
  BY <1>2, CvInitializeKeeps, CvResetKeeps, CvProcessMapKeeps, CvWakeUpKeeps, CvProcessKeeps,
     CvContactsMatchedKeeps,
     CvMatchFailsKeeps, CvEndRunKeeps, CvLogConversationKeeps, CvLogsKeep, CvMessageKeeps, CvTurnKeeps
     DEF Cv!Next
<1>. QED  BY <1>1, <1>2

\* For any things, batches and bounds: what the application's system has of a thing, or is
\* going to have, is about its newest message, and of what is not SMS only if the user asked.
LEMMA CvLatestIsLogged == ASSUME CvBounds PROVE CvIInv => Cv!LatestLogged
<1>. SUFFICES ASSUME CvIInv PROVE Cv!LatestLogged
  OBVIOUS
<1>0. Cv!TypeOK /\ CvLogIInv /\ CvRunsFit /\ CvOnlyAsked /\ CvAllServed
  BY DEF CvIInv
<1>1. ASSUME Cv!Settled, status = "ready", NEW t \in CvThing \ (excused \cup disturbed)
      PROVE  \/ recorded[t] = latest[t]
             \/ \E l \in logs : l.of = t /\ l.version = latest[t]
             \/ \E r \in runs : \E i \in DOMAIN r.batch :
                  r.batch[i] = [of |-> t, version |-> latest[t]]
             \/ /\ runs # {}
                /\ \E i \in DOMAIN queue : queue[i] = [of |-> t, version |-> latest[t]]
  <2>1. latest[t] = last[t]
    BY <1>1 DEF Cv!Settled, Cv!ShouldReset, Cv!ShouldProcess
  <2>2. CvFinal(t)
    BY <1>0, <1>1, <2>1 DEF CvAllServed
  <2>3. CASE CvQueued(t)
    <3>1. PICK i \in DOMAIN queue : queue[i].of = t /\ queue[i].version = latest[t]
      BY <2>2, <2>3 DEF CvFinal, CvQueued, CvQueueEnds
    <3>2. queue[i] \in Cv!Change
      BY <1>0 DEF Cv!TypeOK
    <3>3. queue[i] = [of |-> t, version |-> latest[t]]
      BY <3>1, <3>2 DEF Cv!Change
    <3>4. runs # {}
      BY <1>0, <1>1, <3>1 DEF CvRunsFit
    <3>. QED  BY <3>3, <3>4
  <2>4. CASE ~CvQueued(t) /\ CvInBatch(t)
    <3>1. PICK r \in runs : \E i \in DOMAIN r.batch : r.batch[i].of = t
      BY <2>4 DEF CvInBatch
    <3>2. PICK i \in DOMAIN r.batch : r.batch[i].of = t
      BY <3>1
    <3>3. r.batch[i].version = latest[t]
      BY <2>2, <2>4, <3>2 DEF CvFinal, CvBatchEnds
    <3>4. Cv!IsRun(r)
      BY <1>0 DEF Cv!TypeOK
    <3>5. r.batch[i] \in Cv!Change
      BY <3>4, CvRunFits
    <3>6. r.batch[i] = [of |-> t, version |-> latest[t]]
      BY <3>2, <3>3, <3>5 DEF Cv!Change
    <3>. QED  BY <3>6
  <2>5. CASE ~CvQueued(t) /\ ~CvInBatch(t)
    BY <2>2, <2>5 DEF CvFinal, CvLastLogged
  <2>. QED  BY <2>3, <2>4, <2>5
<1>2. Cv!OnlyLogging
  BY <1>0 DEF CvLogIInv
<1>3. \A t \in CvThing \ (CvSms \cup asked) : recorded[t] = 0
  BY <1>0 DEF CvOnlyAsked
<1>. QED  BY <1>1, <1>2, <1>3 DEF Cv!LatestLogged

-----------------------------------------------------------------------------
(***************************************************************************)
(* Proofs about the views of the message store: for any conversations and  *)
(* bounds, and however updates, loads, answers and logins cross, a copy    *)
(* that is not that of the store is going to be renewed, or what it missed *)
(* is accounted for.                                                       *)
(***************************************************************************)

MvBounds == MvMaxMessages \in Nat /\ MvMaxEvents \in Nat /\ none \notin Nat /\ none \notin MvConversation

\* What is missed.
MvViewMissed(c)   == <<"view", c>> \in missed
MvReadMissed(c)   == <<"read", c>> \in missed
MvRecentMissed(c) == <<"recent", c>> \in missed

\* The time a copy knows is not that of an update that is still to come.
MvNotAhead(t) == t # none => t <= clock /\ (updatedTimestamp = none => t < clock)

MvTimed ==
  /\ updatedTimestamp = none \/ updatedTimestamp = clock
  /\ updatedTimestamp = none => \A c \in MvConversation : version[c] = 0
  /\ ~ready => updatedTimestamp = none
  /\ MvNotAhead(view.at) /\ MvNotAhead(prevTimestamp)

\* A view that knows the time of the store is as the store has it.
MvViewFit(c) ==
  view.id = c /\ version[c] # 0 /\ ~MvViewMissed(c) /\ view.at = updatedTimestamp =>
    /\ view.version = version[c]
    /\ unread[c] # 0 /\ ~MvReadMissed(c) => [of |-> c, version |-> unread[c]] \in reads

\* An answer that comes in time has what the store has, or another load has it.
MvLoadFits(l) == ~l.late /\ ~MvRecentMissed(l.of) => l.version = version[l.of] \/ Mv!Loading(l.of) \in loads

MvRecentFit(c) == c \in Mv!Contacts /\ ~MvRecentMissed(c) => recent[c] = version[c] \/ Mv!Loading(c) \in loads

\* Before the first update, there are no messages to load.
MvBlankLoad(l) ==
  ~l.late /\ ~MvRecentMissed(l.of) =>
    l.version = 0 \/ [of |-> l.of, version |-> 0, late |-> FALSE] \in loads

MvViewFits   == \A c \in MvConversation : MvViewFit(c)
MvRecentFits ==
  /\ prevTimestamp = updatedTimestamp => /\ \A l \in loads : MvLoadFits(l)
                                         /\ \A c \in MvConversation : MvRecentFit(c)
  /\ prevTimestamp = none /\ Mv!Contacts = {} => \A l \in loads : MvBlankLoad(l)

MvIInv == Mv!TypeOK /\ MvTimed /\ MvViewFits /\ MvRecentFits

--------------------
(* Types. *)

MvMissable == {"view", "read", "recent"} \X MvConversation

LEMMA MvMissedTypes ==
  ASSUME NEW c \in MvConversation
  PROVE  <<"view", c>> \in MvMissable /\ <<"read", c>> \in MvMissable /\ <<"recent", c>> \in MvMissable
  BY DEF MvMissable

LEMMA MvCountedType == ASSUME MvBounds, Mv!TypeOK, Mv!Counted PROVE events' \in 0..MvMaxEvents
<1>1. MvMaxEvents \in Nat /\ events \in 0..MvMaxEvents /\ events < MvMaxEvents /\ events' = events + 1
  BY DEF MvBounds, Mv!TypeOK, Mv!Counted
<1>. QED  BY <1>1

LEMMA MvMessageType ==
  ASSUME MvBounds, Mv!TypeOK, messages < MvMaxMessages, messages' = messages + 1
  PROVE  messages' \in 0..MvMaxMessages
<1>1. MvMaxMessages \in Nat /\ messages \in 0..MvMaxMessages
  BY DEF MvBounds, Mv!TypeOK
<1>. QED  BY <1>1

LEMMA MvLoadingType ==
  ASSUME Mv!TypeOK, NEW c \in MvConversation
  PROVE  /\ Mv!Loading(c) \in Mv!Load /\ Mv!Loading(c).of = c /\ Mv!Loading(c).version = version[c]
         /\ ~Mv!Loading(c).late
<1>1. version[c] \in Nat
  BY DEF Mv!TypeOK
<1>. QED  BY <1>1 DEF Mv!Loading, Mv!Load

LEMMA MvOverlookedType ==
  ASSUME Mv!TypeOK
  PROVE  /\ Mv!Overlooked \subseteq MvMissable
         /\ \A l \in loads : l.of \notin Mv!Contacts => <<"recent", l.of>> \in Mv!Overlooked
         /\ \A c \in MvConversation : <<"view", c>> \notin Mv!Overlooked /\ <<"read", c>> \notin Mv!Overlooked
<1>1. \A l \in loads : l.of \in MvConversation
  BY DEF Mv!TypeOK, Mv!Load
<1>. QED  BY <1>1 DEF Mv!Overlooked, MvMissable

LEMMA MvUnnoticedType ==
  ASSUME NEW c \in MvConversation, NEW time
  PROVE  /\ Mv!Unnoticed(c, time) \subseteq MvMissable
         /\ view.id = c /\ view.at = time => <<"view", c>> \in Mv!Unnoticed(c, time)
         /\ prevTimestamp = time => <<"recent", c>> \in Mv!Unnoticed(c, time)
  BY DEF Mv!Unnoticed, MvMissable

LEMMA MvMissedStays ==
  ASSUME missed \subseteq missed'
  PROVE  \A c : /\ MvViewMissed(c) => MvViewMissed(c)'
                /\ MvReadMissed(c) => MvReadMissed(c)'
                /\ MvRecentMissed(c) => MvRecentMissed(c)'
  BY DEF MvViewMissed, MvReadMissed, MvRecentMissed

LEMMA MvInitIInv == ASSUME MvBounds PROVE Mv!Init => MvIInv
<1>. SUFFICES ASSUME Mv!Init PROVE MvIInv
  OBVIOUS
<1>1. /\ ready = FALSE
      /\ version = [c \in MvConversation |-> 0] /\ unread = [c \in MvConversation |-> 0]
      /\ updatedTimestamp = none /\ clock = 1
      /\ view = [ready |-> FALSE, id |-> none, version |-> 0, at |-> none]
      /\ reads = {} /\ replies = {}
      /\ recent = [c \in MvConversation |-> none] /\ loads = {}
      /\ prevTimestamp = none
      /\ missed = {} /\ messages = 0 /\ events = 0
  BY DEF Mv!Init
<1>2. messages \in 0..MvMaxMessages /\ events \in 0..MvMaxEvents
  <2>1. MvMaxMessages \in Nat /\ MvMaxEvents \in Nat
    BY DEF MvBounds
  <2>. QED  BY <1>1, <2>1
<1>3. view \in [ready : BOOLEAN, id : MvConversation \cup {none}, version : Nat, at : Nat \cup {none}]
  BY <1>1
<1>4. version \in [MvConversation -> Nat] /\ unread \in [MvConversation -> Nat]
  BY <1>1
<1>5. Mv!TypeOK
  BY <1>1, <1>2, <1>3, <1>4 DEF Mv!TypeOK
<1>6. MvTimed
  BY <1>1 DEF MvTimed, MvNotAhead
<1>7. MvViewFits
  BY <1>1, <1>6 DEF MvViewFits, MvViewFit, MvTimed
<1>8. MvRecentFits
  BY <1>1 DEF MvRecentFits, MvRecentFit, Mv!Contacts
<1>. QED  BY <1>5, <1>6, <1>7, <1>8 DEF MvIInv

--------------------
(* Updates of the store. *)

\* A copy that knows the time of an update knew that of the store before it, and the clock has
\* not moved on.
LEMMA MvNotAheadStays ==
  ASSUME MvBounds, clock \in Nat, NEW passed \in 0..1, clock' = clock + passed, NEW t \in Nat \cup {none},
         updatedTimestamp' = clock', updatedTimestamp = none \/ updatedTimestamp = clock, MvNotAhead(t)
  PROVE  /\ t # none => t <= clock' /\ (updatedTimestamp' = none => t < clock')
         /\ t = updatedTimestamp' => t = updatedTimestamp
<1>1. none \notin Nat
  BY DEF MvBounds
<1>2. clock' \in Nat /\ clock <= clock'
  OBVIOUS
<1>3. updatedTimestamp' # none
  BY <1>1, <1>2
<1>4. ASSUME t # none PROVE t \in Nat /\ t <= clock /\ (updatedTimestamp = none => t < clock)
  BY <1>4 DEF MvNotAhead
<1>5. t # none => t <= clock'
  BY <1>2, <1>4
<1>6. ASSUME t = updatedTimestamp' PROVE t = updatedTimestamp
  <2>1. t # none /\ t = clock'
    BY <1>3, <1>6
  <2>2. t \in Nat /\ t <= clock /\ (updatedTimestamp = none => t < clock)
    BY <1>4, <2>1
  <2>3. t = clock
    BY <1>2, <2>1, <2>2
  <2>4. updatedTimestamp # none
    BY <2>2, <2>3
  <2>. QED  BY <2>3, <2>4
<1>. QED  BY <1>3, <1>5, <1>6

\* Nothing but what is missed tells of an update of c that a copy is not renewed for.
LEMMA MvUpdateFits ==
  ASSUME MvBounds, MvIInv, NEW c \in MvConversation, Mv!Update(c), ready, UNCHANGED <<ready, Mv!recents>>,
         view'.id = view.id, view'.at = view.at, view.id # c => view'.version = view.version,
         \A d \in MvConversation : d # c => unread'[d] = unread[d],
         \A r \in reads : r.of # c => r \in reads'
  PROVE  /\ version' \in [MvConversation -> Nat] /\ updatedTimestamp' \in Nat \cup {none}
         /\ clock' \in Nat /\ missed' \subseteq MvMissable
         /\ MvTimed' /\ MvViewFits' /\ MvRecentFits'
<1>0. Mv!TypeOK /\ MvTimed /\ MvViewFits /\ MvRecentFits
  BY DEF MvIInv
<1>1. PICK passed \in 0..1 :
        /\ clock' = clock + passed
        /\ updatedTimestamp' = clock'
        /\ missed' = missed \cup Mv!Unnoticed(c, clock')
  BY DEF Mv!Update
<1>2. /\ clock \in Nat /\ version \in [MvConversation -> Nat] /\ missed \subseteq MvMissable
      /\ view.at \in Nat \cup {none} /\ prevTimestamp \in Nat \cup {none}
  BY <1>0 DEF Mv!TypeOK, MvMissable
<1>3. clock' \in Nat
  BY <1>1, <1>2
<1>4. version' = [version EXCEPT ![c] = @ + 1]
  BY DEF Mv!Update
<1>5. version' \in [MvConversation -> Nat] /\ \A d \in MvConversation : d # c => version'[d] = version[d]
  BY <1>2, <1>4
<1>6. missed' \subseteq MvMissable /\ missed \subseteq missed'
  BY <1>1, <1>2, MvUnnoticedType
<1>7. /\ view.at # none => view.at <= clock' /\ (updatedTimestamp' = none => view.at < clock')
      /\ view.at = updatedTimestamp' => view.at = updatedTimestamp
  BY <1>0, <1>1, <1>2, MvNotAheadStays DEF MvTimed
<1>8. /\ prevTimestamp # none => prevTimestamp <= clock' /\ (updatedTimestamp' = none => prevTimestamp < clock')
      /\ prevTimestamp = updatedTimestamp' => prevTimestamp = updatedTimestamp
  BY <1>0, <1>1, <1>2, MvNotAheadStays DEF MvTimed
<1>9. updatedTimestamp' # none
  BY <1>1, <1>3 DEF MvBounds
<1>10. UNCHANGED <<ready, recent, loads, prevTimestamp>>
  BY DEF Mv!recents
<1>11. MvTimed'
  BY <1>1, <1>7, <1>8, <1>9, <1>10 DEF MvTimed, MvNotAhead
<1>12. ASSUME NEW d \in MvConversation PROVE MvViewFit(d)'
  <2>. SUFFICES ASSUME view.id = d, version'[d] # 0, ~MvViewMissed(d)', view.at = updatedTimestamp'
                PROVE  /\ view'.version = version'[d]
                       /\ unread'[d] # 0 /\ ~MvReadMissed(d)' => [of |-> d, version |-> unread'[d]] \in reads'
    BY DEF MvViewFit
  <2>1. d # c
    BY <1>1, MvUnnoticedType DEF MvViewMissed
  <2>2. version'[d] = version[d] /\ unread'[d] = unread[d] /\ view'.version = view.version
    BY <1>5, <2>1
  <2>3. ~MvViewMissed(d) /\ (MvReadMissed(d) => MvReadMissed(d)')
    BY <1>6 DEF MvViewMissed, MvReadMissed
  <2>4. /\ view.version = version[d]
        /\ unread[d] # 0 /\ ~MvReadMissed(d) => [of |-> d, version |-> unread[d]] \in reads
    BY <1>0, <1>7, <2>2, <2>3 DEF MvViewFits, MvViewFit
  <2>. QED  BY <2>1, <2>2, <2>3, <2>4
<1>13. \A d : MvRecentMissed(d) => MvRecentMissed(d)'
  BY <1>6 DEF MvRecentMissed
<1>14. Mv!Contacts' = Mv!Contacts
  BY <1>10 DEF Mv!Contacts
<1>15. MvRecentFits'
  <2>1. prevTimestamp = none /\ Mv!Contacts = {} => \A l \in loads : MvBlankLoad(l)'
    BY <1>0, <1>10, <1>13 DEF MvRecentFits, MvBlankLoad
  <2>2. ASSUME prevTimestamp = updatedTimestamp'
        PROVE  (\A l \in loads : MvLoadFits(l)') /\ \A d \in MvConversation : MvRecentFit(d)'
    <3>1. MvRecentMissed(c)'
      BY <1>1, <2>2, MvUnnoticedType DEF MvRecentMissed
    <3>2. (\A l \in loads : MvLoadFits(l)) /\ \A d \in MvConversation : MvRecentFit(d)
      BY <1>0, <1>8, <2>2 DEF MvRecentFits
    <3>3. \A d \in MvConversation : d # c => Mv!Loading(d)' = Mv!Loading(d)
      BY <1>5 DEF Mv!Loading
    <3>4. ASSUME NEW l \in loads PROVE MvLoadFits(l)'
      <4>1. l.of \in MvConversation
        BY <1>0 DEF Mv!TypeOK, Mv!Load
      <4>2. CASE l.of = c
        BY <3>1, <4>2 DEF MvLoadFits
      <4>3. CASE l.of # c
        BY <1>5, <1>10, <1>13, <3>2, <3>3, <4>1, <4>3 DEF MvLoadFits
      <4>. QED  BY <4>2, <4>3
    <3>5. ASSUME NEW d \in MvConversation PROVE MvRecentFit(d)'
      <4>1. CASE d = c
        BY <3>1, <4>1 DEF MvRecentFit
      <4>2. CASE d # c
        BY <1>5, <1>10, <1>13, <1>14, <3>2, <3>3, <4>2 DEF MvRecentFit
      <4>. QED  BY <4>1, <4>2
    <3>. QED  BY <3>4, <3>5
  <2>. QED  BY <1>10, <1>14, <2>1, <2>2 DEF MvRecentFits
<1>. QED  BY <1>1, <1>3, <1>5, <1>6, <1>11, <1>12, <1>15 DEF MvViewFits

LEMMA MvArriveKeeps == ASSUME MvBounds, MvIInv, NEW c \in MvConversation, Mv!Arrive(c) PROVE MvIInv'
<1>0. /\ Mv!TypeOK /\ ready /\ messages < MvMaxMessages /\ messages' = messages + 1
      /\ unread' = [unread EXCEPT ![c] = version[c] + 1]
      /\ Mv!Update(c)
      /\ UNCHANGED <<ready, Mv!conversation, Mv!recents, events>>
  BY DEF MvIInv, Mv!Arrive
<1>1. UNCHANGED <<ready, view, reads, replies, recent, loads, prevTimestamp, events>>
  BY <1>0 DEF Mv!conversation, Mv!recents
<1>2. unread \in [MvConversation -> Nat] /\ version[c] \in Nat
  BY <1>0 DEF Mv!TypeOK
<1>3. unread' \in [MvConversation -> Nat] /\ \A d \in MvConversation : d # c => unread'[d] = unread[d]
  BY <1>0, <1>2
<1>4. /\ version' \in [MvConversation -> Nat] /\ updatedTimestamp' \in Nat \cup {none}
      /\ clock' \in Nat /\ missed' \subseteq MvMissable
      /\ MvTimed' /\ MvViewFits' /\ MvRecentFits'
  BY <1>0, <1>1, <1>3, MvUpdateFits
<1>5. messages' \in 0..MvMaxMessages
  BY <1>0, MvMessageType
<1>6. Mv!TypeOK'
  BY <1>0, <1>1, <1>3, <1>4, <1>5 DEF Mv!TypeOK, MvMissable
<1>. QED  BY <1>4, <1>6 DEF MvIInv

LEMMA MvReadMessagesKeeps == ASSUME MvBounds, MvIInv, NEW r \in reads, Mv!ReadMessages(r) PROVE MvIInv'
<1>0. /\ Mv!TypeOK /\ MvTimed /\ MvViewFits /\ MvRecentFits
      /\ reads' = reads \ {r}
      /\ UNCHANGED <<ready, view, replies, Mv!recents, messages>>
  BY DEF MvIInv, Mv!ReadMessages
<1>1. r.of \in MvConversation /\ r.version \in Nat /\ reads' \subseteq Mv!Copy
  BY <1>0 DEF Mv!TypeOK, Mv!Copy
<1>2. UNCHANGED <<ready, view, replies, recent, loads, prevTimestamp, messages>>
  BY <1>0 DEF Mv!recents
<1>3. \A d \in reads : d.of # r.of => d \in reads'
  BY <1>0
<1>4. CASE /\ version[r.of] # 0
           /\ unread' = [unread EXCEPT ![r.of] = IF @ = r.version THEN 0 ELSE @]
           /\ Mv!Update(r.of)
           /\ UNCHANGED events
  <2>1. ready
    BY <1>0, <1>1, <1>4 DEF MvTimed
  <2>2. unread \in [MvConversation -> Nat]
    BY <1>0 DEF Mv!TypeOK
  <2>3. unread' \in [MvConversation -> Nat] /\ \A d \in MvConversation : d # r.of => unread'[d] = unread[d]
    BY <1>1, <1>4, <2>2
  <2>4. /\ version' \in [MvConversation -> Nat] /\ updatedTimestamp' \in Nat \cup {none}
        /\ clock' \in Nat /\ missed' \subseteq MvMissable
        /\ MvTimed' /\ MvViewFits' /\ MvRecentFits'
    BY <1>0, <1>1, <1>2, <1>3, <1>4, <2>1, <2>3, MvUpdateFits
  <2>5. Mv!TypeOK'
    BY <1>0, <1>1, <1>2, <1>4, <2>3, <2>4 DEF Mv!TypeOK, MvMissable
  <2>. QED  BY <2>4, <2>5 DEF MvIInv
<1>5. CASE /\ Mv!Counted
           /\ missed' = missed \cup {<<"read", r.of>>}
           /\ UNCHANGED <<version, unread, updatedTimestamp, clock>>
  <2>1. events' \in 0..MvMaxEvents
    BY <1>0, <1>5, MvCountedType
  <2>2. missed' \subseteq MvMissable /\ missed \subseteq missed'
    BY <1>0, <1>1, <1>5, MvMissedTypes DEF Mv!TypeOK, MvMissable
  <2>3. Mv!TypeOK'
    BY <1>0, <1>1, <1>2, <1>5, <2>1, <2>2 DEF Mv!TypeOK, MvMissable
  <2>4. MvTimed'
    BY <1>0, <1>2, <1>5 DEF MvTimed, MvNotAhead
  <2>5. MvReadMissed(r.of)'
    BY <1>5 DEF MvReadMissed
  <2>6. \A c : /\ MvViewMissed(c) => MvViewMissed(c)'
               /\ MvReadMissed(c) => MvReadMissed(c)'
               /\ MvRecentMissed(c) => MvRecentMissed(c)'
    BY <2>2, MvMissedStays
  <2>7. ASSUME NEW c \in MvConversation PROVE MvViewFit(c)'
    <3>1. [of |-> c, version |-> unread[c]] \in reads => [of |-> c, version |-> unread[c]] \in reads' \/ r.of = c
      BY <1>0
    <3>2. MvViewFit(c)
      BY <1>0 DEF MvViewFits
    <3>. QED  BY <1>2, <1>5, <2>5, <2>6, <3>1, <3>2 DEF MvViewFit
  <2>8. MvRecentFits'
    BY <1>0, <1>2, <1>5, <2>6 DEF MvRecentFits, MvLoadFits, MvRecentFit, MvBlankLoad, Mv!Contacts, Mv!Loading
  <2>. QED  BY <2>3, <2>4, <2>7, <2>8 DEF MvIInv, MvViewFits
<1>. QED  BY <1>4, <1>5 DEF Mv!ReadMessages

LEMMA MvRepliedKeeps == ASSUME MvBounds, MvIInv, NEW c \in replies, Mv!Replied(c) PROVE MvIInv'
<1>0. /\ Mv!TypeOK /\ MvTimed /\ MvViewFits /\ MvRecentFits
      /\ replies' = replies \ {c}
      /\ UNCHANGED <<ready, unread, view, reads, Mv!recents, events>>
  BY DEF MvIInv, Mv!Replied
<1>1. c \in MvConversation /\ UNCHANGED <<ready, unread, view, reads, recent, loads, prevTimestamp, events>>
  BY <1>0 DEF Mv!TypeOK, Mv!recents
<1>2. CASE ready /\ messages < MvMaxMessages /\ messages' = messages + 1 /\ Mv!Update(c)
  <2>1. messages' \in 0..MvMaxMessages
    BY <1>0, <1>2, MvMessageType
  <2>2. /\ version' \in [MvConversation -> Nat] /\ updatedTimestamp' \in Nat \cup {none}
        /\ clock' \in Nat /\ missed' \subseteq MvMissable
        /\ MvTimed' /\ MvViewFits' /\ MvRecentFits'
    BY <1>0, <1>1, <1>2, MvUpdateFits
  <2>3. Mv!TypeOK'
    BY <1>0, <1>1, <2>1, <2>2 DEF Mv!TypeOK, MvMissable
  <2>. QED  BY <2>2, <2>3 DEF MvIInv
<1>3. CASE UNCHANGED <<version, updatedTimestamp, clock, missed, messages>>
  <2>1. Mv!TypeOK' /\ MvTimed'
    BY <1>0, <1>1, <1>3 DEF Mv!TypeOK, MvTimed, MvNotAhead
  <2>2. MvViewFits'
    BY <1>0, <1>1, <1>3 DEF MvViewFits, MvViewFit, MvViewMissed, MvReadMissed
  <2>3. MvRecentFits'
    BY <1>0, <1>1, <1>3 DEF MvRecentFits, MvLoadFits, MvRecentFit, MvBlankLoad, Mv!Contacts, Mv!Loading, MvRecentMissed
  <2>. QED  BY <2>1, <2>2, <2>3 DEF MvIInv
<1>. QED  BY <1>2, <1>3 DEF Mv!Replied

LEMMA MvUpdateRecipientsKeeps == ASSUME MvBounds, MvIInv, Mv!UpdateRecipients PROVE MvIInv'
<1>0. /\ Mv!TypeOK /\ Mv!Counted /\ ready /\ view.id # none /\ Mv!Update(view.id)
      /\ view' = [view EXCEPT !.version = @ + 1]
      /\ UNCHANGED <<ready, unread, reads, replies, Mv!recents, messages>>
  BY DEF MvIInv, Mv!UpdateRecipients
<1>1. UNCHANGED <<recent, loads, prevTimestamp>>
  BY <1>0 DEF Mv!recents
<1>2. view.version \in Nat /\ view.id \in MvConversation
  BY <1>0 DEF Mv!TypeOK
<1>3. view.version + 1 \in Nat
  BY <1>2
<1>4. /\ view' \in [ready : BOOLEAN, id : MvConversation \cup {none}, version : Nat, at : Nat \cup {none}]
      /\ view'.id = view.id /\ view'.at = view.at
  BY <1>0, <1>3 DEF Mv!TypeOK
<1>5. events' \in 0..MvMaxEvents
  BY <1>0, MvCountedType
<1>6. /\ version' \in [MvConversation -> Nat] /\ updatedTimestamp' \in Nat \cup {none}
      /\ clock' \in Nat /\ missed' \subseteq MvMissable
      /\ MvTimed' /\ MvViewFits' /\ MvRecentFits'
  BY <1>0, <1>2, <1>4, MvUpdateFits
<1>7. Mv!TypeOK'
  BY <1>0, <1>1, <1>4, <1>5, <1>6 DEF Mv!TypeOK, MvMissable
<1>. QED  BY <1>6, <1>7 DEF MvIInv

\* A deletion leaves the time alone, and every copy is missed.
LEMMA MvDeleteKeeps == ASSUME MvBounds, MvIInv, NEW c \in MvConversation, Mv!Delete(c) PROVE MvIInv'
<1>0. /\ Mv!TypeOK /\ MvTimed /\ MvViewFits /\ MvRecentFits
      /\ ready /\ version[c] # 0 /\ messages < MvMaxMessages /\ messages' = messages + 1
      /\ version' = [version EXCEPT ![c] = @ + 1]
      /\ missed' = missed \cup Mv!Unnoticed(c, IF view.id = c THEN view.at ELSE none)
                          \cup {<<"recent", c>>}
      /\ UNCHANGED <<ready, unread, updatedTimestamp, clock, Mv!conversation, Mv!recents, events>>
  BY DEF MvIInv, Mv!Delete
<1>1. UNCHANGED <<ready, unread, updatedTimestamp, clock, view, reads, replies, recent, loads,
                  prevTimestamp, events>>
  BY <1>0 DEF Mv!conversation, Mv!recents
<1>2. version \in [MvConversation -> Nat] /\ missed \subseteq MvMissable
  BY <1>0 DEF Mv!TypeOK, MvMissable
<1>3. version' \in [MvConversation -> Nat] /\ \A d \in MvConversation : d # c => version'[d] = version[d]
  BY <1>0, <1>2
<1>4. missed' \subseteq MvMissable /\ missed \subseteq missed'
  BY <1>0, <1>2, MvUnnoticedType, MvMissedTypes
<1>5. messages' \in 0..MvMaxMessages
  BY <1>0, MvMessageType
<1>6. Mv!TypeOK'
  BY <1>0, <1>1, <1>3, <1>4, <1>5 DEF Mv!TypeOK, MvMissable
<1>7. MvTimed'
  <2>1. updatedTimestamp # none
    BY <1>0 DEF MvTimed
  <2>. QED  BY <1>0, <1>1, <2>1 DEF MvTimed, MvNotAhead
<1>8. \A d : /\ MvViewMissed(d) => MvViewMissed(d)'
             /\ MvReadMissed(d) => MvReadMissed(d)'
             /\ MvRecentMissed(d) => MvRecentMissed(d)'
  BY <1>4, MvMissedStays
<1>9. MvRecentMissed(c)' /\ (view.id = c => MvViewMissed(c)')
  <2>1. ASSUME view.id = c PROVE <<"view", c>> \in Mv!Unnoticed(c, IF view.id = c THEN view.at ELSE none)
    BY <2>1, MvUnnoticedType
  <2>. QED  BY <1>0, <2>1 DEF MvRecentMissed, MvViewMissed
<1>10. MvViewFits'
  <2>. SUFFICES ASSUME NEW d \in MvConversation PROVE MvViewFit(d)'
    BY DEF MvViewFits
  <2>1. CASE d = c
    BY <1>1, <1>9, <2>1 DEF MvViewFit
  <2>2. CASE d # c
    BY <1>0, <1>1, <1>3, <1>8, <2>2 DEF MvViewFits, MvViewFit
  <2>. QED  BY <2>1, <2>2
<1>11. MvRecentFits'
  <2>1. \A d \in MvConversation : d # c => Mv!Loading(d)' = Mv!Loading(d)
    BY <1>3 DEF Mv!Loading
  <2>2. \A l \in loads : l.of \in MvConversation
    BY <1>0 DEF Mv!TypeOK, Mv!Load
  <2>3. \A l \in loads : MvLoadFits(l) => MvLoadFits(l)'
    BY <1>1, <1>3, <1>8, <1>9, <2>1, <2>2 DEF MvLoadFits
  <2>4. \A d \in MvConversation : MvRecentFit(d) => MvRecentFit(d)'
    BY <1>1, <1>3, <1>8, <1>9, <2>1 DEF MvRecentFit, Mv!Contacts
  <2>5. \A l \in loads : MvBlankLoad(l) => MvBlankLoad(l)'
    BY <1>1, <1>8 DEF MvBlankLoad
  <2>. QED  BY <1>0, <1>1, <2>3, <2>4, <2>5 DEF MvRecentFits, Mv!Contacts
<1>. QED  BY <1>6, <1>7, <1>10, <1>11 DEF MvIInv

\* A logout takes all messages away, and a login has none at first.
LEMMA MvTurnKeeps == ASSUME MvBounds, MvIInv, Mv!Turn PROVE MvIInv'
<1>0. /\ Mv!TypeOK /\ MvTimed /\ MvViewFits /\ MvRecentFits /\ Mv!Settled /\ Mv!Counted
      /\ ready' = ~ready /\ UNCHANGED <<Mv!conversation, Mv!recents, missed, messages>>
  BY DEF MvIInv, Mv!Turn
<1>1. UNCHANGED <<view, reads, replies, recent, loads, prevTimestamp, missed, messages>>
  BY <1>0 DEF Mv!conversation, Mv!recents
<1>2. events' \in 0..MvMaxEvents
  BY <1>0, MvCountedType
<1>3. clock \in Nat /\ view.at \in Nat \cup {none} /\ prevTimestamp \in Nat \cup {none} /\ ready \in BOOLEAN
  BY <1>0 DEF Mv!TypeOK
<1>4. Mv!Contacts' = Mv!Contacts /\ \A c : MvRecentMissed(c)' = MvRecentMissed(c)
  BY <1>1 DEF Mv!Contacts, MvRecentMissed
<1>5. CASE ready
  <2>0. /\ version' = [c \in MvConversation |-> 0] /\ unread' = version'
        /\ updatedTimestamp' = none /\ clock' = clock + 1
    BY <1>5 DEF Mv!Turn
  <2>1. /\ version' \in [MvConversation -> Nat] /\ unread' \in [MvConversation -> Nat]
        /\ \A c \in MvConversation : version'[c] = 0
    BY <2>0
  <2>2. clock' \in Nat /\ clock < clock'
    BY <1>3, <2>0
  <2>3. Mv!TypeOK'
    BY <1>0, <1>1, <1>2, <2>0, <2>1, <2>2 DEF Mv!TypeOK
  <2>4. ASSUME NEW t \in Nat \cup {none}, MvNotAhead(t), t # none PROVE t <= clock' /\ t < clock'
    <3>1. t \in Nat /\ t <= clock
      BY <2>4 DEF MvNotAhead
    <3>. QED  BY <1>3, <2>2, <3>1
  <2>5. MvTimed'
    BY <1>0, <1>1, <1>3, <2>0, <2>1, <2>4 DEF MvTimed, MvNotAhead
  <2>6. MvViewFits'
    BY <2>1 DEF MvViewFits, MvViewFit
  <2>7. \A c \in MvConversation : Mv!Loading(c)' = [of |-> c, version |-> 0, late |-> FALSE]
    BY <2>1 DEF Mv!Loading
  <2>8. \A l \in loads : l.of \in MvConversation
    BY <1>0 DEF Mv!TypeOK, Mv!Load
  <2>9. ASSUME prevTimestamp = none PROVE (\A l \in loads : MvLoadFits(l)') /\ \A c \in MvConversation : MvRecentFit(c)'
    <3>1. CASE Mv!Contacts = {}
      <4>1. \A l \in loads : MvBlankLoad(l)
        BY <1>0, <2>9, <3>1 DEF MvRecentFits
      <4>2. ASSUME NEW l \in loads PROVE MvLoadFits(l)'
        BY <1>1, <1>4, <2>1, <2>7, <2>8, <4>1 DEF MvBlankLoad, MvLoadFits
      <4>3. \A c \in MvConversation : MvRecentFit(c)'
        BY <1>4, <3>1 DEF MvRecentFit
      <4>. QED  BY <4>2, <4>3
    <3>2. CASE Mv!Contacts # {}
      <4>1. updatedTimestamp = none
        BY <1>0, <2>9, <3>2 DEF Mv!Settled, Mv!ShouldLoad
      <4>2. \A c \in MvConversation : version[c] = 0
        BY <1>0, <4>1 DEF MvTimed
      <4>3. \A c \in MvConversation : Mv!Loading(c)' = Mv!Loading(c)
        BY <2>7, <4>2 DEF Mv!Loading
      <4>4. (\A l \in loads : MvLoadFits(l)) /\ \A c \in MvConversation : MvRecentFit(c)
        BY <1>0, <2>9, <4>1 DEF MvRecentFits
      <4>5. ASSUME NEW l \in loads PROVE MvLoadFits(l)'
        BY <1>1, <1>4, <2>1, <2>8, <4>2, <4>3, <4>4 DEF MvLoadFits
      <4>6. ASSUME NEW c \in MvConversation PROVE MvRecentFit(c)'
        BY <1>1, <1>4, <2>1, <4>2, <4>3, <4>4 DEF MvRecentFit
      <4>. QED  BY <4>5, <4>6
    <3>. QED  BY <3>1, <3>2
  <2>10. \A l \in loads : MvBlankLoad(l) => MvBlankLoad(l)'
    BY <1>1, <1>4 DEF MvBlankLoad
  <2>11. MvRecentFits'
    BY <1>0, <1>1, <1>4, <2>0, <2>9, <2>10 DEF MvRecentFits
  <2>. QED  BY <2>3, <2>5, <2>6, <2>11 DEF MvIInv
<1>6. CASE ~ready
  <2>0. UNCHANGED <<version, unread, updatedTimestamp, clock>>
    BY <1>6 DEF Mv!Turn
  <2>1. Mv!TypeOK'
    BY <1>0, <1>1, <1>2, <2>0 DEF Mv!TypeOK
  <2>2. MvTimed'
    BY <1>0, <1>1, <1>6, <2>0 DEF MvTimed, MvNotAhead
  <2>3. MvViewFits'
    BY <1>0, <1>1, <2>0 DEF MvViewFits, MvViewFit, MvViewMissed, MvReadMissed
  <2>4. MvRecentFits'
    BY <1>0, <1>1, <2>0 DEF MvRecentFits, MvLoadFits, MvRecentFit, MvBlankLoad, Mv!Contacts, Mv!Loading, MvRecentMissed
  <2>. QED  BY <2>1, <2>2, <2>3, <2>4 DEF MvIInv
<1>. QED  BY <1>3, <1>5, <1>6

--------------------
(* The conversation. *)

\* What RecentMessages knows is not touched.
LEMMA MvRecentsStay ==
  ASSUME MvIInv, UNCHANGED <<version, updatedTimestamp, Mv!recents>>,
         \A c : MvRecentMissed(c)' = MvRecentMissed(c)
  PROVE  MvRecentFits'
  BY DEF MvIInv, Mv!recents, MvRecentFits, MvLoadFits, MvRecentFit, MvBlankLoad, Mv!Contacts, Mv!Loading

\* A conversation that is loaded is as the store has it, and asks for what is unread.
LEMMA MvLoadsFits ==
  ASSUME MvBounds, MvIInv, NEW c \in MvConversation, Mv!Loads(c), UNCHANGED <<Mv!store, Mv!recents>>
  PROVE  /\ view' \in [ready : BOOLEAN, id : MvConversation \cup {none}, version : Nat, at : Nat \cup {none}]
         /\ reads' \subseteq Mv!Copy /\ missed' \subseteq MvMissable
         /\ MvTimed' /\ MvViewFits' /\ MvRecentFits'
<1>0. /\ Mv!TypeOK /\ MvTimed /\ MvViewFits /\ MvRecentFits
      /\ view' = IF version[c] = 0 THEN view
                 ELSE [view EXCEPT !.id = c, !.version = version[c], !.at = updatedTimestamp]
      /\ reads' = reads \cup Mv!Unread(c)
      /\ missed' = missed \ {<<"view", c>>, <<"read", c>>}
      /\ UNCHANGED <<ready, version, unread, updatedTimestamp, clock>>
  BY DEF MvIInv, Mv!Loads, Mv!store
<1>1. /\ version[c] \in Nat /\ unread[c] \in Nat /\ updatedTimestamp \in Nat \cup {none} /\ clock \in Nat
      /\ view \in [ready : BOOLEAN, id : MvConversation \cup {none}, version : Nat, at : Nat \cup {none}]
  BY <1>0 DEF Mv!TypeOK
<1>2. view' \in [ready : BOOLEAN, id : MvConversation \cup {none}, version : Nat, at : Nat \cup {none}]
  BY <1>0, <1>1
<1>3. version[c] # 0 => view'.id = c /\ view'.version = version[c] /\ view'.at = updatedTimestamp
  BY <1>0, <1>1
<1>4. version[c] = 0 => view' = view
  BY <1>0
<1>5. reads' \subseteq Mv!Copy /\ reads \subseteq reads'
  <2>1. Mv!Unread(c) \subseteq Mv!Copy
    BY <1>1 DEF Mv!Unread, Mv!Copy
  <2>. QED  BY <1>0, <2>1 DEF Mv!TypeOK
<1>6. missed' \subseteq MvMissable
  BY <1>0 DEF Mv!TypeOK, MvMissable
<1>7. \A d : /\ d # c => MvViewMissed(d)' = MvViewMissed(d) /\ MvReadMissed(d)' = MvReadMissed(d)
             /\ MvRecentMissed(d)' = MvRecentMissed(d)
  BY <1>0 DEF MvViewMissed, MvReadMissed, MvRecentMissed
<1>8. MvTimed'
  <2>1. MvNotAhead(view'.at) /\ MvNotAhead(prevTimestamp)
    <3>1. CASE version[c] = 0
      BY <1>0, <1>4, <3>1 DEF MvTimed
    <3>2. CASE version[c] # 0
      <4>1. updatedTimestamp # none /\ updatedTimestamp = clock
        BY <1>0, <3>2 DEF MvTimed
      <4>2. clock <= clock
        BY <1>1
      <4>. QED  BY <1>0, <1>3, <3>2, <4>1, <4>2 DEF MvNotAhead, MvTimed
    <3>. QED  BY <3>1, <3>2
  <2>2. UNCHANGED prevTimestamp
    BY DEF Mv!recents
  <2>. QED  BY <1>0, <2>1, <2>2 DEF MvTimed, MvNotAhead
<1>9. MvViewFits'
  <2>. SUFFICES ASSUME NEW d \in MvConversation PROVE MvViewFit(d)'
    BY DEF MvViewFits
  <2>1. CASE version[c] = 0
    <3>1. CASE d = c
      BY <1>0, <2>1, <3>1 DEF MvViewFit
    <3>2. CASE d # c
      BY <1>0, <1>4, <1>5, <1>7, <2>1, <3>2 DEF MvViewFit, MvViewFits
    <3>. QED  BY <3>1, <3>2
  <2>2. CASE version[c] # 0 /\ d = c
    <3>1. unread[c] # 0 => [of |-> c, version |-> unread[c]] \in reads'
      BY <1>0, <2>2 DEF Mv!Unread
    <3>. QED  BY <1>0, <1>3, <2>2, <3>1 DEF MvViewFit
  <2>3. CASE version[c] # 0 /\ d # c
    BY <1>3, <2>3 DEF MvViewFit
  <2>. QED  BY <2>1, <2>2, <2>3
<1>10. MvRecentFits'
  BY <1>0, <1>7, MvRecentsStay
<1>. QED  BY <1>2, <1>5, <1>6, <1>8, <1>9, <1>10

LEMMA MvReloadConversationKeeps == ASSUME MvBounds, MvIInv, Mv!ReloadConversation PROVE MvIInv'
<1>0. /\ Mv!TypeOK /\ Mv!ShouldReload /\ Mv!Loads(view.id)
      /\ UNCHANGED <<Mv!store, replies, Mv!recents, messages, events>>
  BY DEF MvIInv, Mv!ReloadConversation
<1>1. view.id \in MvConversation
  BY <1>0 DEF Mv!TypeOK, Mv!ShouldReload
<1>2. /\ view' \in [ready : BOOLEAN, id : MvConversation \cup {none}, version : Nat, at : Nat \cup {none}]
      /\ reads' \subseteq Mv!Copy /\ missed' \subseteq MvMissable
      /\ MvTimed' /\ MvViewFits' /\ MvRecentFits'
  BY <1>0, <1>1, MvLoadsFits
<1>3. UNCHANGED <<ready, version, unread, updatedTimestamp, clock, recent, loads, prevTimestamp>>
  BY <1>0 DEF Mv!store, Mv!recents
<1>4. Mv!TypeOK'
  BY <1>0, <1>2, <1>3 DEF Mv!TypeOK, MvMissable
<1>. QED  BY <1>2, <1>4 DEF MvIInv

LEMMA MvLoadConversationByIdKeeps ==
  ASSUME MvBounds, MvIInv, NEW c \in MvConversation, Mv!LoadConversationById(c)
  PROVE  MvIInv'
<1>0. Mv!TypeOK /\ Mv!Counted /\ Mv!Loads(c) /\ UNCHANGED <<Mv!store, replies, Mv!recents, messages>>
  BY DEF MvIInv, Mv!LoadConversationById
<1>1. events' \in 0..MvMaxEvents
  BY <1>0, MvCountedType
<1>2. /\ view' \in [ready : BOOLEAN, id : MvConversation \cup {none}, version : Nat, at : Nat \cup {none}]
      /\ reads' \subseteq Mv!Copy /\ missed' \subseteq MvMissable
      /\ MvTimed' /\ MvViewFits' /\ MvRecentFits'
  BY <1>0, MvLoadsFits
<1>3. UNCHANGED <<ready, version, unread, updatedTimestamp, clock, recent, loads, prevTimestamp>>
  BY <1>0 DEF Mv!store, Mv!recents
<1>4. Mv!TypeOK'
  BY <1>0, <1>1, <1>2, <1>3 DEF Mv!TypeOK, MvMissable
<1>. QED  BY <1>2, <1>4 DEF MvIInv

LEMMA MvViewReadyKeeps == ASSUME MvBounds, MvIInv, Mv!ViewReady PROVE MvIInv'
<1>0. /\ Mv!TypeOK /\ MvTimed /\ MvViewFits
      /\ view' = [view EXCEPT !.ready = ready]
      /\ UNCHANGED <<Mv!store, reads, replies, Mv!recents, missed, messages, events>>
  BY DEF MvIInv, Mv!ViewReady
<1>1. UNCHANGED <<ready, version, unread, updatedTimestamp, clock, recent, loads, prevTimestamp>>
  BY <1>0 DEF Mv!store, Mv!recents
<1>2. /\ view' \in [ready : BOOLEAN, id : MvConversation \cup {none}, version : Nat, at : Nat \cup {none}]
      /\ view'.id = view.id /\ view'.version = view.version /\ view'.at = view.at
  BY <1>0 DEF Mv!TypeOK
<1>3. Mv!TypeOK'
  BY <1>0, <1>1, <1>2 DEF Mv!TypeOK
<1>4. MvTimed'
  BY <1>0, <1>1, <1>2 DEF MvTimed, MvNotAhead
<1>5. MvViewFits'
  BY <1>0, <1>1, <1>2 DEF MvViewFits, MvViewFit, MvViewMissed, MvReadMissed
<1>6. MvRecentFits'
  BY <1>0, <1>1, MvRecentsStay DEF MvRecentMissed
<1>. QED  BY <1>3, <1>4, <1>5, <1>6 DEF MvIInv

LEMMA MvUnloadConversationKeeps == ASSUME MvBounds, MvIInv, Mv!UnloadConversation PROVE MvIInv'
<1>0. /\ Mv!TypeOK /\ MvTimed /\ MvViewFits /\ Mv!Counted
      /\ view' = [view EXCEPT !.id = none, !.version = 0]
      /\ UNCHANGED <<Mv!store, reads, replies, Mv!recents, missed, messages>>
  BY DEF MvIInv, Mv!UnloadConversation
<1>1. UNCHANGED <<ready, version, unread, updatedTimestamp, clock, recent, loads, prevTimestamp>>
  BY <1>0 DEF Mv!store, Mv!recents
<1>2. /\ view' \in [ready : BOOLEAN, id : MvConversation \cup {none}, version : Nat, at : Nat \cup {none}]
      /\ view'.id = none /\ view'.at = view.at
  BY <1>0 DEF Mv!TypeOK
<1>3. events' \in 0..MvMaxEvents
  BY <1>0, MvCountedType
<1>4. Mv!TypeOK'
  BY <1>0, <1>1, <1>2, <1>3 DEF Mv!TypeOK
<1>5. MvTimed'
  BY <1>0, <1>1, <1>2 DEF MvTimed, MvNotAhead
<1>6. MvViewFits'
  BY <1>2 DEF MvViewFits, MvViewFit, MvBounds
<1>7. MvRecentFits'
  BY <1>0, <1>1, MvRecentsStay DEF MvRecentMissed
<1>. QED  BY <1>4, <1>5, <1>6, <1>7 DEF MvIInv

LEMMA MvReplyToReceiversKeeps == ASSUME MvBounds, MvIInv, Mv!ReplyToReceivers PROVE MvIInv'
<1>0. /\ Mv!TypeOK /\ MvTimed /\ MvViewFits /\ Mv!Counted /\ view.id # none
      /\ replies' = replies \cup {view.id}
      /\ UNCHANGED <<Mv!store, view, reads, Mv!recents, missed, messages>>
  BY DEF MvIInv, Mv!ReplyToReceivers
<1>1. UNCHANGED <<ready, version, unread, updatedTimestamp, clock, recent, loads, prevTimestamp>>
  BY <1>0 DEF Mv!store, Mv!recents
<1>2. view.id \in MvConversation
  BY <1>0 DEF Mv!TypeOK
<1>3. events' \in 0..MvMaxEvents
  BY <1>0, MvCountedType
<1>4. Mv!TypeOK'
  BY <1>0, <1>1, <1>2, <1>3 DEF Mv!TypeOK
<1>5. MvTimed' /\ MvViewFits'
  BY <1>0, <1>1 DEF MvTimed, MvNotAhead, MvViewFits, MvViewFit, MvViewMissed, MvReadMissed
<1>6. MvRecentFits'
  BY <1>0, <1>1, MvRecentsStay DEF MvRecentMissed
<1>. QED  BY <1>4, <1>5, <1>6 DEF MvIInv

--------------------
(* The recent messages. *)

\* What Conversation knows is not touched.
LEMMA MvViewStays ==
  ASSUME MvIInv, UNCHANGED <<Mv!store, Mv!conversation>>, MvNotAhead(prevTimestamp'),
         \A c : MvViewMissed(c)' = MvViewMissed(c) /\ MvReadMissed(c)' = MvReadMissed(c)
  PROVE  MvTimed' /\ MvViewFits'
<1>1. UNCHANGED <<ready, version, unread, updatedTimestamp, clock, view, reads>>
  BY DEF Mv!store, Mv!conversation
<1>. QED  BY <1>1 DEF MvIInv, MvTimed, MvNotAhead, MvViewFits, MvViewFit

LEMMA MvNowIsNotAhead == ASSUME MvIInv PROVE MvNotAhead(updatedTimestamp)
<1>1. clock \in Nat /\ (updatedTimestamp = none \/ updatedTimestamp = clock)
  BY DEF MvIInv, Mv!TypeOK, MvTimed
<1>2. clock <= clock
  BY <1>1
<1>. QED  BY <1>1, <1>2 DEF MvNotAhead

\* What is missed of recent messages is all that is told apart.
LEMMA MvOverlookedFits ==
  ASSUME Mv!TypeOK, missed' = missed \cup Mv!Overlooked
  PROVE  /\ missed' \subseteq MvMissable
         /\ \A c : MvViewMissed(c)' = MvViewMissed(c) /\ MvReadMissed(c)' = MvReadMissed(c)
         /\ \A c : MvRecentMissed(c) => MvRecentMissed(c)'
         /\ \A l \in loads : l.of \notin Mv!Contacts => MvRecentMissed(l.of)'
<1>1. \A c : <<"view", c>> \notin Mv!Overlooked /\ <<"read", c>> \notin Mv!Overlooked
  BY DEF Mv!Overlooked
<1>2. missed' \subseteq MvMissable
  BY MvOverlookedType DEF Mv!TypeOK, MvMissable
<1>3. \A l \in loads : l.of \notin Mv!Contacts => MvRecentMissed(l.of)'
  BY MvOverlookedType DEF MvRecentMissed
<1>. QED  BY <1>1, <1>2, <1>3 DEF MvViewMissed, MvReadMissed, MvRecentMissed

LEMMA MvReloadRecentKeeps == ASSUME MvBounds, MvIInv, Mv!ReloadRecent PROVE MvIInv'
<1>0. /\ Mv!TypeOK /\ Mv!Contacts # {}
      /\ prevTimestamp' = updatedTimestamp
      /\ loads' = loads \cup {Mv!Loading(c) : c \in Mv!Contacts}
      /\ missed' = missed \cup Mv!Overlooked
      /\ UNCHANGED <<Mv!store, Mv!conversation, recent, messages, events>>
  BY DEF MvIInv, Mv!ReloadRecent, Mv!ShouldLoad
<1>1. /\ missed' \subseteq MvMissable
      /\ \A c : MvViewMissed(c)' = MvViewMissed(c) /\ MvReadMissed(c)' = MvReadMissed(c)
      /\ \A c : MvRecentMissed(c) => MvRecentMissed(c)'
      /\ \A l \in loads : l.of \notin Mv!Contacts => MvRecentMissed(l.of)'
  BY <1>0, MvOverlookedFits
<1>2. UNCHANGED <<ready, version, unread, updatedTimestamp, clock, view, reads, replies>>
  BY <1>0 DEF Mv!store, Mv!conversation
<1>3. loads' \subseteq Mv!Load
  <2>1. \A c \in Mv!Contacts : Mv!Loading(c) \in Mv!Load
    BY <1>0, MvLoadingType DEF Mv!Contacts
  <2>. QED  BY <1>0, <2>1 DEF Mv!TypeOK
<1>4. Mv!TypeOK'
  BY <1>0, <1>1, <1>2, <1>3 DEF Mv!TypeOK, MvMissable
<1>5. MvTimed' /\ MvViewFits'
  BY <1>0, <1>1, MvNowIsNotAhead, MvViewStays
<1>6. Mv!Contacts' = Mv!Contacts /\ \A c : Mv!Loading(c)' = Mv!Loading(c)
  BY <1>0, <1>2 DEF Mv!Contacts, Mv!Loading
<1>7. \A c \in Mv!Contacts : Mv!Loading(c) \in loads'
  BY <1>0
<1>8. ASSUME NEW l \in loads' PROVE MvLoadFits(l)'
  <2>1. CASE l \in loads
    BY <1>1, <1>6, <1>7, <2>1 DEF MvLoadFits
  <2>2. CASE l \notin loads
    <3>1. PICK c \in Mv!Contacts : l = Mv!Loading(c)
      BY <1>0, <2>2
    <3>. QED  BY <1>2, <3>1 DEF Mv!Loading, MvLoadFits
  <2>. QED  BY <2>1, <2>2
<1>9. \A c \in MvConversation : MvRecentFit(c)'
  BY <1>6, <1>7 DEF MvRecentFit
<1>10. MvRecentFits'
  BY <1>0, <1>6, <1>8, <1>9 DEF MvRecentFits
<1>. QED  BY <1>4, <1>5, <1>10 DEF MvIInv

LEMMA MvGetMessagesKeeps == ASSUME MvBounds, MvIInv, NEW c \in MvConversation, Mv!GetMessages(c) PROVE MvIInv'
<1>0. /\ Mv!TypeOK /\ Mv!Settled /\ Mv!Counted /\ MvRecentFits
      /\ missed' = IF prevTimestamp = updatedTimestamp THEN missed ELSE missed \cup Mv!Overlooked
      /\ prevTimestamp' = updatedTimestamp
      /\ loads' = loads \cup {Mv!Loading(c)}
      /\ UNCHANGED <<Mv!store, Mv!conversation, recent, messages>>
  BY DEF MvIInv, Mv!GetMessages
<1>1. /\ missed' \subseteq MvMissable
      /\ \A d : MvViewMissed(d)' = MvViewMissed(d) /\ MvReadMissed(d)' = MvReadMissed(d)
      /\ \A d : MvRecentMissed(d) => MvRecentMissed(d)'
      /\ prevTimestamp # updatedTimestamp => \A l \in loads : l.of \notin Mv!Contacts => MvRecentMissed(l.of)'
  <2>1. CASE prevTimestamp = updatedTimestamp
    BY <1>0, <2>1 DEF Mv!TypeOK, MvMissable, MvViewMissed, MvReadMissed, MvRecentMissed
  <2>2. CASE prevTimestamp # updatedTimestamp
    BY <1>0, <2>2, MvOverlookedFits
  <2>. QED  BY <2>1, <2>2
<1>2. UNCHANGED <<ready, version, unread, updatedTimestamp, clock, view, reads, replies>>
  BY <1>0 DEF Mv!store, Mv!conversation
<1>3. loads' \subseteq Mv!Load /\ Mv!Loading(c).of = c /\ Mv!Loading(c).version = version[c]
  BY <1>0, MvLoadingType DEF Mv!TypeOK
<1>4. events' \in 0..MvMaxEvents
  BY <1>0, MvCountedType
<1>5. Mv!TypeOK'
  BY <1>0, <1>1, <1>2, <1>3, <1>4 DEF Mv!TypeOK, MvMissable
<1>6. MvTimed' /\ MvViewFits'
  BY <1>0, <1>1, MvNowIsNotAhead, MvViewStays
<1>7. Mv!Contacts' = Mv!Contacts /\ \A d : Mv!Loading(d)' = Mv!Loading(d)
  BY <1>0, <1>2 DEF Mv!Contacts, Mv!Loading
<1>8. \A l \in loads' : l \in loads \/ l = Mv!Loading(c)
  BY <1>0
\* If the time moved on, no contact is there and whatever is under way was overlooked.
<1>9. prevTimestamp = updatedTimestamp \/ (Mv!Contacts = {} /\ \A l \in loads : MvRecentMissed(l.of)')
  BY <1>0, <1>1 DEF Mv!Settled, Mv!ShouldLoad
<1>10. ASSUME NEW l \in loads' PROVE MvLoadFits(l)'
  <2>1. CASE l \in loads /\ prevTimestamp = updatedTimestamp
    <3>1. MvLoadFits(l)
      BY <1>0, <2>1 DEF MvRecentFits
    <3>. QED  BY <1>0, <1>1, <1>2, <1>7, <3>1 DEF MvLoadFits
  <2>2. CASE l \in loads /\ MvRecentMissed(l.of)'
    BY <2>2 DEF MvLoadFits
  <2>3. CASE l = Mv!Loading(c)
    BY <1>2, <1>3, <2>3 DEF MvLoadFits
  <2>. QED  BY <1>8, <1>9, <2>1, <2>2, <2>3
<1>11. ASSUME NEW d \in MvConversation PROVE MvRecentFit(d)'
  <2>1. CASE prevTimestamp = updatedTimestamp
    <3>1. MvRecentFit(d)
      BY <1>0, <2>1 DEF MvRecentFits
    <3>. QED  BY <1>0, <1>1, <1>2, <1>7, <3>1 DEF MvRecentFit
  <2>2. CASE Mv!Contacts = {}
    BY <1>7, <2>2 DEF MvRecentFit
  <2>. QED  BY <1>9, <2>1, <2>2
<1>12. ASSUME updatedTimestamp = none, NEW l \in loads' PROVE MvBlankLoad(l)'
  <2>1. /\ l.of \in MvConversation
        /\ \A d \in MvConversation : version[d] = 0
    BY <1>3, <1>12 DEF MvIInv, MvTimed, Mv!Load
  <2>2. l.version = 0 \/ Mv!Loading(l.of) \in loads' \/ l.late \/ MvRecentMissed(l.of)'
    BY <1>2, <1>7, <1>10, <2>1 DEF MvLoadFits
  <2>3. Mv!Loading(l.of) = [of |-> l.of, version |-> 0, late |-> FALSE]
    BY <2>1 DEF Mv!Loading
  <2>. QED  BY <2>2, <2>3 DEF MvBlankLoad
<1>13. MvRecentFits'
  BY <1>0, <1>10, <1>11, <1>12 DEF MvRecentFits
<1>. QED  BY <1>5, <1>6, <1>13 DEF MvIInv

\* The others under way for the contact of l, once l is answered: those that have something else
\* than the store are late if l has what the store has.
MvMarked(l, o) == [o EXCEPT !.late = o.late \/ (l.version = version[l.of] /\ o.version # l.version)]

LEMMA MvMarkedFits ==
  ASSUME NEW l, NEW o \in Mv!Load
  PROVE  /\ MvMarked(l, o) \in Mv!Load
         /\ MvMarked(l, o).of = o.of /\ MvMarked(l, o).version = o.version
         /\ MvMarked(l, o).late <=> o.late \/ (l.version = version[l.of] /\ o.version # l.version)
<1>1. PICK mark : mark = (o.late \/ (l.version = version[l.of] /\ o.version # l.version))
  OBVIOUS
<1>2. mark \in BOOLEAN
  BY <1>1 DEF Mv!Load
<1>3. MvMarked(l, o) = [o EXCEPT !.late = mark]
  BY <1>1 DEF MvMarked
<1>. QED  BY <1>1, <1>2, <1>3 DEF Mv!Load

LEMMA MvGotMessagesKeeps == ASSUME MvBounds, MvIInv, NEW l \in loads, Mv!GotMessages(l) PROVE MvIInv'
<1>0. /\ Mv!TypeOK /\ MvTimed /\ MvViewFits /\ MvRecentFits
      /\ recent' = [recent EXCEPT ![l.of] = l.version]
      /\ loads' = (loads \ ({l} \cup Mv!Others(l))) \cup {MvMarked(l, o) : o \in Mv!Others(l)}
      /\ missed' = IF l.late THEN missed \cup {<<"recent", l.of>>}
                   ELSE IF l.version = version[l.of] THEN missed \ {<<"recent", l.of>>}
                   ELSE missed
      /\ UNCHANGED <<Mv!store, Mv!conversation, prevTimestamp, messages, events>>
  BY DEF MvIInv, Mv!GotMessages, MvMarked
<1>1. UNCHANGED <<ready, version, unread, updatedTimestamp, clock, view, reads, replies>>
  BY <1>0 DEF Mv!store, Mv!conversation
<1>2. l \in Mv!Load /\ l.of \in MvConversation /\ l.version \in Nat /\ \A o \in loads : o \in Mv!Load
  BY <1>0 DEF Mv!TypeOK, Mv!Load
<1>3. loads' \subseteq Mv!Load
  <2>1. \A o \in Mv!Others(l) : MvMarked(l, o) \in Mv!Load
    BY <1>2, MvMarkedFits DEF Mv!Others
  <2>. QED  BY <1>0, <2>1 DEF Mv!TypeOK
<1>4. missed' \subseteq MvMissable
  BY <1>0, <1>2, MvMissedTypes DEF Mv!TypeOK, MvMissable
<1>5. /\ \A c : MvViewMissed(c)' = MvViewMissed(c) /\ MvReadMissed(c)' = MvReadMissed(c)
      /\ \A c : c # l.of => MvRecentMissed(c)' = MvRecentMissed(c)
      /\ l.late => MvRecentMissed(l.of)'
      /\ ~l.late /\ l.version # version[l.of] => MvRecentMissed(l.of)' = MvRecentMissed(l.of)
  BY <1>0 DEF MvViewMissed, MvReadMissed, MvRecentMissed
<1>6. /\ recent' \in [MvConversation -> Nat \cup {none}] /\ recent'[l.of] = l.version
      /\ \A c \in MvConversation : c # l.of => recent'[c] = recent[c]
  BY <1>0, <1>2 DEF Mv!TypeOK
<1>7. Mv!TypeOK'
  BY <1>0, <1>1, <1>3, <1>4, <1>6 DEF Mv!TypeOK, MvMissable
<1>8. MvTimed' /\ MvViewFits'
  BY <1>0, <1>1, <1>5, MvViewStays DEF MvIInv, MvTimed
<1>9. \A c : Mv!Loading(c)' = Mv!Loading(c)
  BY <1>1 DEF Mv!Loading
\* What is under way now.
<1>10. ASSUME NEW k \in loads'
       PROVE  \/ k \in loads /\ k.of # l.of
              \/ \E o \in loads : k = MvMarked(l, o) /\ o # l /\ o.of = l.of
  BY <1>0, <1>10 DEF Mv!Others
<1>11. ASSUME NEW k \in loads, k.of # l.of PROVE k \in loads'
  BY <1>0, <1>11 DEF Mv!Others
<1>12. ASSUME NEW o \in loads, o # l, o.of = l.of PROVE MvMarked(l, o) \in loads'
  BY <1>0, <1>12 DEF Mv!Others
<1>13. l.of \in Mv!Contacts' /\ \A c \in Mv!Contacts' : c \in Mv!Contacts \/ c = l.of
  <2>1. l.version # none
    BY <1>2 DEF MvBounds
  <2>. QED  BY <1>2, <1>6, <2>1 DEF Mv!Contacts
\* If l has not what the store has, the load that has it is still under way.
<1>14. ASSUME prevTimestamp = updatedTimestamp, ~l.late, l.version # version[l.of], ~MvRecentMissed(l.of)
       PROVE  Mv!Loading(l.of) \in loads'
  <2>1. MvLoadFits(l)
    BY <1>0, <1>14 DEF MvRecentFits
  <2>2. Mv!Loading(l.of) \in loads
    BY <1>14, <2>1 DEF MvLoadFits
  <2>3. /\ Mv!Loading(l.of) \in Mv!Load /\ Mv!Loading(l.of).of = l.of /\ Mv!Loading(l.of).version = version[l.of]
        /\ ~Mv!Loading(l.of).late
    BY <1>0, <1>2, MvLoadingType
  <2>4. MvMarked(l, Mv!Loading(l.of)) \in loads'
    BY <1>12, <1>14, <2>2, <2>3
  <2>5. MvMarked(l, Mv!Loading(l.of)) = Mv!Loading(l.of)
    <3>1. PICK o : o = Mv!Loading(l.of)
      OBVIOUS
    <3>2. (o.late \/ (l.version = version[l.of] /\ o.version # l.version)) = FALSE
      BY <1>14, <2>3, <3>1 DEF Mv!Load
    <3>3. MvMarked(l, o) = [o EXCEPT !.late = FALSE]
      BY <3>2 DEF MvMarked
    <3>4. o \in Mv!Load /\ o.late = FALSE
      BY <2>3, <3>1 DEF Mv!Loading
    <3>5. [o EXCEPT !.late = FALSE] = o
      BY <3>4 DEF Mv!Load
    <3>. QED  BY <3>1, <3>3, <3>5
  <2>. QED  BY <2>4, <2>5
<1>15. ASSUME prevTimestamp = updatedTimestamp, NEW k \in loads' PROVE MvLoadFits(k)'
  <2>1. CASE k \in loads /\ k.of # l.of
    <3>1. MvLoadFits(k) /\ k.of \in MvConversation
      BY <1>0, <1>2, <1>15, <2>1 DEF MvRecentFits, Mv!Load
    <3>2. Mv!Loading(k.of) \in loads => Mv!Loading(k.of) \in loads'
      <4>1. Mv!Loading(k.of).of = k.of
        BY <1>0, <3>1, MvLoadingType
      <4>. QED  BY <1>11, <2>1, <4>1
    <3>. QED  BY <1>1, <1>5, <1>9, <2>1, <3>1, <3>2 DEF MvLoadFits
  <2>2. CASE \E o \in loads : k = MvMarked(l, o) /\ o # l /\ o.of = l.of
    <3>1. PICK o \in loads : k = MvMarked(l, o) /\ o # l /\ o.of = l.of
      BY <2>2
    <3>2. /\ k.of = l.of /\ k.version = o.version
          /\ k.late <=> o.late \/ (l.version = version[l.of] /\ o.version # l.version)
      BY <1>2, <3>1, MvMarkedFits
    <3>3. CASE l.late
      BY <1>5, <3>2, <3>3 DEF MvLoadFits
    <3>4. CASE ~l.late /\ l.version = version[l.of]
      BY <1>1, <3>2, <3>4 DEF MvLoadFits
    <3>5. CASE ~l.late /\ l.version # version[l.of]
      BY <1>5, <1>9, <1>14, <1>15, <3>2, <3>5 DEF MvLoadFits
    <3>. QED  BY <3>3, <3>4, <3>5
  <2>. QED  BY <1>10, <2>1, <2>2
<1>16. ASSUME prevTimestamp = updatedTimestamp, NEW c \in MvConversation PROVE MvRecentFit(c)'
  <2>1. CASE c = l.of
    <3>1. CASE l.late
      BY <1>5, <2>1, <3>1 DEF MvRecentFit
    <3>2. CASE ~l.late /\ l.version = version[l.of]
      BY <1>1, <1>6, <2>1, <3>2 DEF MvRecentFit
    <3>3. CASE ~l.late /\ l.version # version[l.of]
      BY <1>5, <1>9, <1>14, <1>16, <2>1, <3>3 DEF MvRecentFit
    <3>. QED  BY <3>1, <3>2, <3>3
  <2>2. CASE c # l.of
    <3>1. MvRecentFit(c) /\ (c \in Mv!Contacts' => c \in Mv!Contacts)
      BY <1>0, <1>13, <1>16, <2>2 DEF MvRecentFits
    <3>2. Mv!Loading(c) \in loads => Mv!Loading(c) \in loads'
      <4>1. Mv!Loading(c).of = c
        BY <1>0, MvLoadingType
      <4>. QED  BY <1>11, <2>2, <4>1
    <3>. QED  BY <1>1, <1>5, <1>6, <1>9, <2>2, <3>1, <3>2 DEF MvRecentFit
  <2>. QED  BY <2>1, <2>2
<1>17. MvRecentFits'
  BY <1>0, <1>1, <1>13, <1>15, <1>16 DEF MvRecentFits
<1>. QED  BY <1>7, <1>8, <1>17 DEF MvIInv

LEMMA MvLoadFailsKeeps == ASSUME MvBounds, MvIInv, NEW l \in loads, Mv!LoadFails(l) PROVE MvIInv'
<1>0. /\ Mv!TypeOK /\ MvTimed /\ MvRecentFits /\ Mv!Counted
      /\ loads' = loads \ {l}
      /\ missed' = missed \cup {<<"recent", l.of>>}
      /\ UNCHANGED <<Mv!store, Mv!conversation, recent, prevTimestamp, messages>>
  BY DEF MvIInv, Mv!LoadFails
<1>1. UNCHANGED <<ready, version, unread, updatedTimestamp, clock, view, reads, replies>>
  BY <1>0 DEF Mv!store, Mv!conversation
<1>2. \A k \in loads : k.of \in MvConversation
  BY <1>0 DEF Mv!TypeOK, Mv!Load
<1>3. /\ \A d : MvViewMissed(d)' = MvViewMissed(d) /\ MvReadMissed(d)' = MvReadMissed(d)
      /\ \A d : MvRecentMissed(d) => MvRecentMissed(d)'
      /\ MvRecentMissed(l.of)'
  BY <1>0 DEF MvViewMissed, MvReadMissed, MvRecentMissed
<1>4. missed' \subseteq MvMissable
  BY <1>0, <1>2, MvMissedTypes DEF Mv!TypeOK, MvMissable
<1>5. events' \in 0..MvMaxEvents
  BY <1>0, MvCountedType
<1>6. Mv!TypeOK'
  BY <1>0, <1>1, <1>4, <1>5 DEF Mv!TypeOK, MvMissable
<1>7. MvTimed' /\ MvViewFits'
  BY <1>0, <1>1, <1>3, MvViewStays DEF MvIInv, MvTimed
<1>8. Mv!Contacts' = Mv!Contacts /\ \A d : Mv!Loading(d)' = Mv!Loading(d)
  BY <1>0, <1>1 DEF Mv!Contacts, Mv!Loading
\* The loads of other contacts are still under way.
<1>9. ASSUME NEW k \in loads, k.of # l.of PROVE k \in loads'
  BY <1>0, <1>9
<1>10. ASSUME NEW d \in MvConversation, d # l.of, Mv!Loading(d) \in loads PROVE Mv!Loading(d)' \in loads'
  <2>1. Mv!Loading(d).of = d
    BY <1>0, MvLoadingType
  <2>. QED  BY <1>8, <1>9, <1>10, <2>1
<1>11. ASSUME NEW k \in loads', MvLoadFits(k) PROVE MvLoadFits(k)'
  BY <1>0, <1>1, <1>2, <1>3, <1>10, <1>11 DEF MvLoadFits
<1>12. ASSUME NEW d \in MvConversation, MvRecentFit(d) PROVE MvRecentFit(d)'
  BY <1>0, <1>1, <1>3, <1>8, <1>10, <1>12 DEF MvRecentFit
<1>13. ASSUME NEW k \in loads', MvBlankLoad(k) PROVE MvBlankLoad(k)'
  BY <1>0, <1>3, <1>13 DEF MvBlankLoad
<1>14. MvRecentFits'
  BY <1>0, <1>1, <1>8, <1>11, <1>12, <1>13 DEF MvRecentFits
<1>. QED  BY <1>6, <1>7, <1>14 DEF MvIInv

LEMMA MvCleanUpMessagesKeeps ==
  ASSUME MvBounds, MvIInv, NEW c \in MvConversation, Mv!CleanUpMessages(c)
  PROVE  MvIInv'
<1>0. /\ Mv!TypeOK /\ MvTimed /\ MvRecentFits /\ Mv!Settled /\ Mv!Counted /\ recent[c] # none
      /\ recent' = [recent EXCEPT ![c] = none]
      /\ missed' = IF \E l \in loads : l.of = c THEN missed \cup {<<"recent", c>>} ELSE missed
      /\ UNCHANGED <<Mv!store, Mv!conversation, loads, prevTimestamp, messages>>
  BY DEF MvIInv, Mv!CleanUpMessages
<1>1. UNCHANGED <<ready, version, unread, updatedTimestamp, clock, view, reads, replies>>
  BY <1>0 DEF Mv!store, Mv!conversation
<1>2. missed' \subseteq MvMissable
  BY <1>0, MvMissedTypes DEF Mv!TypeOK, MvMissable
<1>3. /\ \A d : MvViewMissed(d)' = MvViewMissed(d) /\ MvReadMissed(d)' = MvReadMissed(d)
      /\ \A d : MvRecentMissed(d) => MvRecentMissed(d)'
  BY <1>0 DEF MvViewMissed, MvReadMissed, MvRecentMissed
<1>4. recent' \in [MvConversation -> Nat \cup {none}]
  BY <1>0 DEF Mv!TypeOK
<1>5. events' \in 0..MvMaxEvents
  BY <1>0, MvCountedType
<1>6. Mv!TypeOK'
  BY <1>0, <1>1, <1>2, <1>4, <1>5 DEF Mv!TypeOK, MvMissable
<1>7. MvTimed' /\ MvViewFits'
  BY <1>0, <1>1, <1>3, MvViewStays DEF MvTimed
<1>8. c \in Mv!Contacts /\ \A d \in Mv!Contacts' : d \in Mv!Contacts /\ recent'[d] = recent[d]
  BY <1>0 DEF Mv!Contacts, Mv!TypeOK
<1>9. prevTimestamp = updatedTimestamp
  BY <1>0, <1>8 DEF Mv!Settled, Mv!ShouldLoad
<1>10. /\ \A l \in loads : MvLoadFits(l)
       /\ \A d \in MvConversation : MvRecentFit(d)
  BY <1>0, <1>9 DEF MvRecentFits
<1>11. \A d : Mv!Loading(d)' = Mv!Loading(d)
  BY <1>1 DEF Mv!Loading
<1>12. ASSUME NEW l \in loads PROVE MvLoadFits(l)'
  BY <1>0, <1>1, <1>3, <1>10, <1>11 DEF MvLoadFits
<1>13. ASSUME NEW d \in MvConversation PROVE MvRecentFit(d)'
  BY <1>0, <1>1, <1>3, <1>8, <1>10, <1>11 DEF MvRecentFit
<1>14. ASSUME prevTimestamp = none, NEW l \in loads PROVE MvBlankLoad(l)'
  <2>1. l.of \in MvConversation /\ \A d \in MvConversation : version[d] = 0
    BY <1>0, <1>9, <1>14 DEF MvTimed, Mv!TypeOK, Mv!Load
  <2>2. Mv!Loading(l.of) = [of |-> l.of, version |-> 0, late |-> FALSE]
    BY <2>1 DEF Mv!Loading
  <2>3. MvLoadFits(l)
    BY <1>10
  <2>. QED  BY <1>0, <1>3, <2>1, <2>2, <2>3 DEF MvLoadFits, MvBlankLoad
<1>15. MvRecentFits'
  BY <1>0, <1>12, <1>13, <1>14 DEF MvRecentFits
<1>. QED  BY <1>6, <1>7, <1>15 DEF MvIInv

LEMMA MvNextIInv == ASSUME MvBounds PROVE MvIInv /\ [Mv!Next]_(Mv!vars) => MvIInv'
<1>. SUFFICES ASSUME MvIInv, [Mv!Next]_(Mv!vars) PROVE MvIInv'
  OBVIOUS
<1>1. CASE UNCHANGED Mv!vars
  <2>1. /\ UNCHANGED <<ready, version, unread, updatedTimestamp, clock, view, reads, replies>>
        /\ UNCHANGED <<recent, loads, prevTimestamp, missed, messages, events>>
    BY <1>1 DEF Mv!vars, Mv!store, Mv!conversation, Mv!recents
  <2>2. Mv!TypeOK' /\ MvTimed' /\ MvViewFits'
    BY <2>1 DEF MvIInv, Mv!TypeOK, MvTimed, MvNotAhead, MvViewFits, MvViewFit, MvViewMissed, MvReadMissed
  <2>3. MvRecentFits'
    BY <2>1, MvRecentsStay DEF MvRecentMissed, Mv!recents
  <2>. QED  BY <2>2, <2>3 DEF MvIInv
<1>2. CASE Mv!Next
  <2>1. ASSUME NEW c \in MvConversation,
               \/ Mv!Arrive(c) \/ Mv!Delete(c) \/ Mv!LoadConversationById(c)
               \/ Mv!GetMessages(c) \/ Mv!CleanUpMessages(c)
        PROVE  MvIInv'
    BY <2>1, MvArriveKeeps, MvDeleteKeeps, MvLoadConversationByIdKeeps, MvGetMessagesKeeps,
       MvCleanUpMessagesKeeps
  <2>2. CASE Mv!ViewReady \/ Mv!ReloadConversation \/ Mv!ReloadRecent
    BY <2>2, MvViewReadyKeeps, MvReloadConversationKeeps, MvReloadRecentKeeps
  <2>3. CASE Mv!Turn \/ Mv!UnloadConversation \/ Mv!ReplyToReceivers \/ Mv!UpdateRecipients
    BY <2>3, MvTurnKeeps, MvUnloadConversationKeeps, MvReplyToReceiversKeeps, MvUpdateRecipientsKeeps
  <2>. QED  BY <1>2, <2>1, <2>2, <2>3, MvReadMessagesKeeps, MvRepliedKeeps, MvGotMessagesKeeps,
           MvLoadFailsKeeps DEF Mv!Next
<1>. QED  BY <1>1, <1>2

\* For any conversations: between turns, what is shown is what the store has, or it was missed.
LEMMA MvStoreIsShown == ASSUME MvBounds PROVE MvIInv => Mv!ViewsShowStore
<1>. SUFFICES ASSUME MvIInv, Mv!Settled PROVE Mv!ViewsShowStore
  BY DEF Mv!ViewsShowStore
<1>0. MvTimed /\ MvViewFits /\ MvRecentFits /\ ~Mv!ViewTurns /\ ~Mv!ShouldReload /\ ~Mv!ShouldLoad
  BY DEF MvIInv, Mv!Settled
<1>1. ASSUME NEW c \in MvConversation, view.ready, view.id = c, version[c] # 0, <<"view", c>> \notin missed
      PROVE  /\ view.version = version[c]
             /\ unread[c] # 0 /\ <<"read", c>> \notin missed =>
                  [of |-> c, version |-> unread[c]] \in reads
  <2>1. view.at = updatedTimestamp
    BY <1>0, <1>1 DEF Mv!ViewTurns, Mv!ShouldReload, MvBounds
  <2>. QED  BY <1>0, <1>1, <2>1 DEF MvViewFits, MvViewFit, MvViewMissed, MvReadMissed
<1>2. ASSUME NEW c \in Mv!Contacts, <<"recent", c>> \notin missed
      PROVE  recent[c] = version[c] \/ Mv!Loading(c) \in loads
  <2>1. prevTimestamp = updatedTimestamp /\ c \in MvConversation
    BY <1>0 DEF Mv!ShouldLoad, Mv!Contacts
  <2>. QED  BY <1>0, <1>2, <2>1 DEF MvRecentFits, MvRecentFit, MvRecentMissed
<1>. QED  BY <1>1, <1>2 DEF Mv!ViewsShowStore

-----------------------------------------------------------------------------
(***************************************************************************)
(* Proofs about the sending of texts: for any numbers, and however sends   *)
(* overlap and fail, a send tells what was done: the requests that were    *)
(* made are a part of an order that has each recipient as often as it was  *)
(* asked for, extensions first.                                            *)
(***************************************************************************)

TsBounds ==
  /\ TsMaxSends \in Nat /\ TsMaxEdits \in Nat
  /\ IsFiniteSet(TsNumber) /\ TsReplied \subseteq SUBSET TsNumber
  /\ TsPhone \cap TsExtension = {}

\* The extensions asked for.
TsExtensions(aims) == {TsParsed[n] : n \in aims} \cap TsExtension

\* How often t is in q, and how often it was asked for.
TsPlaces(q, t) == {i \in DOMAIN q : q[i] = t}
TsHas(q, t)    == Cardinality(TsPlaces(q, t))
TsAsks(aims, t) ==
  IF t \in TsExtension THEN Cardinality({TsParsed[n] : n \in aims} \cap {t})
                       ELSE Cardinality({n \in aims : TsParsed[n] = t})

\* What the requests are for, in their order: the k extensions, and then the phone numbers.
TsOrder(q, aims) ==
  /\ q \in Seq(Ts!Target)
  /\ Cardinality(TsExtensions(aims)) \in 0..Len(q)
  /\ \A i \in 1..Len(q) : q[i] \in TsExtension <=> i <= Cardinality(TsExtensions(aims))
  /\ {q[i] : i \in 1..Len(q)} \cap TsExtension = TsExtensions(aims)
  /\ \A i \in 1..Len(q) : q[i] \in TsPhone => \E n \in aims : TsParsed[n] \in TsPhone
  /\ \A t \in Ts!Target : TsHas(q, t) = TsAsks(aims, t)

\* The requests that were made and those that are left are the order.
TsAlong(sent, rest, q) ==
  /\ Len(sent) + Len(rest) = Len(q)
  /\ \A i \in 1..Len(sent) : sent[i] = q[i]
  /\ \A i \in 1..Len(rest) : rest[i] = q[Len(sent) + i]

TsSendFits(s) ==
  /\ s.asked # {}
  /\ s.at = "parser" => s.sent = <<>>
  /\ s.at # "parser" =>
       /\ Ts!Accepted(s) /\ s.rest # <<>>
       /\ \E q \in Seq(Ts!Target) :
            /\ TsOrder(q, s.asked) /\ TsAlong(s.sent, s.rest, q)
            /\ s.at = "pager" => s.sent = <<>>
            /\ s.at = "sms" => Cardinality(TsExtensions(s.asked)) <= Len(s.sent)

\* Of an outcome.
TsTells(o) ==
  /\ o.result = "responses" => \A t \in Ts!Target : TsHas(o.sent, t) = TsAsks(o.asked, t)
  /\ o.result = "null" => o.sent = <<>>
  /\ o.result = "error" =>
       /\ \A t \in Ts!Target : TsHas(o.sent, t) <= TsAsks(o.asked, t)
       /\ \A t \in TsPhone, u \in TsExtension : TsHas(o.sent, t) > 0 => TsHas(o.sent, u) = TsAsks(o.asked, u)
  /\ o.sent # <<>> => \A n \in o.asked : TsParsed[n] \in Ts!Target
  /\ \A t \in TsPhone : TsHas(o.sent, t) > 0 => o.validSender

TsIdle == sends = {} => sendStatus = "idle"

TsIInv == Ts!TypeOK /\ IsFiniteSet(sends) /\ (\A s \in sends : TsSendFits(s)) /\ TsTells(last) /\ TsIdle

--------------------
(* Sets of the same size. *)

\* Its cardinality is that of the sets here.
LEMMA TsCardinality == ASSUME NEW S PROVE Ts!Cardinality(S) = Cardinality(S)
  BY DEF Ts!Cardinality, Cardinality

LEMMA TsSameSize ==
  ASSUME NEW S, NEW T, IsFiniteSet(T), NEW f \in [S -> T],
         \A a, b \in S : f[a] = f[b] => a = b,
         \A t \in T : \E a \in S : f[a] = t
  PROVE  IsFiniteSet(S) /\ Cardinality(S) = Cardinality(T)
<1>1. f \in Injection(S, T) /\ f \in Surjection(S, T)
  BY DEF Injection, Surjection, IsInjective
<1>. QED  BY <1>1, FS_Injection

LEMMA TsAskedFinite ==
  ASSUME TsBounds, NEW aims \in SUBSET TsNumber
  PROVE  /\ IsFiniteSet(aims)
         /\ IsFiniteSet({TsParsed[n] : n \in aims})
         /\ IsFiniteSet(TsExtensions(aims))
         /\ \A t : IsFiniteSet({n \in aims : TsParsed[n] = t})
<1>1. IsFiniteSet(aims)
  BY FS_Subset DEF TsBounds
<1>2. IsFiniteSet({TsParsed[n] : n \in aims})
  <2>. DEFINE T == {TsParsed[n] : n \in aims}
              f == [n \in aims |-> TsParsed[n]]
  <2>1. f \in Surjection(aims, T)
    BY DEF Surjection
  <2>. QED  BY <1>1, <2>1, FS_Surjection
<1>3. IsFiniteSet(TsExtensions(aims))
  BY <1>2, FS_Subset DEF TsExtensions
<1>4. ASSUME NEW t PROVE IsFiniteSet({n \in aims : TsParsed[n] = t})
  BY <1>1, FS_Subset
<1>. QED  BY <1>1, <1>2, <1>3, <1>4
--------------------
(* Orders. *)

\* The numbers that are phones.
TsPhones(aims) == {n \in aims : TsParsed[n] \in TsPhone}

\* An order is made of the extensions and of the numbers that are phones, each at its place.
TsMade(q, one, o, aims) ==
  /\ one \in [1..Cardinality(TsExtensions(aims)) -> TsExtensions(aims)]
  /\ o \in [1..Cardinality(TsPhones(aims)) -> TsPhones(aims)]
  /\ \A i, j \in DOMAIN one : one[i] = one[j] => i = j
  /\ \A i, j \in DOMAIN o : o[i] = o[j] => i = j
  /\ \A t \in TsExtensions(aims) : \E i \in DOMAIN one : one[i] = t
  /\ \A n \in TsPhones(aims) : \E i \in DOMAIN o : o[i] = n
  /\ q \in Seq(Ts!Target)
  /\ Len(q) = Cardinality(TsExtensions(aims)) + Cardinality(TsPhones(aims))
  /\ \A i \in DOMAIN one : q[i] = one[i]
  /\ \A i \in DOMAIN o : q[Cardinality(TsExtensions(aims)) + i] = TsParsed[o[i]]

LEMMA TsSizes ==
  ASSUME TsBounds, NEW aims \in SUBSET TsNumber
  PROVE  /\ IsFiniteSet(TsPhones(aims))
         /\ Cardinality(TsExtensions(aims)) \in Nat /\ Cardinality(TsPhones(aims)) \in Nat
<1>1. IsFiniteSet(TsExtensions(aims)) /\ IsFiniteSet(aims)
  BY TsAskedFinite
<1>2. IsFiniteSet(TsPhones(aims))
  BY <1>1, FS_Subset DEF TsPhones
<1>. QED  BY <1>1, <1>2, FS_CardinalityType

LEMMA TsOrderMade ==
  ASSUME TsBounds, NEW s, s.asked \in SUBSET TsNumber, NEW q \in Ts!Orders(s)
  PROVE  \E one, o : TsMade(q, one, o, s.asked)
<1>. DEFINE e == TsExtensions(s.asked)
            p == TsPhones(s.asked)
            k == Cardinality(e)
            m == Cardinality(p)
<1>1. k \in Nat /\ m \in Nat
  BY TsSizes
<1>. DEFINE Whole(one, o) == one \o [i \in DOMAIN o |-> TsParsed[o[i]]]
<1>2. PICK one \in Ts!Bijection(1..k, e), o \in Ts!Bijection(1..m, p) : q = Whole(one, o)
  <2>1. Ts!Orders(s) = {Whole(one, o) : one \in Ts!Bijection(1..k, e), o \in Ts!Bijection(1..m, p)}
    <3>1. Ts!Cardinality(e) = k /\ Ts!Cardinality(p) = m
      BY TsCardinality
    <3>2. Ts!Orders(s) = {Whole(one, o) : one \in Ts!Bijection(1..Ts!Cardinality(e), e),
                                          o \in Ts!Bijection(1..Ts!Cardinality(p), p)}
      BY DEF Ts!Orders, TsExtensions, TsPhones
    <3>. HIDE DEF e, p, k, m, Whole
    <3>. QED  BY <3>1, <3>2
  <2>. HIDE DEF e, p, k, m, Whole
  <2>. QED  BY <2>1
<1>3. /\ one \in [1..k -> e] /\ o \in [1..m -> p]
      /\ \A i, j \in 1..k : one[i] = one[j] => i = j
      /\ \A i, j \in 1..m : o[i] = o[j] => i = j
      /\ \A t \in e : \E i \in 1..k : one[i] = t
      /\ \A n \in p : \E i \in 1..m : o[i] = n
  BY <1>2 DEF Ts!Bijection, Ts!Injection, Ts!Surjection, Ts!IsInjective
<1>4. e \subseteq Ts!Target /\ \A n \in p : TsParsed[n] \in Ts!Target
  BY DEF TsExtensions, Ts!Target, TsPhones
<1>. DEFINE phones == [i \in 1..m |-> TsParsed[o[i]]]
<1>5. q = one \o phones
  BY <1>2, <1>3
<1>. HIDE DEF e, p, k, m
<1>6. one \in Seq(Ts!Target) /\ Len(one) = k
  BY <1>1, <1>3, <1>4
<1>7. phones \in Seq(Ts!Target) /\ Len(phones) = m /\ \A i \in 1..m : phones[i] = TsParsed[o[i]]
  BY <1>1, <1>3, <1>4
<1>. HIDE DEF phones
<1>8. /\ q \in Seq(Ts!Target) /\ Len(q) = k + m
      /\ \A i \in 1..(k + m) : q[i] = IF i <= k THEN one[i] ELSE phones[i - k]
  BY <1>5, <1>6, <1>7, ConcatProperties, ZenonT(60)
<1>9. \A i \in 1..k : q[i] = one[i]
  BY <1>1, <1>8
<1>10. ASSUME NEW i \in 1..m PROVE q[k + i] = TsParsed[o[i]]
  <2>1. k + i \in 1..(k + m) /\ ~(k + i <= k) /\ (k + i) - k = i
    BY <1>1
  <2>2. q[k + i] = phones[(k + i) - k]
    BY <1>8, <2>1
  <2>. QED  BY <1>7, <2>1, <2>2
<1>11. DOMAIN one = 1..k /\ DOMAIN o = 1..m
  BY <1>3
<1>12. TsMade(q, one, o, s.asked)
  BY <1>3, <1>8, <1>9, <1>10, <1>11 DEF TsMade, e, p, k, m
<1>. QED  BY <1>12

LEMMA TsOrderFits ==
  ASSUME TsBounds, NEW s, s.asked \in SUBSET TsNumber, NEW q \in Ts!Orders(s)
  PROVE  TsOrder(q, s.asked) /\ (s.asked # {} /\ Ts!Accepted(s) => q # <<>>)
<1>. DEFINE e == TsExtensions(s.asked)
            p == TsPhones(s.asked)
            k == Cardinality(e)
            m == Cardinality(p)
<1>1. k \in Nat /\ m \in Nat
  BY TsSizes
<1>2. PICK one, o : TsMade(q, one, o, s.asked)
  BY TsOrderMade
<1>3. /\ one \in [1..k -> e] /\ o \in [1..m -> p]
      /\ q \in Seq(Ts!Target) /\ Len(q) = k + m /\ DOMAIN q = 1..(k + m)
      /\ \A t \in e : \E i \in 1..k : one[i] = t
      /\ \A n \in p : \E i \in 1..m : o[i] = n
  BY <1>2 DEF TsMade
<1>4. /\ \A i, j \in 1..k : one[i] = one[j] => i = j
      /\ \A i, j \in 1..m : o[i] = o[j] => i = j
  BY <1>2, <1>3 DEF TsMade
<1>5. (\A i \in 1..k : q[i] = one[i]) /\ (\A i \in 1..m : q[k + i] = TsParsed[o[i]])
  BY <1>2, <1>3 DEF TsMade
<1>6. /\ \A t \in e : t \in TsExtension /\ \E n \in s.asked : TsParsed[n] = t
      /\ \A n \in p : n \in s.asked /\ TsParsed[n] \in TsPhone /\ TsParsed[n] \notin TsExtension
      /\ \A n \in s.asked : TsParsed[n] \in TsPhone => n \in p
      /\ \A n \in s.asked : TsParsed[n] \in TsExtension => TsParsed[n] \in e
  BY DEF TsExtensions, TsPhones, TsBounds
<1>. HIDE DEF e, p, k, m
<1>7. ASSUME NEW i \in 1..(k + m), i <= k PROVE q[i] = one[i] /\ q[i] \in e /\ i \in 1..k
  BY <1>1, <1>3, <1>5, <1>7
<1>8. ASSUME NEW i \in 1..(k + m), ~(i <= k)
      PROVE  /\ i - k \in 1..m /\ o[i - k] \in p /\ q[i] = TsParsed[o[i - k]]
  <2>1. i - k \in 1..m /\ k + (i - k) = i
    BY <1>1, <1>8
  <2>2. q[k + (i - k)] = TsParsed[o[i - k]]
    BY <1>5, <2>1
  <2>. QED  BY <1>3, <2>1, <2>2
<1>9. ASSUME NEW i \in 1..(k + m)
      PROVE  /\ q[i] \in TsExtension <=> i <= k
             /\ q[i] \in TsPhone => \E n \in s.asked : TsParsed[n] \in TsPhone
             /\ q[i] \in TsExtension => q[i] \in e
  <2>1. CASE i <= k
    BY <1>6, <1>7, <2>1 DEF TsBounds
  <2>2. CASE ~(i <= k)
    BY <1>6, <1>8, <2>2
  <2>. QED  BY <2>1, <2>2
<1>10. \A t \in e : \E i \in 1..(k + m) : q[i] = t
  BY <1>1, <1>3, <1>5
<1>11. {q[i] : i \in 1..(k + m)} \cap TsExtension = e
  BY <1>6, <1>9, <1>10
<1>12. ASSUME NEW t \in TsExtension PROVE TsHas(q, t) = TsAsks(s.asked, t)
  <2>. DEFINE T == {TsParsed[n] : n \in s.asked} \cap {t}
              f == [i \in TsPlaces(q, t) |-> t]
  <2>1. IsFiniteSet(T)
    BY FS_Singleton, FS_Intersection
  <2>2. \A i \in TsPlaces(q, t) : i \in 1..k /\ one[i] = t
    BY <1>3, <1>7, <1>9 DEF TsPlaces
  <2>3. \A a, b \in TsPlaces(q, t) : a = b
    BY <1>4, <2>2
  <2>4. ASSUME NEW x \in T PROVE x = t /\ \E a \in TsPlaces(q, t) : TRUE
    <3>1. t \in e
      BY <1>6
    <3>2. PICK i \in 1..(k + m) : q[i] = t
      BY <1>10, <3>1
    <3>. QED  BY <1>3, <3>2 DEF TsPlaces
  <2>5. \A i \in TsPlaces(q, t) : t \in T
    <3>1. ASSUME NEW i \in TsPlaces(q, t) PROVE t \in T
      <4>1. t \in e
        BY <1>3, <2>2
      <4>. QED  BY <1>6, <4>1
    <3>. QED  BY <3>1
  <2>6. f \in [TsPlaces(q, t) -> T]
    BY <2>5
  <2>7. Cardinality(TsPlaces(q, t)) = Cardinality(T)
    <3>1. \A x \in T : \E a \in TsPlaces(q, t) : f[a] = x
      BY <2>4
    <3>. HIDE DEF T, f
    <3>. QED  BY <2>1, <2>3, <2>6, <3>1, TsSameSize
  <2>. QED  BY <2>7 DEF TsHas, TsAsks
<1>13. ASSUME NEW t \in TsPhone PROVE TsHas(q, t) = TsAsks(s.asked, t)
  <2>. DEFINE T == {n \in s.asked : TsParsed[n] = t}
              f == [i \in TsPlaces(q, t) |-> o[i - k]]
  <2>1. IsFiniteSet(T)
    BY TsAskedFinite
  <2>2. t \notin TsExtension
    BY DEF TsBounds
  <2>3. ASSUME NEW i \in TsPlaces(q, t)
        PROVE  i \in Int /\ i - k \in 1..m /\ o[i - k] \in T
    <3>1. i \in 1..(k + m) /\ ~(i <= k) /\ q[i] = t
      BY <1>3, <1>9, <2>2 DEF TsPlaces
    <3>. QED  BY <1>6, <1>8, <3>1
  <2>4. f \in [TsPlaces(q, t) -> T]
    BY <2>3
  <2>5. ASSUME NEW a \in TsPlaces(q, t), NEW b \in TsPlaces(q, t), f[a] = f[b] PROVE a = b
    <3>1. o[a - k] = o[b - k]
      BY <2>5
    <3>2. a - k = b - k /\ a \in Int /\ b \in Int
      BY <1>4, <2>3, <3>1
    <3>. QED  BY <1>1, <3>2
  <2>6. ASSUME NEW n \in T PROVE \E a \in TsPlaces(q, t) : f[a] = n
    <3>1. PICK i \in 1..m : o[i] = n
      BY <1>3, <1>6
    <3>2. k + i \in 1..(k + m) /\ (k + i) - k = i
      BY <1>1
    <3>3. k + i \in TsPlaces(q, t)
      BY <1>3, <1>5, <3>1, <3>2 DEF TsPlaces
    <3>. QED  BY <3>1, <3>2, <3>3
  <2>7. Cardinality(TsPlaces(q, t)) = Cardinality(T)
    <3>. HIDE DEF T, f
    <3>. QED  BY <2>1, <2>4, <2>5, <2>6, TsSameSize
  <2>. QED  BY <2>2, <2>7 DEF TsHas, TsAsks
<1>14. k \in 0..(k + m)
  BY <1>1
<1>15. TsOrder(q, s.asked)
  BY <1>3, <1>9, <1>11, <1>12, <1>13, <1>14 DEF TsOrder, Ts!Target, e, k
<1>16. ASSUME s.asked # {}, Ts!Accepted(s) PROVE q # <<>>
  <2>1. PICK n \in s.asked : TsParsed[n] \in TsPhone \cup TsExtension
    BY <1>16 DEF Ts!Accepted, Ts!Target
  <2>2. 1..(k + m) # {}
    <3>1. CASE TsParsed[n] \in TsExtension
      BY <1>6, <1>10, <2>1, <3>1
    <3>2. CASE TsParsed[n] \in TsPhone
      <4>1. PICK i \in 1..m : o[i] = n
        BY <1>3, <1>6, <2>1, <3>2
      <4>. QED  BY <1>1, <4>1
    <3>. QED  BY <2>1, <3>1, <3>2
  <2>. QED  BY <1>3, <2>2
<1>. QED  BY <1>15, <1>16

--------------------
(* What the requests that were made tell. *)

\* The places of a part are places of the order.
LEMMA TsPartPlaces ==
  ASSUME NEW sent \in Seq(Ts!Target), NEW rest \in Seq(Ts!Target), NEW q \in Seq(Ts!Target),
         TsAlong(sent, rest, q), NEW t
  PROVE  /\ TsPlaces(sent, t) = {i \in TsPlaces(q, t) : i <= Len(sent)}
         /\ IsFiniteSet(TsPlaces(q, t)) /\ IsFiniteSet(TsPlaces(sent, t))
         /\ TsHas(sent, t) <= TsHas(q, t)
         /\ TsHas(sent, t) > 0 => \E i \in 1..Len(sent) : q[i] = t
<1>1. /\ DOMAIN sent = 1..Len(sent) /\ DOMAIN q = 1..Len(q)
      /\ Len(sent) \in Nat /\ Len(q) \in Nat /\ Len(rest) \in Nat
  OBVIOUS
<1>2. Len(sent) <= Len(q) /\ \A i \in 1..Len(sent) : sent[i] = q[i]
  BY <1>1 DEF TsAlong
<1>3. TsPlaces(sent, t) = {i \in TsPlaces(q, t) : i <= Len(sent)}
  BY <1>1, <1>2 DEF TsPlaces
<1>4. IsFiniteSet(TsPlaces(q, t))
  <2>1. IsFiniteSet(1..Len(q))
    BY <1>1, FS_Interval
  <2>. QED  BY <1>1, <2>1, FS_Subset DEF TsPlaces
<1>5. IsFiniteSet(TsPlaces(sent, t)) /\ TsHas(sent, t) <= TsHas(q, t)
  BY <1>3, <1>4, FS_Subset DEF TsHas
<1>6. ASSUME TsHas(sent, t) > 0 PROVE \E i \in 1..Len(sent) : q[i] = t
  <2>1. TsPlaces(sent, t) # {}
    BY <1>5, <1>6, FS_EmptySet DEF TsHas
  <2>. QED  BY <1>1, <1>2, <2>1 DEF TsPlaces
<1>. QED  BY <1>3, <1>4, <1>5, <1>6

\* Of the requests of a send that ends, whatever comes of it.
LEMMA TsSentTells ==
  ASSUME TsBounds, NEW aims, NEW sender,
         NEW sent \in Seq(Ts!Target), NEW rest \in Seq(Ts!Target), NEW q \in Seq(Ts!Target),
         TsOrder(q, aims), TsAlong(sent, rest, q), \A n \in aims : TsParsed[n] \in Ts!Target,
         (\E n \in aims : TsParsed[n] \in TsPhone) => sender,
         NEW result, result \in {"error"} \/ (result = "responses" /\ rest = <<>>)
  PROVE  TsTells([asked |-> aims, validSender |-> sender, sent |-> sent, result |-> result])
<1>. DEFINE k == Cardinality(TsExtensions(aims))
<1>1. /\ \A i \in 1..Len(q) : q[i] \in TsExtension <=> i <= k
      /\ \A t \in Ts!Target : TsHas(q, t) = TsAsks(aims, t)
      /\ \A i \in 1..Len(q) : q[i] \in TsPhone => \E n \in aims : TsParsed[n] \in TsPhone
      /\ k \in Int
  BY DEF TsOrder
<1>. HIDE DEF k
<1>2. Len(sent) <= Len(q) /\ Len(sent) \in Nat /\ Len(q) \in Nat /\ DOMAIN q = 1..Len(q)
  BY DEF TsAlong
<1>3. ASSUME result = "responses", NEW t \in Ts!Target PROVE TsHas(sent, t) = TsAsks(aims, t)
  <2>1. rest = <<>>
    BY <1>3
  <2>2. Len(sent) = Len(q)
    BY <2>1 DEF TsAlong
  <2>3. TsPlaces(sent, t) = TsPlaces(q, t)
    <3>1. TsPlaces(sent, t) = {i \in TsPlaces(q, t) : i <= Len(sent)}
      BY TsPartPlaces
    <3>2. \A i \in TsPlaces(q, t) : i <= Len(sent)
      BY <1>2, <2>2 DEF TsPlaces
    <3>. QED  BY <3>1, <3>2
  <2>. QED  BY <1>1, <2>3 DEF TsHas
<1>4. \A t \in Ts!Target : TsHas(sent, t) <= TsAsks(aims, t)
  <2>1. \A t : TsHas(sent, t) <= TsHas(q, t)
    BY TsPartPlaces
  <2>. QED  BY <1>1, <2>1
<1>5. ASSUME NEW t \in TsPhone, TsHas(sent, t) > 0
      PROVE  sender /\ \A u \in TsExtension : TsHas(sent, u) = TsAsks(aims, u)
  <2>1. PICK i \in 1..Len(sent) : q[i] = t
    BY <1>5, TsPartPlaces
  <2>2. i \in 1..Len(q) /\ q[i] \notin TsExtension /\ q[i] \in TsPhone
    BY <1>2, <2>1 DEF TsBounds
  <2>3. k < Len(sent)
    BY <1>1, <1>2, <2>2
  <2>4. ASSUME NEW u \in TsExtension PROVE TsHas(sent, u) = TsAsks(aims, u)
    <3>1. \A j \in TsPlaces(q, u) : j <= Len(sent)
      BY <1>1, <1>2, <2>3 DEF TsPlaces
    <3>2. TsPlaces(sent, u) = {j \in TsPlaces(q, u) : j <= Len(sent)}
      BY TsPartPlaces
    <3>3. TsPlaces(sent, u) = TsPlaces(q, u)
      BY <3>1, <3>2
    <3>. QED  BY <1>1, <3>3 DEF TsHas, Ts!Target
  <2>. QED  BY <1>1, <2>2, <2>4
<1>. QED  BY <1>3, <1>4, <1>5 DEF TsTells

LEMMA TsNothingTells ==
  ASSUME NEW aims, NEW sender, NEW result, result \in {"null"} \/ (result = "error" /\ TsBounds /\ aims \in SUBSET TsNumber)
  PROVE  TsTells([asked |-> aims, validSender |-> sender, sent |-> <<>>, result |-> result])
<1>1. \A t : TsHas(<<>>, t) = 0
  BY FS_EmptySet DEF TsHas, TsPlaces
<1>2. ASSUME TsBounds, aims \in SUBSET TsNumber, NEW t PROVE 0 <= TsAsks(aims, t)
  <2>1. /\ IsFiniteSet({TsParsed[n] : n \in aims} \cap {t})
        /\ IsFiniteSet({n \in aims : TsParsed[n] = t})
    BY <1>2, TsAskedFinite, FS_Intersection
  <2>. QED  BY <2>1, FS_CardinalityType DEF TsAsks
<1>. QED  BY <1>1, <1>2 DEF TsTells

--------------------
(* The form. *)

TsText == {"ok", "textEmpty", "textTooLong"}

LEMMA TsEditKeeps ==
  ASSUME TsBounds, TsIInv, Ts!Edit, toNumbers' \in Seq(Ts!Recipient), typingToNumber' \in SUBSET TsNumber,
         text' \in TsText, validSender' \in BOOLEAN
  PROVE  TsIInv'
<1>1. UNCHANGED <<sendStatus, sends, last>> /\ edits' = edits + 1 /\ edits < TsMaxEdits
  BY DEF Ts!Edit
<1>2. edits' \in 0..TsMaxEdits
  <2>1. edits \in 0..TsMaxEdits /\ TsMaxEdits \in Nat
    BY DEF TsIInv, Ts!TypeOK, TsBounds
  <2>. QED  BY <1>1, <2>1
<1>3. Ts!TypeOK'
  BY <1>1, <1>2 DEF TsIInv, Ts!TypeOK, TsText
<1>. QED  BY <1>1, <1>3 DEF TsIInv, TsIdle

LEMMA TsAddToNumberKeeps ==
  ASSUME TsBounds, TsIInv, NEW r \in Ts!Recipient, NEW clean \in BOOLEAN, Ts!AddToNumber(r, clean)
  PROVE  TsIInv'
<1>1. toNumbers \in Seq(Ts!Recipient) /\ typingToNumber \in SUBSET TsNumber /\ text \in TsText /\ validSender \in BOOLEAN
  BY DEF TsIInv, Ts!TypeOK, TsText
<1>2. Ts!Added(r) \in Seq(Ts!Recipient)
  <2>. DEFINE same == {i \in DOMAIN toNumbers :
                         \/ r.id # "none" /\ toNumbers[i].id = r.id
                         \/ toNumbers[i].number = r.number}
              at   == CHOOSE i \in same : \A j \in same : i <= j
  <2>1. Ts!Added(r) = IF same = {} THEN Append(toNumbers, r)
                      ELSE IF r.id = "none" THEN toNumbers ELSE [toNumbers EXCEPT ![at] = r]
    BY DEF Ts!Added
  <2>. HIDE DEF same, at
  <2>2. [toNumbers EXCEPT ![at] = r] \in Seq(Ts!Recipient)
    <3>1. toNumbers \in [1..Len(toNumbers) -> Ts!Recipient] /\ Len(toNumbers) \in Nat
      BY <1>1
    <3>2. [toNumbers EXCEPT ![at] = r] \in [1..Len(toNumbers) -> Ts!Recipient]
      BY <3>1
    <3>. QED  BY <3>1, <3>2
  <2>. QED  BY <1>1, <2>1, <2>2
<1>3. Ts!Edit /\ UNCHANGED <<text, validSender>> /\ toNumbers' = Ts!Added(r)
  BY DEF Ts!AddToNumber
<1>4. typingToNumber' \in SUBSET TsNumber
  BY <1>1 DEF Ts!AddToNumber
<1>. QED  BY <1>1, <1>2, <1>3, <1>4, TsEditKeeps

LEMMA TsRemoveToNumberKeeps ==
  ASSUME TsBounds, TsIInv, NEW r \in Ts!Range(toNumbers), Ts!RemoveToNumber(r)
  PROVE  TsIInv'
<1>1. toNumbers \in Seq(Ts!Recipient) /\ typingToNumber \in SUBSET TsNumber /\ text \in TsText /\ validSender \in BOOLEAN
  BY DEF TsIInv, Ts!TypeOK, TsText
<1>. DEFINE others == {i \in DOMAIN toNumbers : toNumbers[i].number # r.number}
            n    == Cardinality(others)
<1>2. n \in Nat
  <2>1. IsFiniteSet(DOMAIN toNumbers)
    BY <1>1, FS_Interval
  <2>. QED  BY <2>1, FS_Subset, FS_CardinalityType
<1>3. PICK place \in [1..n -> others] : toNumbers' = [i \in 1..n |-> toNumbers[place[i]]]
  BY TsCardinality DEF Ts!RemoveToNumber
<1>. HIDE DEF n
<1>4. \A i \in 1..n : toNumbers[place[i]] \in Ts!Recipient
  BY <1>1, <1>3
<1>5. toNumbers' \in Seq(Ts!Recipient)
  BY <1>2, <1>3, <1>4
<1>6. Ts!Edit /\ UNCHANGED <<typingToNumber, text, validSender>>
  BY DEF Ts!RemoveToNumber
<1>. QED  BY <1>1, <1>5, <1>6, TsEditKeeps

LEMMA TsFormKeeps ==
  ASSUME TsBounds, TsIInv,
         \/ \E n \in TsNumber : Ts!UpdateTypingToNumber(n)
         \/ Ts!UpdateMessageText \/ Ts!UpdateSenderNumber \/ Ts!Clean
  PROVE  TsIInv'
<1>1. toNumbers \in Seq(Ts!Recipient) /\ typingToNumber \in SUBSET TsNumber /\ text \in TsText /\ validSender \in BOOLEAN
  BY DEF TsIInv, Ts!TypeOK, TsText
<1>2. /\ Ts!Edit /\ typingToNumber' \in SUBSET TsNumber /\ text' \in TsText /\ validSender' \in BOOLEAN
      /\ toNumbers' = toNumbers \/ toNumbers' = <<>>
  BY <1>1 DEF Ts!UpdateTypingToNumber, Ts!UpdateMessageText, Ts!UpdateSenderNumber, Ts!Clean, TsText
<1>3. toNumbers' \in Seq(Ts!Recipient)
  <2>1. <<>> \in Seq(Ts!Recipient)
    OBVIOUS
  <2>. QED  BY <1>1, <1>2, <2>1
<1>. QED  BY <1>2, <1>3, TsEditKeeps

--------------------
(* A send begins. *)

LEMMA TsNewSendType ==
  ASSUME TsBounds, TsIInv, Cardinality(sends) < TsMaxSends, NEW aims \in SUBSET TsNumber, NEW sender \in BOOLEAN
  PROVE  LET s == Ts!NewSend(aims, sender) IN
         s \in Ts!Send /\ s.asked = aims /\ s.at = "parser" /\ s.sent = <<>>
<1>. DEFINE Ns == {s.n : s \in sends}
            of == [s \in sends |-> s.n]
            n  == CHOOSE i \in 1..TsMaxSends : \A s \in sends : s.n # i
<1>1. IsFiniteSet(sends) /\ Cardinality(sends) \in Nat /\ TsMaxSends \in Nat
  BY FS_CardinalityType DEF TsIInv, TsBounds
<1>2. IsFiniteSet(Ns) /\ Cardinality(Ns) <= Cardinality(sends)
  <2>1. of \in Surjection(sends, Ns)
    BY DEF Surjection
  <2>. QED  BY <1>1, <2>1, FS_Surjection
<1>3. Cardinality(Ns) \in Nat /\ Cardinality(1..TsMaxSends) = TsMaxSends
  <2>1. Cardinality(Ns) \in Nat
    BY <1>2, FS_CardinalityType
  <2>2. Cardinality(1..TsMaxSends) = IF 1 > TsMaxSends THEN 0 ELSE TsMaxSends - 1 + 1
    BY <1>1, FS_Interval
  <2>. QED  BY <1>1, <2>1, <2>2
<1>4. ~(1..TsMaxSends \subseteq Ns)
  <2>. SUFFICES ASSUME 1..TsMaxSends \subseteq Ns PROVE FALSE
    OBVIOUS
  <2>1. Cardinality(1..TsMaxSends) <= Cardinality(Ns)
    BY <1>2, FS_Subset
  <2>. QED  BY <1>1, <1>2, <1>3, <2>1
<1>5. \E i \in 1..TsMaxSends : \A s \in sends : s.n # i
  BY <1>4
<1>6. n \in 1..TsMaxSends
  BY <1>5
<1>7. Ts!NewSend(aims, sender) =
        [n |-> n, at |-> "parser", asked |-> aims, validSender |-> sender, rest |-> <<>>, sent |-> <<>>]
  BY DEF Ts!NewSend
<1>. HIDE DEF n
<1>8. <<>> \in Seq(Ts!Target)
  OBVIOUS
<1>. QED  BY <1>6, <1>7, <1>8 DEF Ts!Send

LEMMA TsNullTells ==
  ASSUME NEW s, s.sent = <<>>, Ts!Ends(s, "null"), NEW S \in SUBSET TsNumber, s.asked = S,
         s.validSender \in BOOLEAN
  PROVE  last' \in Ts!Outcome /\ TsTells(last')
<1>1. last' = [asked |-> s.asked, validSender |-> s.validSender, sent |-> <<>>, result |-> "null"]
  BY DEF Ts!Ends
<1>2. <<>> \in Seq(Ts!Target)
  OBVIOUS
<1>. QED  BY <1>1, <1>2, TsNothingTells DEF Ts!Outcome

\* A send is added, or none.
LEMMA TsBeginsKeeps ==
  ASSUME TsBounds, TsIInv, NEW aims \in SUBSET TsNumber, NEW sender \in BOOLEAN, NEW body,
         Ts!Begins(aims, sender, body), UNCHANGED <<Ts!form, edits>>
  PROVE  TsIInv'
<1>. DEFINE s == Ts!NewSend(aims, sender)
<1>1. Cardinality(sends) < TsMaxSends
  BY TsCardinality DEF Ts!Begins
<1>2. s \in Ts!Send /\ s.asked = aims /\ s.at = "parser" /\ s.sent = <<>> /\ s.validSender \in BOOLEAN
  BY <1>1, TsNewSendType DEF Ts!Send
<1>. HIDE DEF s
<1>3. UNCHANGED <<toNumbers, typingToNumber, text, validSender, edits>>
  BY DEF Ts!form
<1>4. CASE Ts!Ends(s, "null") /\ sends' = sends /\ sendStatus' \in {"idle", sendStatus}
  <2>1. last' \in Ts!Outcome /\ TsTells(last')
    BY <1>2, <1>4, TsNullTells
  <2>2. Ts!TypeOK'
    BY <1>3, <1>4, <2>1 DEF TsIInv, Ts!TypeOK
  <2>. QED  BY <1>4, <2>1, <2>2 DEF TsIInv, TsIdle
<1>5. CASE aims # {} /\ sendStatus' = "validating" /\ sends' = sends \cup {s} /\ last' = last
  <2>1. TsSendFits(s)
    BY <1>2, <1>5 DEF TsSendFits
  <2>2. Ts!TypeOK'
    BY <1>2, <1>3, <1>5 DEF TsIInv, Ts!TypeOK
  <2>3. IsFiniteSet(sends')
    BY <1>5, FS_AddElement DEF TsIInv
  <2>. QED  BY <1>5, <2>1, <2>2, <2>3 DEF TsIInv, TsIdle
<1>. QED  BY <1>4, <1>5 DEF Ts!Begins, s

LEMMA TsSendComposedKeeps == ASSUME TsBounds, TsIInv, Ts!SendComposed PROVE TsIInv'
<1>1. Ts!Numbers(toNumbers) \cup typingToNumber \in SUBSET TsNumber /\ validSender \in BOOLEAN
  <2>1. toNumbers \in Seq(Ts!Recipient) /\ typingToNumber \in SUBSET TsNumber /\ validSender \in BOOLEAN
    BY DEF TsIInv, Ts!TypeOK
  <2>2. \A i \in DOMAIN toNumbers : toNumbers[i].number \in TsNumber
    <3>1. \A i \in DOMAIN toNumbers : toNumbers[i] \in Ts!Recipient
      BY <2>1
    <3>. QED  BY <3>1 DEF Ts!Recipient
  <2>3. Ts!Numbers(toNumbers) \subseteq TsNumber
    BY <2>2 DEF Ts!Numbers, Ts!Range
  <2>. QED  BY <2>1, <2>3
<1>. QED  BY <1>1, TsBeginsKeeps DEF Ts!SendComposed

LEMMA TsSendReplyKeeps == ASSUME TsBounds, TsIInv, Ts!SendReply PROVE TsIInv'
  BY TsBeginsKeeps DEF Ts!SendReply, TsBounds

--------------------
(* A send goes on. *)

LEMMA TsSendType ==
  ASSUME TsIInv, NEW s \in sends
  PROVE  /\ s \in Ts!Send /\ s.asked \in SUBSET TsNumber /\ s.validSender \in BOOLEAN
         /\ s.at \in {"parser", "pager", "sms"}
         /\ s.sent \in Seq(Ts!Target) /\ s.rest \in Seq(Ts!Target) /\ TsSendFits(s)
  BY DEF TsIInv, Ts!TypeOK, Ts!Send

\* A send ends.
LEMMA TsEndKeeps ==
  ASSUME TsBounds, TsIInv, NEW s \in sends, sends' = sends \ {s}, sendStatus' = "idle",
         last' \in Ts!Outcome, TsTells(last'), UNCHANGED <<Ts!form, edits>>
  PROVE  TsIInv'
<1>1. Ts!TypeOK'
  BY DEF TsIInv, Ts!TypeOK, Ts!form
<1>2. IsFiniteSet(sends')
  BY FS_RemoveElement DEF TsIInv
<1>. QED  BY <1>1, <1>2 DEF TsIInv, TsIdle

\* Or another state of it takes its place.
LEMMA TsGoOnKeeps ==
  ASSUME TsBounds, TsIInv, NEW s \in sends, NEW next \in Ts!Send, TsSendFits(next),
         sends' = (sends \ {s}) \cup {next}, sendStatus' \in {"sending", sendStatus}, last' = last,
         UNCHANGED <<Ts!form, edits>>
  PROVE  TsIInv'
<1>1. Ts!TypeOK'
  BY DEF TsIInv, Ts!TypeOK, Ts!form
<1>2. IsFiniteSet(sends')
  BY FS_RemoveElement, FS_AddElement DEF TsIInv
<1>. QED  BY <1>1, <1>2 DEF TsIInv, TsIdle

LEMMA TsNumbersParsedKeeps ==
  ASSUME TsBounds, TsIInv, NEW s \in sends, Ts!NumbersParsed(s)
  PROVE  TsIInv'
<1>0. s.at = "parser" /\ UNCHANGED <<Ts!form, edits>> /\ s.sent = <<>> /\ s.asked # {}
  BY TsSendType DEF Ts!NumbersParsed, TsSendFits
<1>1. CASE Ts!Accepted(s)
  <2>. DEFINE at == IF \E n \in s.asked : TsParsed[n] \in TsExtension THEN "pager" ELSE "sms"
  <2>1. PICK order \in Ts!Orders(s) :
          sends' = (sends \ {s}) \cup {[s EXCEPT !.rest = order, !.at = at]}
    BY <1>1 DEF Ts!NumbersParsed
  <2>2. TsOrder(order, s.asked) /\ order # <<>> /\ order \in Seq(Ts!Target)
    BY <1>0, <1>1, TsSendType, TsOrderFits DEF TsOrder
  <2>. DEFINE next == [s EXCEPT !.rest = order, !.at = at]
  <2>3. at \in {"pager", "sms"}
    OBVIOUS
  <2>4. at = "sms" => TsExtensions(s.asked) = {}
    BY DEF TsExtensions
  <2>. HIDE DEF at
  <2>5. /\ next \in Ts!Send /\ next.asked = s.asked /\ next.validSender = s.validSender
        /\ next.sent = <<>> /\ next.rest = order /\ next.at = at
    BY <1>0, <2>2, <2>3, TsSendType DEF Ts!Send
  <2>. HIDE DEF next
  <2>6. Ts!Accepted(next)
    BY <1>1, <2>5 DEF Ts!Accepted
  <2>7. TsAlong(<<>>, order, order)
    BY <2>2 DEF TsAlong
  <2>8. at = "sms" => Cardinality(TsExtensions(s.asked)) <= 0
    BY <2>4, FS_EmptySet
  <2>9. TsSendFits(next)
    <3>1. next.at # "parser" /\ next.asked # {}
      BY <1>0, <2>3, <2>5
    <3>2. Len(next.sent) = 0
      BY <2>5
    <3>. QED  BY <2>2, <2>5, <2>6, <2>7, <2>8, <3>1, <3>2 DEF TsSendFits
  <2>. QED  BY <1>0, <1>1, <2>1, <2>5, <2>9, TsGoOnKeeps DEF Ts!NumbersParsed, next
<1>2. CASE ~Ts!Accepted(s)
  <2>1. Ts!Ends(s, "null") /\ sends' = sends \ {s} /\ sendStatus' = "idle"
    BY <1>2 DEF Ts!NumbersParsed
  <2>2. last' \in Ts!Outcome /\ TsTells(last')
    BY <1>0, <2>1, TsSendType, TsNullTells
  <2>. QED  BY <1>0, <2>1, <2>2, TsEndKeeps
<1>. QED  BY <1>1, <1>2

\* k requests more.
LEMMA TsAlongGoesOn ==
  ASSUME NEW sent \in Seq(Ts!Target), NEW rest \in Seq(Ts!Target), NEW q \in Seq(Ts!Target),
         TsAlong(sent, rest, q), NEW k \in 0..Len(rest)
  PROVE  LET more == sent \o SubSeq(rest, 1, k)
             left == SubSeq(rest, k + 1, Len(rest))
         IN /\ more \in Seq(Ts!Target) /\ left \in Seq(Ts!Target)
            /\ Len(more) = Len(sent) + k
            /\ TsAlong(more, left, q)
<1>. DEFINE first == SubSeq(rest, 1, k)
            more  == sent \o first
            left  == SubSeq(rest, k + 1, Len(rest))
<1>1. Len(rest) \in Nat /\ Len(sent) \in Nat /\ k \in Nat /\ k <= Len(rest)
  OBVIOUS
<1>2. /\ first \in Seq(Ts!Target) /\ Len(first) = k
      /\ \A i \in 1..k : first[i] = rest[i]
  <2>1. \A i \in 1..k : rest[i] \in Ts!Target
    BY <1>1
  <2>2. /\ first \in Seq(Ts!Target) /\ Len(first) = IF 1 <= k THEN k - 1 + 1 ELSE 0
        /\ \A i \in 1..(k - 1 + 1) : first[i] = rest[1 + i - 1]
    BY <1>1, <2>1, SubSeqProperties
  <2>3. k - 1 + 1 = k /\ \A i \in 1..k : 1 + i - 1 = i
    BY <1>1
  <2>4. ASSUME NEW i \in 1..k PROVE first[i] = rest[i]
    BY <2>2, <2>3
  <2>. QED  BY <1>1, <2>2, <2>3, <2>4
<1>3. /\ left \in Seq(Ts!Target) /\ Len(left) = Len(rest) - k
      /\ \A i \in 1..(Len(rest) - k) : left[i] = rest[k + i]
  <2>1. \A i \in (k + 1)..Len(rest) : rest[i] \in Ts!Target
    BY <1>1
  <2>2. /\ left \in Seq(Ts!Target)
        /\ Len(left) = IF k + 1 <= Len(rest) THEN Len(rest) - (k + 1) + 1 ELSE 0
        /\ \A i \in 1..(Len(rest) - (k + 1) + 1) : left[i] = rest[k + 1 + i - 1]
    BY <1>1, <2>1, SubSeqProperties
  <2>3. Len(rest) - (k + 1) + 1 = Len(rest) - k /\ \A i \in 1..(Len(rest) - k) : k + 1 + i - 1 = k + i
    BY <1>1
  <2>4. ASSUME NEW i \in 1..(Len(rest) - k) PROVE left[i] = rest[k + i]
    BY <2>2, <2>3
  <2>5. (IF k + 1 <= Len(rest) THEN Len(rest) - (k + 1) + 1 ELSE 0) = Len(rest) - k
    BY <1>1
  <2>. QED  BY <2>2, <2>4, <2>5
<1>. HIDE DEF first, left
<1>4. /\ more \in Seq(Ts!Target) /\ Len(more) = Len(sent) + k
      /\ \A i \in 1..(Len(sent) + k) : more[i] = IF i <= Len(sent) THEN sent[i] ELSE first[i - Len(sent)]
  BY <1>2, ConcatProperties
<1>. HIDE DEF more
<1>5. /\ Len(sent) + Len(rest) = Len(q)
      /\ \A i \in 1..Len(sent) : sent[i] = q[i]
      /\ \A i \in 1..Len(rest) : rest[i] = q[Len(sent) + i]
  BY DEF TsAlong
<1>6. ASSUME NEW i \in 1..(Len(sent) + k) PROVE more[i] = q[i]
  <2>1. CASE i <= Len(sent)
    <3>1. i \in 1..Len(sent)
      BY <1>1, <2>1
    <3>2. more[i] = sent[i]
      BY <1>4, <2>1
    <3>. QED  BY <1>5, <3>1, <3>2
  <2>2. CASE ~(i <= Len(sent))
    <3>1. i - Len(sent) \in 1..k /\ i - Len(sent) \in 1..Len(rest) /\ Len(sent) + (i - Len(sent)) = i
      BY <1>1, <2>2
    <3>2. more[i] = rest[i - Len(sent)]
      BY <1>2, <1>4, <2>2, <3>1
    <3>3. rest[i - Len(sent)] = q[Len(sent) + (i - Len(sent))]
      BY <1>5, <3>1
    <3>. QED  BY <3>1, <3>2, <3>3
  <2>. QED  BY <2>1, <2>2
<1>7. ASSUME NEW i \in 1..Len(left) PROVE left[i] = q[Len(more) + i]
  <2>1. k + i \in 1..Len(rest) /\ Len(sent) + (k + i) = Len(more) + i /\ i \in 1..(Len(rest) - k)
    BY <1>1, <1>3, <1>4
  <2>2. rest[k + i] = q[Len(sent) + (k + i)]
    BY <1>5, <2>1
  <2>. QED  BY <1>3, <2>1, <2>2
<1>8. TsAlong(more, left, q)
  <2>3. Len(more) = Len(sent) + k /\ Len(left) = Len(rest) - k /\ Len(q) = Len(sent) + Len(rest)
    BY <1>3, <1>4, <1>5
  <2>1. Len(more) + Len(left) = Len(q)
    BY <1>1, <2>3
  <2>2. \A i \in 1..Len(more) : more[i] = q[i]
    BY <1>4, <1>6
  <2>. QED  BY <1>7, <2>1, <2>2 DEF TsAlong
<1>. QED  BY <1>3, <1>4, <1>8 DEF more, left, first

LEMMA TsEndedTells ==
  ASSUME TsBounds, NEW s, s.asked \in SUBSET TsNumber, s.validSender \in BOOLEAN, Ts!Accepted(s),
         NEW sent \in Seq(Ts!Target), NEW rest \in Seq(Ts!Target), NEW q \in Seq(Ts!Target),
         TsOrder(q, s.asked), TsAlong(sent, rest, q),
         NEW result, result \in {"error"} \/ (result = "responses" /\ rest = <<>>),
         last' = [asked |-> s.asked, validSender |-> s.validSender, sent |-> sent, result |-> result]
  PROVE  last' \in Ts!Outcome /\ TsTells(last')
<1>1. /\ \A n \in s.asked : TsParsed[n] \in Ts!Target
      /\ (\E n \in s.asked : TsParsed[n] \in TsPhone) => s.validSender
  BY DEF Ts!Accepted
<1>2. TsTells(last')
  BY <1>1, TsSentTells
<1>3. result \in {"responses", "null", "error"}
  OBVIOUS
<1>. QED  BY <1>2, <1>3 DEF Ts!Outcome

LEMMA TsSentKeeps ==
  ASSUME TsBounds, TsIInv, NEW s \in sends, Ts!Sent(s)
  PROVE  TsIInv'
<1>0. /\ s.at \in {"pager", "sms"} /\ UNCHANGED <<Ts!form, edits>> /\ s.asked # {}
      /\ Ts!Accepted(s) /\ s.rest # <<>>
  BY TsSendType DEF Ts!Sent, TsSendFits
<1>1. /\ s \in Ts!Send /\ s.asked \in SUBSET TsNumber /\ s.validSender \in BOOLEAN
      /\ s.sent \in Seq(Ts!Target) /\ s.rest \in Seq(Ts!Target)
  BY TsSendType
<1>2. PICK q \in Seq(Ts!Target) :
        /\ TsOrder(q, s.asked) /\ TsAlong(s.sent, s.rest, q)
        /\ s.at = "pager" => s.sent = <<>>
        /\ s.at = "sms" => Cardinality(TsExtensions(s.asked)) <= Len(s.sent)
  BY <1>0, TsSendType DEF TsSendFits
<1>. DEFINE k == Ts!Addressed(s)
            e == Cardinality(TsExtensions(s.asked))
            more == s.sent \o SubSeq(s.rest, 1, k)
            left == SubSeq(s.rest, k + 1, Len(s.rest))
            next == [s EXCEPT !.at = "sms", !.sent = more, !.rest = left]
<1>3. e \in Nat /\ Len(s.sent) \in Nat /\ Len(s.rest) \in Nat
  BY <1>1, TsSizes
\* The one request for all extensions is for those asked for.
<1>4. k \in 0..Len(s.rest) /\ e <= Len(s.sent) + k
  <2>1. CASE s.at = "pager"
    <3>1. Len(s.sent) = 0 /\ Len(s.rest) = Len(q) /\ \A i \in 1..Len(s.rest) : s.rest[i] = q[i]
      <4>1. Len(s.sent) = 0
        BY <1>2, <2>1
      <4>. QED  BY <1>2, <1>3, <4>1 DEF TsAlong
    <3>2. Ts!Range(s.rest) = {q[i] : i \in 1..Len(q)}
      <4>1. DOMAIN s.rest = 1..Len(s.rest)
        BY <1>1
      <4>. QED  BY <3>1, <4>1 DEF Ts!Range
    <3>3. {q[i] : i \in 1..Len(q)} \cap TsExtension = TsExtensions(s.asked) /\ e \in 0..Len(q)
      BY <1>2 DEF TsOrder
    <3>4. k = e
      BY <2>1, <3>2, <3>3, TsCardinality DEF Ts!Addressed
    <3>. QED  BY <1>3, <3>1, <3>3, <3>4
  <2>2. CASE s.at = "sms"
    <3>1. k = 1
      BY <2>2 DEF Ts!Addressed
    <3>2. Len(s.rest) # 0
      BY <1>0, <1>1
    <3>3. e <= Len(s.sent)
      BY <1>2, <2>2
    <3>. QED  BY <1>3, <3>1, <3>2, <3>3
  <2>. QED  BY <1>0, <2>1, <2>2
<1>5. /\ IF next.rest = <<>>
         THEN sends' = sends \ {s} /\ sendStatus' = "idle" /\ Ts!Ends(next, "responses")
         ELSE sends' = (sends \ {s}) \cup {next} /\ UNCHANGED <<sendStatus, last>>
  BY DEF Ts!Sent
<1>. HIDE DEF k, e
<1>6. /\ more \in Seq(Ts!Target) /\ left \in Seq(Ts!Target)
      /\ Len(more) = Len(s.sent) + k /\ TsAlong(more, left, q)
  BY <1>1, <1>2, <1>4, TsAlongGoesOn
<1>. HIDE DEF more, left
<1>7. /\ next \in Ts!Send /\ next.asked = s.asked /\ next.validSender = s.validSender
      /\ next.sent = more /\ next.rest = left /\ next.at = "sms"
  BY <1>1, <1>6 DEF Ts!Send
<1>. HIDE DEF next
<1>8. CASE next.rest = <<>>
  <2>1. last' = [asked |-> s.asked, validSender |-> s.validSender, sent |-> more, result |-> "responses"]
    BY <1>5, <1>7, <1>8 DEF Ts!Ends
  <2>2. last' \in Ts!Outcome /\ TsTells(last')
    BY <1>0, <1>1, <1>2, <1>6, <1>7, <1>8, <2>1, TsEndedTells
  <2>. QED  BY <1>0, <1>5, <1>8, <2>2, TsEndKeeps
<1>9. CASE next.rest # <<>>
  <2>1. Ts!Accepted(next)
    BY <1>0, <1>7 DEF Ts!Accepted
  <2>2. e <= Len(more)
    BY <1>4, <1>6
  <2>3. TsOrder(q, next.asked) /\ TsAlong(next.sent, next.rest, q) /\ Cardinality(TsExtensions(next.asked)) <= Len(next.sent)
    BY <1>2, <1>6, <1>7, <2>2 DEF e
  <2>4. next.at # "parser" /\ next.at # "pager" /\ next.asked # {}
    BY <1>0, <1>7
  <2>5. TsSendFits(next)
    BY <1>9, <2>1, <2>3, <2>4 DEF TsSendFits
  <2>. QED  BY <1>0, <1>5, <1>7, <1>9, <2>5, TsGoOnKeeps
<1>. QED  BY <1>8, <1>9

LEMMA TsFailsKeeps ==
  ASSUME TsBounds, TsIInv, NEW s \in sends, Ts!Fails(s)
  PROVE  TsIInv'
<1>0. /\ sends' = sends \ {s} /\ sendStatus' = "idle" /\ UNCHANGED <<Ts!form, edits>>
      /\ last' = [asked |-> s.asked, validSender |-> s.validSender, sent |-> s.sent, result |-> "error"]
  BY DEF Ts!Fails, Ts!Ends
<1>1. /\ s.asked \in SUBSET TsNumber /\ s.validSender \in BOOLEAN
      /\ s.sent \in Seq(Ts!Target) /\ s.rest \in Seq(Ts!Target)
  BY TsSendType
<1>2. CASE s.at = "parser"
  <2>1. s.sent = <<>>
    BY <1>2, TsSendType DEF TsSendFits
  <2>2. TsTells(last')
    BY <1>0, <1>1, <2>1, TsNothingTells
  <2>3. last' \in Ts!Outcome
    BY <1>0, <1>1 DEF Ts!Outcome
  <2>. QED  BY <1>0, <2>2, <2>3, TsEndKeeps
<1>3. CASE s.at # "parser"
  <2>1. PICK q \in Seq(Ts!Target) : Ts!Accepted(s) /\ TsOrder(q, s.asked) /\ TsAlong(s.sent, s.rest, q)
    BY <1>3, TsSendType DEF TsSendFits
  <2>2. last' \in Ts!Outcome /\ TsTells(last')
    BY <1>0, <1>1, <2>1, TsEndedTells
  <2>. QED  BY <1>0, <2>2, TsEndKeeps
<1>. QED  BY <1>2, <1>3

--------------------
(* The invariant. *)

LEMMA TsInitIInv == ASSUME TsBounds PROVE Ts!Init => TsIInv
<1>. SUFFICES ASSUME Ts!Init PROVE TsIInv
  OBVIOUS
<1>1. /\ toNumbers = <<>> /\ typingToNumber = {} /\ text = "textEmpty" /\ validSender \in BOOLEAN
      /\ sendStatus = "idle" /\ sends = {} /\ edits = 0
      /\ last = [asked |-> {}, validSender |-> FALSE, sent |-> <<>>, result |-> "null"]
  BY DEF Ts!Init
<1>2. edits \in 0..TsMaxEdits
  <2>1. TsMaxEdits \in Nat
    BY DEF TsBounds
  <2>. QED  BY <1>1, <2>1
<1>3. <<>> \in Seq(Ts!Recipient) /\ <<>> \in Seq(Ts!Target)
  OBVIOUS
<1>4. Ts!TypeOK
  BY <1>1, <1>2, <1>3 DEF Ts!TypeOK, Ts!Outcome
<1>5. TsTells(last)
  BY <1>1, TsNothingTells
<1>6. IsFiniteSet(sends)
  BY <1>1, FS_EmptySet
<1>. QED  BY <1>1, <1>4, <1>5, <1>6 DEF TsIInv, TsIdle

LEMMA TsNextIInv == ASSUME TsBounds PROVE TsIInv /\ [Ts!Next]_(Ts!vars) => TsIInv'
<1>. SUFFICES ASSUME TsIInv, [Ts!Next]_(Ts!vars) PROVE TsIInv'
  OBVIOUS
<1>1. CASE UNCHANGED Ts!vars
  <2>1. UNCHANGED <<toNumbers, typingToNumber, text, validSender, sendStatus, sends, last, edits>>
    BY <1>1 DEF Ts!vars, Ts!form
  <2>. QED  BY <2>1 DEF TsIInv, Ts!TypeOK, TsIdle
<1>2. CASE Ts!Next
  <2>1. CASE \E s \in sends : Ts!NumbersParsed(s) \/ Ts!Sent(s) \/ Ts!Fails(s)
    BY <2>1, TsNumbersParsedKeeps, TsSentKeeps, TsFailsKeeps
  <2>2. CASE \/ \E r \in Ts!Recipient, clean \in BOOLEAN : Ts!AddToNumber(r, clean)
             \/ \E r \in Ts!Range(toNumbers) : Ts!RemoveToNumber(r)
    BY <2>2, TsAddToNumberKeeps, TsRemoveToNumberKeeps
  <2>3. CASE \/ \E n \in TsNumber : Ts!UpdateTypingToNumber(n)
             \/ Ts!UpdateMessageText \/ Ts!UpdateSenderNumber \/ Ts!Clean
    BY <2>3, TsFormKeeps
  <2>. QED  BY <1>2, <2>1, <2>2, <2>3, TsSendComposedKeeps, TsSendReplyKeeps DEF Ts!Next
<1>. QED  BY <1>1, <1>2

\* For any numbers, and however sends overlap and fail: a send tells what was done.
LEMMA TsWhatWasDone == ASSUME TsBounds PROVE TsIInv => Ts!SendTells
  BY TsCardinality DEF TsIInv, TsIdle, TsTells, TsHas, TsPlaces, TsAsks, Ts!SendTells

-----------------------------------------------------------------------------
(***************************************************************************)
(* Proofs about the posts of Glip: for any posts and texts, and however    *)
(* loads, notifications, answers, failures and logouts cross, each post is *)
(* shown once, and shown as sending or failed only if it is.               *)
(***************************************************************************)

GpBounds ==
  /\ GpRecordCount \in Nat /\ GpMaxLogins \in Nat /\ GpMaxEvents \in Nat
  /\ GpTextOf \in [GpPost -> GpText]

GpHas(s, r)  == \E i \in DOMAIN s : s[i] = r
GpOnce(s, r) == \A i, j \in DOMAIN s : s[i] = r /\ s[j] = r => i = j
GpFake(p)  == [post |-> p, sendStatus |-> "creating"]
GpError(p) == [post |-> p, sendStatus |-> "createError"]

\* The server has it, or had it.
GpMade(p) == GpHas(posted, p) \/ p \in removed

\* The server has each post once, tells of posts it had, and answers with those it had.
GpServerFits ==
  /\ \A p \in GpPost : GpOnce(posted, p)
  /\ \A n \in notifications : GpMade(n.post) /\ (n.eventType = "PostRemoved" => ~GpHas(posted, n.post))
  /\ \A l \in loads : \A i \in DOMAIN l.records : \E p \in GpPost : GpMade(p) /\ l.records[i] = Gp!New(p)
  /\ \A l \in loads, p \in GpPost : GpOnce(l.records, Gp!New(p))
  /\ ready => logins # 0

\* A post is created once, and is the server's once that is done.
GpCreatesFit ==
  /\ \A c, d \in creates : c.post = d.post => c = d
  /\ \A c \in creates : IF c.at = "served" THEN GpMade(c.post) /\ c.post \in mine
                        ELSE ~GpMade(c.post)

\* The records: those of posts, those of create with a call under way, and those that failed.
GpRecordsFit ==
  \A p \in GpPost :
    /\ GpHas(posts, Gp!New(p)) => GpMade(p)
    /\ GpHas(posts, GpFake(p)) => Gp!Creating(p)
    /\ GpOnce(posts, GpFake(p))
    /\ Gp!Creating(p) => ~GpHas(posts, GpError(p))

\* What has not raced.
GpNotRaced ==
  \A p \in GpPost \ raced :
    /\ GpOnce(posts, Gp!New(p))
    /\ Gp!Creating(p) => ~GpHas(posts, Gp!New(p))
    /\ GpHas(posts, GpError(p)) => ~GpMade(p)
    /\ loaded /\ GpHas(posted, p) =>
         \/ GpHas(posts, Gp!New(p))
         \/ \E n \in notifications : n.post = p
         \/ Gp!Creating(p)
         \/ p \in older

GpIInv == Gp!TypeOK /\ GpServerFits /\ GpCreatesFit /\ GpRecordsFit /\ GpNotRaced

--------------------
(* Sequences of records. *)

\* Its cardinality is that of the sets here.
LEMMA GpCardinality == ASSUME NEW S PROVE Gp!Cardinality(S) = Cardinality(S)
  BY DEF Gp!Cardinality, Cardinality

LEMMA GpLeastIndex ==
  ASSUME NEW S \in SUBSET Nat, S # {}
  PROVE  (CHOOSE i \in S : \A j \in S : i <= j) \in S
<1>1. PICK i \in S : \A j \in S : <<j, i>> \notin OpToRel(<, Nat)
  BY NatLessThanWellFounded, WFMin
<1>2. \A j \in S : ~(j < i)
  BY <1>1, Zenon DEF OpToRel
<1>3. \A j \in S : i <= j
  BY <1>2
<1>. QED  BY <1>3

LEMMA GpPrepended ==
  ASSUME NEW S, NEW s \in Seq(S), NEW r \in S
  PROVE  /\ <<r>> \o s \in Seq(S)
         /\ GpHas(<<r>> \o s, r)
         /\ \A x : x # r => (GpHas(<<r>> \o s, x) <=> GpHas(s, x)) /\ (GpOnce(s, x) => GpOnce(<<r>> \o s, x))
         /\ ~GpHas(s, r) => GpOnce(<<r>> \o s, r)
<1>. DEFINE t == <<r>> \o s
<1>0. PICK n \in Nat : n = Len(s)
  OBVIOUS
<1>1. t \in Seq(S) /\ Len(t) = n + 1
  BY <1>0
<1>2. DOMAIN s = 1..n /\ DOMAIN t = 1..(n + 1)
  BY <1>0, <1>1
<1>3. t[1] = r /\ \A i \in 1..n : t[i + 1] = s[i]
  BY <1>0
<1>. HIDE DEF t
<1>4. \A i \in 1..(n + 1) : i = 1 \/ (i - 1 \in 1..n /\ t[i] = s[i - 1])
  <2>. SUFFICES ASSUME NEW i \in 1..(n + 1), i # 1 PROVE i - 1 \in 1..n /\ t[i] = s[i - 1]
    OBVIOUS
  <2>1. i - 1 \in 1..n /\ (i - 1) + 1 = i
    OBVIOUS
  <2>. QED  BY <1>3, <2>1
<1>5. \A i \in 1..n : i + 1 \in 1..(n + 1) /\ t[i + 1] = s[i]
  BY <1>3
<1>6. 1 \in 1..(n + 1)
  OBVIOUS
<1>7. ASSUME NEW x, x # r PROVE (GpHas(t, x) <=> GpHas(s, x)) /\ (GpOnce(s, x) => GpOnce(t, x))
  <2>1. ASSUME GpHas(t, x) PROVE GpHas(s, x)
    <3>1. PICK i \in 1..(n + 1) : t[i] = x
      BY <1>2, <2>1 DEF GpHas
    <3>. QED  BY <1>2, <1>3, <1>4, <1>7, <3>1 DEF GpHas
  <2>3. ASSUME GpHas(s, x) PROVE GpHas(t, x)
    <3>1. PICK i \in 1..n : s[i] = x
      BY <1>2, <2>3 DEF GpHas
    <3>. QED  BY <1>2, <1>5, <3>1 DEF GpHas
  <2>2. ASSUME GpOnce(s, x) PROVE GpOnce(t, x)
    <3>. SUFFICES ASSUME NEW i \in 1..(n + 1), NEW j \in 1..(n + 1), t[i] = x, t[j] = x PROVE i = j
      BY <1>2 DEF GpOnce
    <3>1. i - 1 \in 1..n /\ j - 1 \in 1..n /\ s[i - 1] = x /\ s[j - 1] = x
      BY <1>3, <1>4, <1>7
    <3>2. i - 1 = j - 1
      BY <1>2, <2>2, <3>1 DEF GpOnce
    <3>. QED  BY <3>2
  <2>. QED  BY <2>1, <2>2, <2>3
<1>8. ASSUME ~GpHas(s, r) PROVE GpOnce(t, r)
  BY <1>2, <1>4, <1>8 DEF GpOnce, GpHas
<1>. QED  BY <1>1, <1>2, <1>3, <1>6, <1>7, <1>8 DEF GpHas, t

\* A record that replaces the one of another.
LEMMA GpReplaced1 ==
  ASSUME NEW S, NEW s \in Seq(S), NEW r \in S, NEW k \in DOMAIN s
  PROVE  /\ [s EXCEPT ![k] = r] \in Seq(S)
         /\ GpHas([s EXCEPT ![k] = r], r)
         /\ \A x : x # r => /\ GpHas([s EXCEPT ![k] = r], x) => GpHas(s, x)
                            /\ GpOnce(s, x) => GpOnce([s EXCEPT ![k] = r], x)
                            /\ x # s[k] => (GpHas([s EXCEPT ![k] = r], x) <=> GpHas(s, x))
                            /\ x = s[k] /\ GpOnce(s, x) => ~GpHas([s EXCEPT ![k] = r], x)
         /\ ~GpHas(s, r) \/ (s[k] = r /\ GpOnce(s, r)) => GpOnce([s EXCEPT ![k] = r], r)
<1>. DEFINE t == [s EXCEPT ![k] = r]
<1>1. t \in Seq(S)
  OBVIOUS
<1>2. DOMAIN t = DOMAIN s /\ t[k] = r /\ \A i \in DOMAIN s : i # k => t[i] = s[i]
  OBVIOUS
<1>. HIDE DEF t
<1>3. GpHas(t, r)
  BY <1>2 DEF GpHas
<1>4. ASSUME NEW x, x # r
      PROVE  /\ GpHas(t, x) => GpHas(s, x)
             /\ GpOnce(s, x) => GpOnce(t, x)
             /\ x # s[k] => (GpHas(t, x) <=> GpHas(s, x))
             /\ x = s[k] /\ GpOnce(s, x) => ~GpHas(t, x)
  BY <1>2, <1>4 DEF GpHas, GpOnce
<1>5. ~GpHas(s, r) \/ (s[k] = r /\ GpOnce(s, r)) => GpOnce(t, r)
  BY <1>2 DEF GpHas, GpOnce
<1>. QED  BY <1>1, <1>3, <1>4, <1>5 DEF t

\* What the reducer does with a record r that is for the records q.
LEMMA GpPutFits ==
  ASSUME posts \in Seq(Gp!Record), NEW q, NEW r \in Gp!Record, q # r,
         NEW at, at = {i \in DOMAIN posts : posts[i] = q}, NEW s, s = Gp!Put(at, r)
  PROVE  /\ s \in Seq(Gp!Record)
         /\ GpHas(s, r)
         /\ \A x : x # r => /\ GpHas(s, x) => GpHas(posts, x)
                            /\ GpOnce(posts, x) => GpOnce(s, x)
                            /\ x # q => (GpHas(s, x) <=> GpHas(posts, x))
         /\ GpOnce(posts, q) => ~GpHas(s, q)
         /\ ~GpHas(posts, r) => GpOnce(s, r)
<1>1. CASE at = {}
  <2>1. s = <<r>> \o posts
    BY <1>1 DEF Gp!Put
  <2>2. ~GpHas(posts, q)
    BY <1>1 DEF GpHas
  <2>3. <<r>> \o posts \in Seq(Gp!Record) /\ GpHas(<<r>> \o posts, r)
    BY GpPrepended
  <2>4. \A x : x # r => /\ GpHas(<<r>> \o posts, x) <=> GpHas(posts, x)
                        /\ GpOnce(posts, x) => GpOnce(<<r>> \o posts, x)
    BY GpPrepended
  <2>5. ~GpHas(posts, r) => GpOnce(<<r>> \o posts, r)
    BY GpPrepended
  <2>. QED  BY <2>1, <2>2, <2>3, <2>4, <2>5
<1>2. CASE at # {}
  <2>. DEFINE k == CHOOSE i \in at : \A j \in at : i <= j
  <2>1. s = [posts EXCEPT ![k] = r]
    BY <1>2 DEF Gp!Put
  <2>2. at \in SUBSET Nat
    OBVIOUS
  <2>3. k \in at
    BY <1>2, <2>2, GpLeastIndex
  <2>4. k \in DOMAIN posts /\ posts[k] = q
    BY <2>3
  <2>. HIDE DEF k
  <2>. DEFINE t == [posts EXCEPT ![k] = r]
  <2>5. t \in Seq(Gp!Record) /\ GpHas(t, r)
    BY <2>4, GpReplaced1
  <2>6. \A x : x # r => /\ GpHas(t, x) => GpHas(posts, x)
                        /\ GpOnce(posts, x) => GpOnce(t, x)
                        /\ x # q => (GpHas(t, x) <=> GpHas(posts, x))
    BY <2>4, GpReplaced1
  <2>7. GpOnce(posts, q) => ~GpHas(t, q)
    BY <2>4, GpReplaced1
  <2>8. ~GpHas(posts, r) => GpOnce(t, r)
    BY <2>4, GpReplaced1
  <2>. HIDE DEF t
  <2>9. s = t
    BY <2>1 DEF t
  <2>. QED  BY <2>5, <2>6, <2>7, <2>8, <2>9
<1>. QED  BY <1>1, <1>2

\* And with one that is for records like it.
LEMMA GpPutAgainFits ==
  ASSUME posts \in Seq(Gp!Record), NEW r \in Gp!Record,
         NEW at, at = {i \in DOMAIN posts : posts[i] = r}, NEW s, s = Gp!Put(at, r)
  PROVE  /\ s \in Seq(Gp!Record)
         /\ GpHas(s, r)
         /\ \A x : x # r => (GpHas(s, x) <=> GpHas(posts, x)) /\ (GpOnce(posts, x) => GpOnce(s, x))
         /\ GpOnce(posts, r) => GpOnce(s, r)
<1>1. CASE at = {}
  <2>1. s = <<r>> \o posts
    BY <1>1 DEF Gp!Put
  <2>2. ~GpHas(posts, r)
    BY <1>1 DEF GpHas
  <2>3. <<r>> \o posts \in Seq(Gp!Record) /\ GpHas(<<r>> \o posts, r)
    BY GpPrepended
  <2>4. \A x : x # r => /\ GpHas(<<r>> \o posts, x) <=> GpHas(posts, x)
                        /\ GpOnce(posts, x) => GpOnce(<<r>> \o posts, x)
    BY GpPrepended
  <2>5. ~GpHas(posts, r) => GpOnce(<<r>> \o posts, r)
    BY GpPrepended
  <2>. QED  BY <2>1, <2>2, <2>3, <2>4, <2>5
<1>2. CASE at # {}
  <2>. DEFINE k == CHOOSE i \in at : \A j \in at : i <= j
  <2>1. s = [posts EXCEPT ![k] = r]
    BY <1>2 DEF Gp!Put
  <2>2. at \in SUBSET Nat
    OBVIOUS
  <2>3. k \in at
    BY <1>2, <2>2, GpLeastIndex
  <2>4. k \in DOMAIN posts /\ posts[k] = r
    BY <2>3
  <2>. HIDE DEF k
  <2>. DEFINE t == [posts EXCEPT ![k] = r]
  <2>5. t \in Seq(Gp!Record) /\ GpHas(t, r)
    BY <2>4, GpReplaced1
  <2>6. \A x : x # r => (GpHas(t, x) <=> GpHas(posts, x)) /\ (GpOnce(posts, x) => GpOnce(t, x))
    BY <2>4, GpReplaced1
  <2>7. GpOnce(posts, r) => GpOnce(t, r)
    BY <2>4, GpReplaced1
  <2>. HIDE DEF t
  <2>8. s = t
    BY <2>1 DEF t
  <2>. QED  BY <2>5, <2>6, <2>7, <2>8
<1>. QED  BY <1>1, <1>2

LEMMA GpRecordsDiffer ==
  ASSUME NEW p \in GpPost, NEW q \in GpPost
  PROVE  /\ Gp!New(p) \in Gp!Record /\ GpFake(p) \in Gp!Record /\ GpError(p) \in Gp!Record
         /\ Gp!New(p) # GpFake(q) /\ Gp!New(p) # GpError(q) /\ GpFake(p) # GpError(q)
         /\ p # q => Gp!New(p) # Gp!New(q) /\ GpFake(p) # GpFake(q) /\ GpError(p) # GpError(q)
         /\ Gp!New(p).post = p /\ GpFake(p).post = p /\ GpError(p).post = p
  BY DEF Gp!New, GpFake, GpError, Gp!Record

LEMMA GpPostedFits == \A p : p \in Gp!Range(posted) <=> GpHas(posted, p)
  BY DEF Gp!Range, GpHas

LEMMA GpFreshFits ==
  ASSUME NEW p \in GpPost, Gp!Fresh(p)
  PROVE  /\ ~GpMade(p) /\ ~Gp!Creating(p)
         /\ ~GpHas(posts, Gp!New(p)) /\ ~GpHas(posts, GpFake(p)) /\ ~GpHas(posts, GpError(p))
  BY GpPostedFits, GpRecordsDiffer DEF Gp!Fresh, GpHas, GpMade

--------------------
(* The server. *)

LEMMA GpCountedType == ASSUME GpBounds, Gp!TypeOK, Gp!Counted PROVE events' \in 0..GpMaxEvents
<1>1. GpMaxEvents \in Nat /\ events \in 0..GpMaxEvents /\ events < GpMaxEvents /\ events' = events + 1
  BY DEF GpBounds, Gp!TypeOK, Gp!Counted
<1>. QED  BY <1>1

LEMMA GpInitIInv == ASSUME GpBounds PROVE Gp!Init => GpIInv
<1>. SUFFICES ASSUME Gp!Init PROVE GpIInv
  OBVIOUS
<1>0. /\ ready = FALSE /\ logins = 0
      /\ posted = <<>> /\ removed = {} /\ mine = {} /\ notifications = {}
      /\ posts = <<>> /\ input = ""
      /\ fetching = FALSE /\ loads = {} /\ creates = {}
      /\ loaded = FALSE /\ older = {} /\ raced = {} /\ events = 0
  BY DEF Gp!Init
<1>1. Gp!TypeOK
  <2>1. GpMaxLogins \in Nat /\ GpMaxEvents \in Nat
    BY DEF GpBounds
  <2>2. logins = 0 /\ events = 0 /\ posted = <<>> /\ posts = <<>>
    BY DEF Gp!Init
  <2>3. logins \in 0..GpMaxLogins /\ events \in 0..GpMaxEvents
    BY <2>1, <2>2
  <2>4. posted \in Seq(GpPost) /\ posts \in Seq(Gp!Record)
    BY <2>2
  <2>. QED  BY <1>0, <2>3, <2>4 DEF Gp!TypeOK
<1>2. \A x : ~GpHas(posted, x) /\ GpOnce(posted, x) /\ ~GpHas(posts, x) /\ GpOnce(posts, x)
  <2>1. posted = <<>> /\ posts = <<>>
    BY DEF Gp!Init
  <2>2. DOMAIN posted = {} /\ DOMAIN posts = {}
    BY <2>1
  <2>. QED  BY <2>2 DEF GpHas, GpOnce
<1>3. GpServerFits /\ GpCreatesFit
  BY <1>0, <1>2 DEF GpServerFits, GpCreatesFit, GpMade
<1>4. GpRecordsFit /\ GpNotRaced
  BY <1>0, <1>2 DEF GpRecordsFit, GpNotRaced, Gp!Creating, GpMade
<1>. QED  BY <1>1, <1>3, <1>4 DEF GpIInv

\* A post the server did not have.
LEMMA GpAddedFits ==
  ASSUME Gp!TypeOK, GpServerFits, NEW p \in GpPost, Gp!Added(p), ~GpMade(p), UNCHANGED <<loads, ready, logins, removed>>
  PROVE  /\ posted' \in Seq(GpPost) /\ notifications' \subseteq Gp!Notification
         /\ \A q \in GpPost : GpHas(posted', q) <=> GpHas(posted, q) \/ q = p
         /\ \A q \in GpPost : GpMade(q)' <=> GpMade(q) \/ q = p
         /\ GpServerFits'
         /\ notifications \subseteq notifications' /\ \E n \in notifications' : n.post = p
<1>0. /\ posted' = <<p>> \o posted
      /\ notifications' = notifications \cup {[post |-> p, eventType |-> "PostAdded"]}
      /\ UNCHANGED <<loads, ready, logins, removed>>
  BY DEF Gp!Added
<1>1. posted \in Seq(GpPost)
  BY DEF Gp!TypeOK
<1>2. /\ posted' \in Seq(GpPost) /\ GpHas(posted', p) /\ GpOnce(posted', p)
      /\ \A x : x # p => (GpHas(posted', x) <=> GpHas(posted, x)) /\ (GpOnce(posted, x) => GpOnce(posted', x))
  BY <1>0, <1>1, GpPrepended DEF GpMade
<1>. DEFINE m == [post |-> p, eventType |-> "PostAdded"]
<1>3. m \in Gp!Notification /\ m.post = p /\ m.eventType = "PostAdded" /\ notifications' = notifications \cup {m}
  BY <1>0 DEF Gp!Notification
<1>. HIDE DEF m
<1>4. notifications' \subseteq Gp!Notification
  BY <1>3 DEF Gp!TypeOK
<1>5. GpServerFits'
  <2>1. \A q \in GpPost : GpOnce(posted', q)
    BY <1>2 DEF GpServerFits, GpMade
  <2>2. \A n \in notifications' : GpMade(n.post)' /\ (n.eventType = "PostRemoved" => ~GpHas(posted', n.post))
    BY <1>0, <1>2, <1>3 DEF GpServerFits, GpMade
  <2>3. \A l \in loads : \A i \in DOMAIN l.records : \E q \in GpPost : GpMade(q)' /\ l.records[i] = Gp!New(q)
    BY <1>0, <1>2 DEF GpServerFits, GpMade
  <2>. QED  BY <1>0, <2>1, <2>2, <2>3, SMTT(60) DEF GpServerFits, Gp!New
<1>6. \A q \in GpPost : GpMade(q)' <=> GpMade(q) \/ q = p
  BY <1>0, <1>2 DEF GpMade
<1>. QED  BY <1>2, <1>3, <1>4, <1>5, <1>6

LEMMA GpPostElsewhereKeeps ==
  ASSUME GpBounds, GpIInv, NEW p \in GpPost, Gp!PostElsewhere(p)
  PROVE  GpIInv'
<1>0. /\ Gp!TypeOK /\ GpServerFits /\ GpCreatesFit /\ GpRecordsFit /\ GpNotRaced
      /\ Gp!Fresh(p) /\ Gp!Added(p) /\ mine' \in {mine, mine \cup {p}}
      /\ UNCHANGED <<ready, logins, removed, posts, input, fetching, loads, creates, loaded, older,
                     raced, events>>
  BY DEF GpIInv, Gp!PostElsewhere
<1>1. /\ ~GpMade(p) /\ ~Gp!Creating(p)
      /\ ~GpHas(posts, Gp!New(p)) /\ ~GpHas(posts, GpFake(p)) /\ ~GpHas(posts, GpError(p))
  BY <1>0, GpFreshFits
<1>2. /\ posted' \in Seq(GpPost) /\ notifications' \subseteq Gp!Notification
      /\ \A q \in GpPost : GpHas(posted', q) <=> GpHas(posted, q) \/ q = p
      /\ \A q \in GpPost : GpMade(q)' <=> GpMade(q) \/ q = p
      /\ GpServerFits'
      /\ notifications \subseteq notifications' /\ \E n \in notifications' : n.post = p
  BY <1>0, <1>1, GpAddedFits
<1>3. Gp!TypeOK'
  <2>1. mine' \subseteq GpPost
    BY <1>0 DEF Gp!TypeOK
  <2>. QED  BY <1>0, <1>2, <2>1 DEF Gp!TypeOK
<1>4. GpCreatesFit'
  <2>1. \A c \in creates : c.post \in GpPost /\ c.post # p
    BY <1>0, <1>1 DEF Gp!TypeOK, Gp!Create, Gp!Creating
  <2>. QED  BY <1>0, <1>2, <2>1 DEF GpCreatesFit, GpMade
<1>5. GpRecordsFit'
  BY <1>0, <1>2 DEF GpRecordsFit, Gp!Creating, Gp!New, GpFake, GpError, GpMade
<1>6. GpNotRaced'
  <2>. SUFFICES ASSUME NEW q \in GpPost \ raced
                PROVE  /\ GpOnce(posts, Gp!New(q))
                       /\ Gp!Creating(q) => ~GpHas(posts, Gp!New(q))
                       /\ GpHas(posts, GpError(q)) => ~GpMade(q)'
                       /\ loaded /\ GpHas(posted', q) =>
                            \/ GpHas(posts, Gp!New(q))
                            \/ \E n \in notifications' : n.post = q
                            \/ Gp!Creating(q)
                            \/ q \in older
    BY <1>0 DEF GpNotRaced, Gp!Creating, Gp!New, GpError, GpMade
  <2>. QED  BY <1>0, <1>1, <1>2 DEF GpNotRaced, GpMade
<1>. QED  BY <1>2, <1>3, <1>4, <1>5, <1>6 DEF GpIInv

LEMMA GpChangeKeeps ==
  ASSUME GpBounds, GpIInv, NEW p \in GpPost, Gp!Change(p)
  PROVE  GpIInv'
<1>0. /\ Gp!TypeOK /\ GpServerFits /\ GpCreatesFit /\ GpRecordsFit /\ GpNotRaced
      /\ Gp!Counted /\ p \in Gp!Range(posted)
      /\ notifications' = notifications \cup {[post |-> p, eventType |-> "PostChanged"]}
      /\ UNCHANGED <<ready, logins, posted, removed, mine, posts, input, fetching, loads, creates,
                     loaded, older, raced>>
  BY DEF GpIInv, Gp!Change
<1>1. PICK m \in Gp!Notification : m.post = p /\ m.eventType = "PostChanged" /\ notifications' = notifications \cup {m}
  BY <1>0 DEF Gp!Notification
<1>2. events' \in 0..GpMaxEvents
  BY <1>0, GpCountedType
<1>3. Gp!TypeOK'
  BY <1>0, <1>1, <1>2 DEF Gp!TypeOK
<1>4. GpServerFits'
  BY <1>0, <1>1, GpPostedFits DEF GpServerFits, Gp!New, GpMade
<1>5. GpCreatesFit' /\ GpRecordsFit'
  BY <1>0 DEF GpCreatesFit, GpRecordsFit, Gp!Creating, Gp!New, GpFake, GpError, GpMade
<1>6. GpNotRaced'
  BY <1>0, <1>1 DEF GpNotRaced, Gp!Creating, Gp!New, GpError, GpMade
<1>. QED  BY <1>3, <1>4, <1>5, <1>6 DEF GpIInv

LEMMA GpShortened ==
  ASSUME NEW S, NEW s \in Seq(S), NEW n \in Nat, n = Len(s), NEW k \in 1..n
  PROVE  /\ SubSeq(s, 1, k - 1) \o SubSeq(s, k + 1, n) \in Seq(S)
         /\ Len(SubSeq(s, 1, k - 1) \o SubSeq(s, k + 1, n)) = n - 1
         /\ \A i \in 1..(n - 1) : (SubSeq(s, 1, k - 1) \o SubSeq(s, k + 1, n))[i] =
                                   IF i < k THEN s[i] ELSE s[i + 1]
<1>1. \A i \in 1..n : s[i] \in S
  OBVIOUS
<1>. DEFINE a == SubSeq(s, 1, k - 1)
            b == SubSeq(s, k + 1, n)
<1>2. a \in Seq(S) /\ Len(a) = k - 1 /\ \A i \in 1..(k - 1) : a[i] = s[i]
  <2>1. 1 \in Int /\ k - 1 \in Int /\ \A i \in 1..(k - 1) : s[i] \in S
    BY <1>1
  <2>2. /\ a \in Seq(S) /\ Len(a) = IF 1 <= k - 1 THEN (k - 1) - 1 + 1 ELSE 0
        /\ \A i \in 1..((k - 1) - 1 + 1) : a[i] = s[1 + i - 1]
    BY <2>1, SubSeqProperties
  <2>. HIDE DEF a
  <2>. QED  BY <2>2
<1>3. b \in Seq(S) /\ Len(b) = n - k /\ \A i \in 1..(n - k) : b[i] = s[k + i]
  <2>1. k + 1 \in Int /\ n \in Int /\ \A i \in (k + 1)..n : s[i] \in S
    BY <1>1
  <2>2. /\ b \in Seq(S) /\ Len(b) = IF k + 1 <= n THEN n - (k + 1) + 1 ELSE 0
        /\ \A i \in 1..(n - (k + 1) + 1) : b[i] = s[(k + 1) + i - 1]
    BY <2>1, SubSeqProperties
  <2>. HIDE DEF b
  <2>3. \A i \in 1..(n - k) : (k + 1) + i - 1 = k + i /\ i \in 1..(n - (k + 1) + 1)
    OBVIOUS
  <2>. QED  BY <2>2, <2>3
<1>. HIDE DEF a, b
<1>4. /\ a \o b \in Seq(S) /\ Len(a \o b) = Len(a) + Len(b)
      /\ \A i \in 1..(Len(a) + Len(b)) : (a \o b)[i] = IF i <= Len(a) THEN a[i] ELSE b[i - Len(a)]
  BY <1>2, <1>3, ConcatProperties, Zenon
<1>. DEFINE t == a \o b
<1>. HIDE DEF t
<1>5. /\ t \in Seq(S) /\ Len(t) = n - 1
      /\ \A i \in 1..(n - 1) : t[i] = IF i <= k - 1 THEN a[i] ELSE b[i - (k - 1)]
  BY <1>2, <1>3, <1>4 DEF t
<1>6. ASSUME NEW i \in 1..(n - 1) PROVE t[i] = IF i < k THEN s[i] ELSE s[i + 1]
  <2>1. CASE i < k
    BY <1>2, <1>5, <2>1
  <2>2. CASE ~(i < k)
    <3>1. i - (k - 1) \in 1..(n - k) /\ k + (i - (k - 1)) = i + 1 /\ ~(i <= k - 1)
      BY <2>2
    <3>. QED  BY <1>3, <1>5, <2>2, <3>1
  <2>. QED  BY <2>1, <2>2
<1>. QED  BY <1>5, <1>6 DEF t, a, b

\* A post is gone: the others are the server's still.
LEMMA GpShortenedFits ==
  ASSUME NEW n \in Nat, NEW k \in 1..n, NEW s, DOMAIN s = 1..n, NEW t, DOMAIN t = 1..(n - 1),
         \A i \in 1..(n - 1) : (i < k => t[i] = s[i]) /\ (~(i < k) => t[i] = s[i + 1])
  PROVE  /\ \A x : GpHas(t, x) => GpHas(s, x)
         /\ \A x : x # s[k] /\ GpHas(s, x) => GpHas(t, x)
         /\ \A x : GpOnce(s, x) => GpOnce(t, x)
         /\ GpOnce(s, s[k]) => ~GpHas(t, s[k])
<1>6. ASSUME NEW i \in 1..(n - 1)
      PROVE  \E j \in 1..n : j # k /\ t[i] = s[j] /\ j = (IF i < k THEN i ELSE i + 1)
  OBVIOUS
<1>7. ASSUME NEW j \in 1..n, j # k PROVE \E i \in 1..(n - 1) : t[i] = s[j]
  <2>1. CASE j < k
    <3>1. j \in 1..(n - 1)
      BY <2>1
    <3>. QED  BY <2>1, <3>1
  <2>2. CASE j > k
    <3>1. j - 1 \in 1..(n - 1) /\ ~(j - 1 < k) /\ (j - 1) + 1 = j
      BY <2>2
    <3>. QED  BY <3>1
  <2>. QED  BY <1>7, <2>1, <2>2
<1>8. \A x : GpHas(t, x) => GpHas(s, x)
  BY <1>6 DEF GpHas
<1>9. \A x : x # s[k] /\ GpHas(s, x) => GpHas(t, x)
  BY <1>7 DEF GpHas
<1>10. ASSUME NEW x, GpOnce(s, x) PROVE GpOnce(t, x)
  <2>. SUFFICES ASSUME NEW i \in 1..(n - 1), NEW j \in 1..(n - 1), t[i] = x, t[j] = x PROVE i = j
    BY DEF GpOnce
  <2>1. PICK e \in 1..n : s[e] = x /\ e # k /\ e = (IF i < k THEN i ELSE i + 1)
    BY <1>6
  <2>2. PICK f \in 1..n : s[f] = x /\ f # k /\ f = (IF j < k THEN j ELSE j + 1)
    BY <1>6
  <2>3. e = f
    BY <1>10, <2>1, <2>2 DEF GpOnce
  <2>. QED  BY <2>1, <2>2, <2>3
<1>11. GpOnce(s, s[k]) => ~GpHas(t, s[k])
  BY <1>6 DEF GpOnce, GpHas
<1>. QED  BY <1>8, <1>9, <1>10, <1>11

LEMMA GpRemoveKeeps == ASSUME GpBounds, GpIInv, NEW p \in GpPost, Gp!Remove(p) PROVE GpIInv'
<1>0. /\ Gp!TypeOK /\ GpServerFits /\ GpCreatesFit /\ GpRecordsFit /\ GpNotRaced
      /\ Gp!Counted /\ removed' = removed \cup {p}
      /\ notifications' = notifications \cup {[post |-> p, eventType |-> "PostRemoved"]}
      /\ UNCHANGED <<ready, logins, mine, posts, input, fetching, loads, creates, loaded, older, raced>>
  BY DEF GpIInv, Gp!Remove
<1>1. PICK k \in DOMAIN posted : /\ posted[k] = p
                                /\ posted' = SubSeq(posted, 1, k - 1) \o SubSeq(posted, k + 1, Len(posted))
  BY DEF Gp!Remove
<1>2. posted \in Seq(GpPost)
  BY <1>0 DEF Gp!TypeOK
<1>3. /\ posted' \in Seq(GpPost)
      /\ \A x : GpHas(posted', x) => GpHas(posted, x)
      /\ \A x : x # posted[k] /\ GpHas(posted, x) => GpHas(posted', x)
      /\ \A x : GpOnce(posted, x) => GpOnce(posted', x)
      /\ GpOnce(posted, posted[k]) => ~GpHas(posted', posted[k])
  <2>1. PICK n \in Nat : n = Len(posted) /\ k \in 1..n /\ DOMAIN posted = 1..n
    BY <1>2
  <2>2. posted' = SubSeq(posted, 1, k - 1) \o SubSeq(posted, k + 1, n)
    BY <1>1, <2>1
  <2>3. /\ posted' \in Seq(GpPost) /\ Len(posted') = n - 1
        /\ \A i \in 1..(n - 1) : posted'[i] = IF i < k THEN posted[i] ELSE posted[i + 1]
    BY <1>2, <2>1, <2>2, GpShortened, ZenonT(60)
  <2>4. DOMAIN posted' = 1..(n - 1)
    BY <2>3
  <2>5. \A i \in 1..(n - 1) : (i < k => posted'[i] = posted[i]) /\ (~(i < k) => posted'[i] = posted[i + 1])
    BY <2>3
  <2>6. /\ \A x : GpHas(posted', x) => GpHas(posted, x)
        /\ \A x : x # posted[k] /\ GpHas(posted, x) => GpHas(posted', x)
        /\ \A x : GpOnce(posted, x) => GpOnce(posted', x)
        /\ GpOnce(posted, posted[k]) => ~GpHas(posted', posted[k])
    BY <2>1, <2>4, <2>5, GpShortenedFits, Zenon
  <2>. QED  BY <2>3, <2>6
<1>4. GpHas(posted, p) /\ ~GpHas(posted', p)
  BY <1>0, <1>1, <1>3 DEF GpHas, GpServerFits
<1>5. \A q : GpMade(q)' <=> GpMade(q)
  BY <1>0, <1>1, <1>3, <1>4 DEF GpMade
<1>6. PICK m \in Gp!Notification : /\ m.post = p /\ m.eventType = "PostRemoved"
                                   /\ notifications' = notifications \cup {m}
  BY <1>0 DEF Gp!Notification
<1>7. events' \in 0..GpMaxEvents
  BY <1>0, GpCountedType
<1>8. Gp!TypeOK'
  <2>1. removed' \subseteq GpPost
    BY <1>0 DEF Gp!TypeOK
  <2>. QED  BY <1>0, <1>3, <1>6, <1>7, <2>1 DEF Gp!TypeOK
<1>9. GpServerFits'
  <2>1. \A q \in GpPost : GpOnce(posted', q)
    BY <1>0, <1>3 DEF GpServerFits
  <2>2. \A n \in notifications' : GpMade(n.post)' /\ (n.eventType = "PostRemoved" => ~GpHas(posted', n.post))
    BY <1>0, <1>3, <1>4, <1>5, <1>6 DEF GpServerFits, GpMade
  <2>3. \A l \in loads : \A i \in DOMAIN l.records : \E q \in GpPost : GpMade(q)' /\ l.records[i] = Gp!New(q)
    BY <1>0, <1>5 DEF GpServerFits
  <2>. QED  BY <1>0, <2>1, <2>2, <2>3, SMTT(60) DEF GpServerFits, Gp!New
<1>10. GpCreatesFit' /\ GpRecordsFit'
  BY <1>0, <1>5 DEF GpCreatesFit, GpRecordsFit, Gp!Creating, Gp!New, GpFake, GpError
<1>11. GpNotRaced'
  <2>. SUFFICES ASSUME NEW q \in GpPost \ raced
                PROVE  /\ GpOnce(posts, Gp!New(q))
                       /\ Gp!Creating(q) => ~GpHas(posts, Gp!New(q))
                       /\ GpHas(posts, GpError(q)) => ~GpMade(q)
                       /\ loaded /\ GpHas(posted', q) =>
                            \/ GpHas(posts, Gp!New(q))
                            \/ \E n \in notifications' : n.post = q
                            \/ Gp!Creating(q)
                            \/ q \in older
    BY <1>0, <1>5 DEF GpNotRaced, Gp!Creating, Gp!New, GpError
  <2>. QED  BY <1>0, <1>1, <1>3, <1>4, <1>6 DEF GpNotRaced
<1>. QED  BY <1>8, <1>9, <1>10, <1>11 DEF GpIInv

LEMMA GpServeKeeps == ASSUME GpBounds, GpIInv, Gp!Serve PROVE GpIInv'
<1>0. /\ Gp!TypeOK /\ GpServerFits /\ GpCreatesFit /\ GpRecordsFit /\ GpNotRaced
      /\ UNCHANGED <<ready, logins, removed, posts, input, fetching, loaded, older, raced>>
  BY DEF GpIInv, Gp!Serve
<1>1. ASSUME NEW c \in creates, c.at = "sent", creates' = (creates \ {c}) \cup {[c EXCEPT !.at = "served"]},
             Gp!Added(c.post), mine' = mine \cup {c.post}, UNCHANGED <<events, loads>>
      PROVE  GpIInv'
  <2>0. c \in Gp!Create /\ c.post \in GpPost /\ ~GpMade(c.post)
    BY <1>0, <1>1 DEF Gp!TypeOK, Gp!Create, GpCreatesFit, GpMade
  <2>1. PICK d \in Gp!Create : d.post = c.post /\ d.at = "served" /\ creates' = (creates \ {c}) \cup {d}
    BY <1>1, <2>0 DEF Gp!Create
  <2>2. /\ posted' \in Seq(GpPost) /\ notifications' \subseteq Gp!Notification
        /\ \A q \in GpPost : GpHas(posted', q) <=> GpHas(posted, q) \/ q = c.post
        /\ \A q \in GpPost : GpMade(q)' <=> GpMade(q) \/ q = c.post
        /\ GpServerFits'
        /\ notifications \subseteq notifications' /\ \E n \in notifications' : n.post = c.post
    BY <1>0, <1>1, <2>0, GpAddedFits
  <2>3. Gp!TypeOK'
    <3>1. mine' \subseteq GpPost
      BY <1>0, <1>1, <2>0 DEF Gp!TypeOK
    <3>2. creates' \subseteq Gp!Create
      BY <1>0, <2>1 DEF Gp!TypeOK
    <3>. QED  BY <1>0, <1>1, <2>2, <3>1, <3>2 DEF Gp!TypeOK
  <2>4. \A q : Gp!Creating(q)' <=> Gp!Creating(q)
    BY <2>1 DEF Gp!Creating
  <2>5. GpCreatesFit'
    <3>1. \A e \in creates' : e = d \/ (e \in creates /\ e # c /\ e.post # c.post /\ e.post \in GpPost)
      BY <1>0, <2>1 DEF GpCreatesFit, Gp!TypeOK, Gp!Create, GpMade
    <3>2. \A e, f \in creates' : e.post = f.post => e = f
      BY <1>0, <2>1, <3>1 DEF GpCreatesFit, GpMade
    <3>3. \A e \in creates' : IF e.at = "served" THEN GpMade(e.post)' /\ e.post \in mine'
                              ELSE ~GpMade(e.post)'
      BY <1>0, <1>1, <2>0, <2>1, <2>2, <3>1 DEF GpCreatesFit, GpMade
    <3>. QED  BY <3>2, <3>3 DEF GpCreatesFit, GpMade
  <2>6. GpRecordsFit'
    BY <1>0, <2>2, <2>4 DEF GpRecordsFit, Gp!New, GpFake, GpError, GpMade
  <2>7. GpNotRaced'
    <3>. SUFFICES ASSUME NEW q \in GpPost \ raced
                  PROVE  /\ GpOnce(posts, Gp!New(q))
                         /\ Gp!Creating(q) => ~GpHas(posts, Gp!New(q))
                         /\ GpHas(posts, GpError(q)) => ~GpMade(q)'
                         /\ loaded /\ GpHas(posted', q) =>
                              \/ GpHas(posts, Gp!New(q))
                              \/ \E n \in notifications' : n.post = q
                              \/ Gp!Creating(q)
                              \/ q \in older
      BY <1>0, <2>4 DEF GpNotRaced, Gp!New, GpError, GpMade
    <3>1. Gp!Creating(c.post)
      BY DEF Gp!Creating
    <3>2. ~GpHas(posts, GpError(c.post))
      BY <1>0, <2>0, <3>1 DEF GpRecordsFit, GpMade
    <3>. QED  BY <1>0, <2>2, <3>1, <3>2 DEF GpNotRaced, GpMade
  <2>. QED  BY <2>2, <2>3, <2>5, <2>6, <2>7 DEF GpIInv
<1>2. ASSUME NEW c \in creates, c.at = "sent", creates' = (creates \ {c}) \cup {[c EXCEPT !.at = "refused"]},
             Gp!Counted, UNCHANGED <<posted, removed, mine, notifications, loads>>
      PROVE  GpIInv'
  <2>0. c \in Gp!Create /\ ~GpMade(c.post)
    BY <1>0, <1>2 DEF Gp!TypeOK, GpCreatesFit, GpMade
  <2>1. PICK d \in Gp!Create : d.post = c.post /\ d.at = "refused" /\ creates' = (creates \ {c}) \cup {d}
    BY <1>2, <2>0 DEF Gp!Create
  <2>2. events' \in 0..GpMaxEvents
    BY <1>0, <1>2, GpCountedType
  <2>3. Gp!TypeOK'
    BY <1>0, <1>2, <2>1, <2>2 DEF Gp!TypeOK
  <2>4. \A q : Gp!Creating(q)' <=> Gp!Creating(q)
    BY <2>1 DEF Gp!Creating
  <2>5. GpCreatesFit'
    BY <1>0, <1>2, <2>0, <2>1 DEF GpCreatesFit, GpMade
  <2>6. GpServerFits'
    BY <1>0, <1>2 DEF GpServerFits, Gp!New, GpMade
  <2>7. GpRecordsFit' /\ GpNotRaced'
    BY <1>0, <1>2, <2>4 DEF GpRecordsFit, GpNotRaced, Gp!New, GpFake, GpError, GpMade
  <2>. QED  BY <2>3, <2>5, <2>6, <2>7 DEF GpIInv
<1>3. ASSUME NEW l \in loads, l.at = "sent",
             loads' = (loads \ {l}) \cup
               {[login |-> l.login, at |-> "served", records |-> Gp!Latest, older |-> Gp!Older]},
             UNCHANGED <<posted, removed, mine, notifications, creates, events>>
      PROVE  GpIInv'
  <2>0. l \in Gp!Load /\ posted \in Seq(GpPost)
    BY <1>0 DEF Gp!TypeOK
  <2>1. PICK n \in Nat : n = Gp!Listed /\ n <= Len(posted)
    BY <2>0 DEF Gp!Listed, GpBounds
  <2>. DEFINE records == [i \in 1..n |-> Gp!New(posted[i])]
  <2>2. \A i \in 1..n : i \in DOMAIN posted /\ posted[i] \in GpPost /\ Gp!New(posted[i]) \in Gp!Record
    BY <2>0, <2>1, GpRecordsDiffer
  <2>3. records \in Seq(Gp!Record) /\ DOMAIN records = 1..n /\ \A i \in 1..n : records[i] = Gp!New(posted[i])
    BY <2>1, <2>2
  <2>4. Gp!Latest = records
    BY <2>1 DEF Gp!Latest
  <2>. HIDE DEF records
  <2>5. PICK k \in Gp!Load : k.records = records /\ loads' = (loads \ {l}) \cup {k}
    <3>1. Gp!Older \subseteq GpPost
      BY <2>0 DEF Gp!Older
    <3>2. l.login \in 1..GpMaxLogins
      BY <2>0 DEF Gp!Load
    <3>3. [login |-> l.login, at |-> "served", records |-> records, older |-> Gp!Older] \in Gp!Load
      BY <2>3, <3>1, <3>2 DEF Gp!Load
    <3>. QED  BY <1>3, <2>4, <3>3
  <2>6. \A i \in DOMAIN k.records : \E p \in GpPost : GpMade(p) /\ k.records[i] = Gp!New(p)
    BY <2>2, <2>3, <2>5 DEF GpHas, GpMade
  <2>7. \A p \in GpPost : GpOnce(k.records, Gp!New(p))
    <3>. SUFFICES ASSUME NEW p \in GpPost, NEW i \in 1..n, NEW j \in 1..n,
                         records[i] = Gp!New(p), records[j] = Gp!New(p)
                  PROVE  i = j
      BY <2>3, <2>5 DEF GpOnce
    <3>1. posted[i] = p /\ posted[j] = p
      BY <2>2, <2>3, GpRecordsDiffer
    <3>. QED  BY <1>0, <2>2, <3>1 DEF GpServerFits, GpOnce
  <2>8. Gp!TypeOK'
    BY <1>0, <1>3, <2>5 DEF Gp!TypeOK
  <2>9. GpServerFits'
    <3>1. /\ \A h \in loads' : \A i \in DOMAIN h.records : \E p \in GpPost : GpMade(p) /\ h.records[i] = Gp!New(p)
          /\ \A h \in loads', p \in GpPost : GpOnce(h.records, Gp!New(p))
      BY <1>0, <2>5, <2>6, <2>7 DEF GpServerFits
    <3>. QED  BY <1>0, <1>3, <3>1 DEF GpServerFits, Gp!New, GpMade
  <2>10. GpCreatesFit' /\ GpRecordsFit' /\ GpNotRaced'
    BY <1>0, <1>3 DEF GpCreatesFit, GpRecordsFit, GpNotRaced, Gp!Creating, Gp!New, GpFake, GpError, GpMade
  <2>. QED  BY <2>8, <2>9, <2>10 DEF GpIInv
<1>. QED  BY <1>1, <1>2, <1>3 DEF Gp!Serve

--------------------
(* The module. *)

\* What leaves the posts, the server and the calls alone.
LEMMA GpQuietKeeps ==
  ASSUME GpBounds, GpIInv, \/ Gp!Initialize \/ Gp!LoadPosts \/ (\E l \in loads : Gp!LoadFails(l))
                           \/ (\E t \in GpText : Gp!UpdatePostInput(t))
  PROVE  GpIInv'
<1>0. /\ Gp!TypeOK /\ GpServerFits /\ GpCreatesFit /\ GpRecordsFit /\ GpNotRaced
      /\ UNCHANGED <<posted, removed, mine, notifications, posts, creates, loaded, older, raced>>
  BY DEF GpIInv, Gp!Initialize, Gp!LoadPosts, Gp!LoadFails, Gp!UpdatePostInput
<1>1. GpCreatesFit' /\ GpRecordsFit' /\ GpNotRaced'
  BY <1>0 DEF GpCreatesFit, GpRecordsFit, GpNotRaced, Gp!Creating, Gp!New, GpFake, GpError, GpMade
<1>2. CASE Gp!Initialize
  <2>1. /\ logins < GpMaxLogins /\ ready' = TRUE /\ logins' = logins + 1
        /\ UNCHANGED <<input, fetching, loads, events>>
    BY <1>2 DEF Gp!Initialize
  <2>2. logins' \in 0..GpMaxLogins /\ logins' # 0
    <3>1. GpMaxLogins \in Nat /\ logins \in 0..GpMaxLogins
      BY <1>0 DEF Gp!TypeOK, GpBounds
    <3>. QED  BY <2>1, <3>1
  <2>3. Gp!TypeOK'
    BY <1>0, <2>1, <2>2 DEF Gp!TypeOK
  <2>4. GpServerFits'
    BY <1>0, <2>1, <2>2 DEF GpServerFits, Gp!New, GpMade
  <2>. QED  BY <1>1, <2>3, <2>4 DEF GpIInv
<1>3. CASE Gp!LoadPosts
  <2>1. /\ ready /\ Gp!Counted /\ fetching' = TRUE
        /\ loads' = loads \cup {[login |-> logins, at |-> "sent", records |-> <<>>, older |-> {}]}
        /\ UNCHANGED <<ready, logins, input>>
    BY <1>3 DEF Gp!LoadPosts
  <2>2. logins \in 1..GpMaxLogins
    <3>1. logins \in 0..GpMaxLogins /\ logins # 0
      BY <1>0, <2>1 DEF Gp!TypeOK, GpServerFits, GpMade
    <3>. QED  BY <3>1
  <2>3. PICK k \in Gp!Load : k.records = <<>> /\ loads' = loads \cup {k}
    <3>. DEFINE n == [login |-> logins, at |-> "sent", records |-> <<>>, older |-> {}]
    <3>1. <<>> \in Seq(Gp!Record)
      OBVIOUS
    <3>2. n \in Gp!Load /\ n.records = <<>>
      BY <2>2, <3>1 DEF Gp!Load
    <3>. QED  BY <2>1, <3>2
  <2>4. events' \in 0..GpMaxEvents
    BY <1>0, <2>1, GpCountedType
  <2>5. Gp!TypeOK'
    BY <1>0, <2>1, <2>3, <2>4 DEF Gp!TypeOK
  <2>6. GpServerFits'
    <3>1. \A p : GpOnce(k.records, p) /\ DOMAIN k.records = {}
      BY <2>3 DEF GpOnce
    <3>2. /\ \A h \in loads' : \A i \in DOMAIN h.records : \E p \in GpPost : GpMade(p) /\ h.records[i] = Gp!New(p)
          /\ \A h \in loads', p \in GpPost : GpOnce(h.records, Gp!New(p))
      BY <1>0, <2>3, <3>1 DEF GpServerFits, GpMade
    <3>. QED  BY <1>0, <2>1, <3>2 DEF GpServerFits, Gp!New, GpMade
  <2>. QED  BY <1>1, <2>5, <2>6 DEF GpIInv
<1>4. ASSUME NEW l \in loads, Gp!LoadFails(l) PROVE GpIInv'
  <2>1. Gp!Counted /\ loads' = loads \ {l} /\ fetching' = FALSE /\ UNCHANGED <<ready, logins, input>>
    BY <1>4 DEF Gp!LoadFails
  <2>2. events' \in 0..GpMaxEvents
    BY <1>0, <2>1, GpCountedType
  <2>3. Gp!TypeOK'
    BY <1>0, <2>1, <2>2 DEF Gp!TypeOK
  <2>4. GpServerFits'
    BY <1>0, <2>1 DEF GpServerFits, Gp!New, GpMade
  <2>. QED  BY <1>1, <2>3, <2>4 DEF GpIInv
<1>5. ASSUME NEW t \in GpText, Gp!UpdatePostInput(t) PROVE GpIInv'
  <2>1. input' = t /\ UNCHANGED <<ready, logins, fetching, loads, events>>
    BY <1>5 DEF Gp!UpdatePostInput
  <2>2. Gp!TypeOK'
    BY <1>0, <2>1 DEF Gp!TypeOK
  <2>3. GpServerFits'
    BY <1>0, <2>1 DEF GpServerFits, Gp!New, GpMade
  <2>. QED  BY <1>1, <2>2, <2>3 DEF GpIInv
<1>. QED  BY <1>2, <1>3, <1>4, <1>5

LEMMA GpResetKeeps == ASSUME GpBounds, GpIInv, Gp!Reset PROVE GpIInv'
<1>0. /\ Gp!TypeOK /\ GpServerFits /\ GpCreatesFit /\ GpRecordsFit /\ GpNotRaced
      /\ Gp!Counted /\ ready' = FALSE /\ posts' = <<>> /\ fetching' = FALSE
      /\ notifications' = {} /\ loaded' = FALSE
      /\ UNCHANGED <<logins, posted, removed, mine, input, loads, creates, older, raced>>
  BY DEF GpIInv, Gp!Reset
<1>1. \A r : ~GpHas(posts', r) /\ GpOnce(posts', r)
  BY <1>0 DEF GpHas, GpOnce
<1>2. events' \in 0..GpMaxEvents
  BY <1>0, GpCountedType
<1>3. Gp!TypeOK'
  <2>1. posts' \in Seq(Gp!Record)
    BY <1>0
  <2>. QED  BY <1>0, <1>2, <2>1 DEF Gp!TypeOK
<1>4. GpServerFits' /\ GpCreatesFit'
  BY <1>0 DEF GpServerFits, GpCreatesFit, Gp!New, GpMade
<1>5. GpRecordsFit' /\ GpNotRaced'
  BY <1>0, <1>1 DEF GpRecordsFit, GpNotRaced, Gp!Creating, GpMade
<1>. QED  BY <1>3, <1>4, <1>5 DEF GpIInv

LEMMA GpRemovedKeeps ==
  ASSUME GpBounds, GpIInv, NEW n \in notifications, Gp!Notify(n), n.eventType = "PostRemoved" PROVE GpIInv'
<1>0. /\ Gp!TypeOK /\ GpServerFits /\ GpCreatesFit /\ GpRecordsFit /\ GpNotRaced
      /\ notifications' = notifications \ {n}
      /\ UNCHANGED <<ready, logins, posted, removed, mine, posts, input, fetching, loads,
                     creates,
                     loaded, older, raced, events>>
  BY DEF GpIInv, Gp!Notify
<1>1. ~GpHas(posted, n.post)
  BY <1>0 DEF GpServerFits
<1>2. Gp!TypeOK'
  BY <1>0 DEF Gp!TypeOK
<1>3. GpServerFits' /\ GpCreatesFit' /\ GpRecordsFit'
  BY <1>0 DEF GpServerFits, GpCreatesFit, GpRecordsFit, Gp!Creating, Gp!New, GpFake, GpError, GpMade
<1>4. GpNotRaced'
  BY <1>0, <1>1 DEF GpNotRaced, Gp!Creating, Gp!New, GpError, GpMade
<1>. QED  BY <1>2, <1>3, <1>4 DEF GpIInv

LEMMA GpNotifyKeeps ==
  ASSUME GpBounds, GpIInv, NEW n \in notifications, Gp!Notify(n), n.eventType # "PostRemoved" PROVE GpIInv'
<1>. DEFINE p == n.post
            own == p \in mine /\ n.eventType = "PostAdded" /\ Gp!Held(p) = {}
            ignored == own /\ Gp!Sending(GpTextOf[p]) # {}
<1>0. /\ Gp!TypeOK /\ GpServerFits /\ GpCreatesFit /\ GpRecordsFit /\ GpNotRaced
      /\ notifications' = notifications \ {n}
      /\ posts' = IF ignored THEN posts ELSE Gp!Put(Gp!Held(p), Gp!New(p))
      /\ raced' = IF \/ ignored /\ Gp!Fakes(p) = {}
                     \/ /\ ~ignored /\ Gp!Creating(p)
                        /\ Gp!Fakes(p) = {} \/ n.eventType = "PostChanged"
                  THEN raced \cup {p} ELSE raced
      /\ UNCHANGED <<ready, logins, posted, removed, mine, input, fetching, loads, creates, loaded,
                     older, events>>
  BY DEF GpIInv, Gp!Notify
<1>1. p \in GpPost /\ GpMade(p) /\ n.eventType \in {"PostAdded", "PostChanged"} /\ posts \in Seq(Gp!Record)
  BY <1>0 DEF Gp!TypeOK, Gp!Notification, GpServerFits, GpMade
<1>2. /\ Gp!Held(p) = {i \in DOMAIN posts : posts[i] = Gp!New(p)}
      /\ Gp!Held(p) # {} <=> GpHas(posts, Gp!New(p))
      /\ Gp!Fakes(p) # {} <=> GpHas(posts, GpFake(p))
  BY DEF Gp!Held, Gp!Fakes, GpHas, GpFake
<1>3. /\ posts' \in Seq(Gp!Record)
      /\ ~ignored => GpHas(posts', Gp!New(p))
      /\ \A x : x # Gp!New(p) => (GpHas(posts', x) <=> GpHas(posts, x)) /\ (GpOnce(posts, x) => GpOnce(posts', x))
      /\ GpOnce(posts, Gp!New(p)) => GpOnce(posts', Gp!New(p))
      /\ ignored => posts' = posts
  <2>1. CASE ignored
    BY <1>0, <1>1, <2>1
  <2>2. CASE ~ignored
    <3>1. posts' = Gp!Put(Gp!Held(p), Gp!New(p))
      BY <1>0, <2>2
    <3>2. /\ Gp!New(p) \in Gp!Record /\ posts \in Seq(Gp!Record)
          /\ Gp!Held(p) = {i \in DOMAIN posts : posts[i] = Gp!New(p)}
      BY <1>1, <1>2, GpRecordsDiffer
    <3>3. posts' \in Seq(Gp!Record) /\ GpHas(posts', Gp!New(p))
      BY <3>1, <3>2, GpPutAgainFits
    <3>4. \A x : x # Gp!New(p) => (GpHas(posts', x) <=> GpHas(posts, x)) /\ (GpOnce(posts, x) => GpOnce(posts', x))
      BY <3>1, <3>2, GpPutAgainFits
    <3>5. GpOnce(posts, Gp!New(p)) => GpOnce(posts', Gp!New(p))
      BY <3>1, <3>2, GpPutAgainFits
    <3>. QED  BY <2>2, <3>3, <3>4, <3>5
  <2>. QED  BY <2>1, <2>2
<1>4. GpHas(posts, GpFake(p)) => Gp!Creating(p) /\ p \in mine /\ Gp!Sending(GpTextOf[p]) # {}
  <2>. SUFFICES ASSUME GpHas(posts, GpFake(p)) PROVE Gp!Creating(p) /\ p \in mine /\ Gp!Sending(GpTextOf[p]) # {}
    OBVIOUS
  <2>1. Gp!Creating(p)
    BY <1>0, <1>1 DEF GpRecordsFit, GpMade
  <2>2. p \in mine
    BY <1>0, <1>1, <2>1 DEF GpCreatesFit, Gp!Creating, GpMade
  <2>3. PICK i \in DOMAIN posts : posts[i] = GpFake(p)
    BY DEF GpHas
  <2>4. i \in Gp!Sending(GpTextOf[p])
    BY <2>3 DEF Gp!Sending, GpFake
  <2>. QED  BY <2>1, <2>2, <2>4
<1>5. p \notin raced' =>
        /\ p \notin raced
        /\ ignored => GpHas(posts, GpFake(p))
        /\ ~ignored /\ Gp!Creating(p) => GpHas(posts, Gp!New(p))
  <2>. SUFFICES ASSUME p \notin raced'
                PROVE  /\ p \notin raced
                       /\ ignored => GpHas(posts, GpFake(p))
                       /\ ~ignored /\ Gp!Creating(p) => GpHas(posts, Gp!New(p))
    OBVIOUS
  <2>1. /\ p \notin raced /\ ~(ignored /\ Gp!Fakes(p) = {})
        /\ ~(~ignored /\ Gp!Creating(p) /\ (Gp!Fakes(p) = {} \/ n.eventType = "PostChanged"))
    BY <1>0
  <2>2. ASSUME ~ignored, Gp!Creating(p) PROVE GpHas(posts, Gp!New(p))
    <3>1. Gp!Fakes(p) # {} /\ n.eventType # "PostChanged"
      BY <2>1, <2>2
    <3>2. GpHas(posts, GpFake(p)) /\ n.eventType = "PostAdded"
      BY <1>1, <1>2, <3>1
    <3>3. p \in mine /\ Gp!Sending(GpTextOf[p]) # {}
      BY <1>4, <3>2
    <3>4. Gp!Held(p) # {}
      BY <2>2, <3>2, <3>3
    <3>. QED  BY <1>2, <3>4
  <2>. QED  BY <1>2, <2>1, <2>2
<1>. HIDE DEF ignored, own
<1>6. raced \subseteq raced' /\ raced' \subseteq raced \cup {p} /\ \A q : Gp!Creating(q)' <=> Gp!Creating(q)
  BY <1>0 DEF Gp!Creating
<1>7. Gp!TypeOK'
  <2>1. raced' \subseteq GpPost
    BY <1>0, <1>1, <1>6 DEF Gp!TypeOK
  <2>. QED  BY <1>0, <1>3, <2>1 DEF Gp!TypeOK
<1>8. GpServerFits' /\ GpCreatesFit'
  BY <1>0 DEF GpServerFits, GpCreatesFit, Gp!New, GpMade
<1>9. GpRecordsFit'
  <2>. SUFFICES ASSUME NEW q \in GpPost
                PROVE  /\ GpHas(posts', Gp!New(q)) => GpMade(q)
                       /\ GpHas(posts', GpFake(q)) => Gp!Creating(q)
                       /\ GpOnce(posts', GpFake(q))
                       /\ Gp!Creating(q) => ~GpHas(posts', GpError(q))
    BY <1>0, <1>6 DEF GpRecordsFit, Gp!New, GpFake, GpError, GpMade
  <2>1. GpFake(q) # Gp!New(p) /\ GpError(q) # Gp!New(p) /\ (q # p => Gp!New(q) # Gp!New(p))
    BY <1>1, GpRecordsDiffer
  <2>. QED  BY <1>0, <1>1, <1>3, <2>1 DEF GpRecordsFit, GpMade
<1>10. GpNotRaced'
  <2>. SUFFICES ASSUME NEW q \in GpPost \ raced'
                PROVE  /\ GpOnce(posts', Gp!New(q))
                       /\ Gp!Creating(q) => ~GpHas(posts', Gp!New(q))
                       /\ GpHas(posts', GpError(q)) => ~GpMade(q)
                       /\ loaded /\ GpHas(posted, q) =>
                            \/ GpHas(posts', Gp!New(q))
                            \/ \E m \in notifications' : m.post = q
                            \/ Gp!Creating(q)
                            \/ q \in older
    BY <1>0, <1>6 DEF GpNotRaced, Gp!New, GpError, GpMade
  <2>0. q \in GpPost \ raced
    BY <1>6
  <2>1. GpError(q) # Gp!New(p) /\ (q # p => Gp!New(q) # Gp!New(p))
    BY <1>1, GpRecordsDiffer
  <2>2. CASE q # p
    BY <1>0, <1>3, <2>0, <2>1, <2>2 DEF GpNotRaced, GpMade
  <2>3. CASE q = p /\ ignored
    <3>1. Gp!Creating(p) /\ posts' = posts
      BY <1>3, <1>4, <1>5, <2>3
    <3>. QED  BY <1>0, <2>0, <2>3, <3>1 DEF GpNotRaced, GpMade
  <2>4. CASE q = p /\ ~ignored
    <3>1. ~Gp!Creating(p)
      BY <1>0, <1>5, <2>0, <2>4 DEF GpNotRaced, GpMade
    <3>. QED  BY <1>0, <1>3, <2>0, <2>1, <2>4, <3>1 DEF GpNotRaced, GpMade
  <2>. QED  BY <2>2, <2>3, <2>4
<1>. QED  BY <1>7, <1>8, <1>9, <1>10 DEF GpIInv

LEMMA GpLoadedKeeps == ASSUME GpBounds, GpIInv, NEW l \in loads, Gp!Loaded(l) PROVE GpIInv'
<1>0. /\ Gp!TypeOK /\ GpServerFits /\ GpCreatesFit /\ GpRecordsFit /\ GpNotRaced
      /\ loads' = loads \ {l} /\ fetching' = FALSE /\ posts' = l.records /\ older' = l.older
      /\ loaded' = (ready /\ l.login = logins)
      /\ UNCHANGED <<ready, logins, posted, removed, mine, notifications, input, creates, events>>
  BY DEF GpIInv, Gp!Loaded
<1>1. /\ l.records \in Seq(Gp!Record) /\ l.older \subseteq GpPost
      /\ \A i \in DOMAIN l.records : \E p \in GpPost : GpMade(p) /\ l.records[i] = Gp!New(p)
      /\ \A p \in GpPost : GpOnce(l.records, Gp!New(p))
  BY <1>0 DEF Gp!TypeOK, Gp!Load, GpServerFits, GpMade
<1>2. \A p \in GpPost : /\ GpHas(posts', Gp!New(p)) => GpMade(p)
                        /\ ~GpHas(posts', GpFake(p)) /\ ~GpHas(posts', GpError(p)) /\ GpOnce(posts', GpFake(p))
  <2>. SUFFICES ASSUME NEW p \in GpPost
                PROVE  /\ GpHas(posts', Gp!New(p)) => GpMade(p)
                       /\ ~GpHas(posts', GpFake(p)) /\ ~GpHas(posts', GpError(p)) /\ GpOnce(posts', GpFake(p))
    OBVIOUS
  <2>1. \A i \in DOMAIN l.records : /\ l.records[i] # GpFake(p) /\ l.records[i] # GpError(p)
                                    /\ l.records[i] = Gp!New(p) => GpMade(p)
    BY <1>1, GpRecordsDiffer
  <2>. QED  BY <1>0, <2>1 DEF GpHas, GpOnce
<1>3. \A p : Gp!New(p) \in Gp!Range(l.records) <=> GpHas(posts', Gp!New(p))
  BY <1>0 DEF Gp!Range, GpHas
<1>. DEFINE lost == {p \in GpPost : /\ p \in Gp!Range(posted) \ l.older /\ Gp!New(p) \notin Gp!Range(l.records)
                                    /\ ~ \E n \in notifications : n.post = p
                                    /\ ~ \E c \in creates : c.post = p /\ c.at # "refused"}
            early == {p \in GpPost : Gp!Creating(p) /\ Gp!New(p) \in Gp!Range(l.records)}
<1>. HIDE DEF lost, early
<1>4. /\ raced \subseteq raced' /\ raced' \subseteq GpPost
      /\ \A p \in GpPost \ raced' : /\ p \in Gp!Range(posted) \ l.older => \/ Gp!New(p) \in Gp!Range(l.records)
                                                                           \/ \E n \in notifications : n.post = p
                                                                           \/ \E c \in creates : c.post = p
                                    /\ ~(Gp!Creating(p) /\ Gp!New(p) \in Gp!Range(l.records))
  <2>1. raced' = raced \cup lost \cup early
    BY DEF Gp!Loaded, lost, early
  <2>2. lost \subseteq GpPost /\ early \subseteq GpPost /\ raced \subseteq GpPost
    BY <1>0 DEF lost, early, Gp!TypeOK
  <2>3. \A p \in GpPost \ lost : p \in Gp!Range(posted) \ l.older => \/ Gp!New(p) \in Gp!Range(l.records)
                                                                     \/ \E n \in notifications : n.post = p
                                                                     \/ \E c \in creates : c.post = p
    <3>1. \A p : p \in lost <=>
                  /\ p \in GpPost /\ p \in Gp!Range(posted) \ l.older /\ Gp!New(p) \notin Gp!Range(l.records)
                  /\ ~ \E n \in notifications : n.post = p
                  /\ ~ \E c \in creates : c.post = p /\ c.at # "refused"
      BY Zenon DEF lost
    <3>. QED  BY <3>1
  <2>4. \A p \in GpPost \ early : ~(Gp!Creating(p) /\ Gp!New(p) \in Gp!Range(l.records))
    BY DEF early
  <2>5. raced \subseteq raced' /\ raced' \subseteq GpPost
    BY <2>1, <2>2
  <2>6. \A p \in GpPost \ raced' : p \in GpPost \ lost /\ p \in GpPost \ early
    BY <2>1
  <2>7. ASSUME NEW p \in GpPost \ raced'
        PROVE  /\ p \in Gp!Range(posted) \ l.older => \/ Gp!New(p) \in Gp!Range(l.records)
                                                      \/ \E n \in notifications : n.post = p
                                                      \/ \E c \in creates : c.post = p
               /\ ~(Gp!Creating(p) /\ Gp!New(p) \in Gp!Range(l.records))
    <3>1. p \in GpPost \ lost /\ p \in GpPost \ early
      BY <2>6
    <3>2. ~(Gp!Creating(p) /\ Gp!New(p) \in Gp!Range(l.records))
      BY <2>4, <3>1
    <3>3. p \in Gp!Range(posted) \ l.older => \/ Gp!New(p) \in Gp!Range(l.records)
                                              \/ \E n \in notifications : n.post = p
                                              \/ \E c \in creates : c.post = p
      BY <2>3, <3>1
    <3>. QED  BY <3>2, <3>3
  <2>. QED  BY <2>5, <2>7
<1>5. Gp!TypeOK'
  <2>1. loaded' \in BOOLEAN
    BY <1>0 DEF Gp!TypeOK
  <2>. QED  BY <1>0, <1>1, <1>4, <2>1 DEF Gp!TypeOK
<1>6. GpServerFits' /\ GpCreatesFit'
  BY <1>0 DEF GpServerFits, GpCreatesFit, Gp!New, GpMade
<1>7. \A q : Gp!Creating(q)' <=> Gp!Creating(q)
  BY <1>0 DEF Gp!Creating
<1>8. GpRecordsFit'
  BY <1>0, <1>2, <1>7 DEF GpRecordsFit, Gp!New, GpFake, GpError, GpMade
<1>9. GpNotRaced'
  <2>. SUFFICES ASSUME NEW q \in GpPost \ raced'
                PROVE  /\ GpOnce(posts', Gp!New(q))
                       /\ Gp!Creating(q) => ~GpHas(posts', Gp!New(q))
                       /\ GpHas(posts', GpError(q)) => ~GpMade(q)
                       /\ GpHas(posted, q) =>
                            \/ GpHas(posts', Gp!New(q))
                            \/ \E m \in notifications : m.post = q
                            \/ Gp!Creating(q)
                            \/ q \in l.older
    BY <1>0, <1>7 DEF GpNotRaced, Gp!New, GpError, GpMade
  <2>. QED  BY <1>0, <1>1, <1>2, <1>3, <1>4, GpPostedFits DEF Gp!Creating
<1>. QED  BY <1>5, <1>6, <1>8, <1>9 DEF GpIInv

LEMMA GpCreatePostKeeps == ASSUME GpBounds, GpIInv, NEW p \in GpPost, Gp!CreatePost(p) PROVE GpIInv'
<1>0. /\ Gp!TypeOK /\ GpServerFits /\ GpCreatesFit /\ GpRecordsFit /\ GpNotRaced
      /\ Gp!Fresh(p) /\ posts' = Gp!Put({}, GpFake(p)) /\ input' = ""
      /\ creates' = creates \cup {[post |-> p, at |-> "sent"]}
      /\ UNCHANGED <<ready, logins, posted, removed, mine, notifications, fetching, loads, loaded,
                     older, raced, events>>
  BY DEF GpIInv, Gp!CreatePost, GpFake
<1>1. /\ ~GpMade(p) /\ ~Gp!Creating(p)
      /\ ~GpHas(posts, Gp!New(p)) /\ ~GpHas(posts, GpFake(p)) /\ ~GpHas(posts, GpError(p))
  BY <1>0, GpFreshFits
<1>2. PICK d \in Gp!Create : d.post = p /\ d.at = "sent" /\ creates' = creates \cup {d}
  BY <1>0 DEF Gp!Create
<1>3. /\ posts' \in Seq(Gp!Record) /\ GpHas(posts', GpFake(p)) /\ GpOnce(posts', GpFake(p))
      /\ \A x : x # GpFake(p) => (GpHas(posts', x) <=> GpHas(posts, x)) /\ (GpOnce(posts, x) => GpOnce(posts', x))
  <2>1. posts' = <<GpFake(p)>> \o posts /\ posts \in Seq(Gp!Record) /\ GpFake(p) \in Gp!Record
    BY <1>0, GpRecordsDiffer DEF Gp!Put, Gp!TypeOK
  <2>. QED  BY <1>1, <2>1, GpPrepended
<1>4. \A q : Gp!Creating(q)' <=> Gp!Creating(q) \/ q = p
  BY <1>2 DEF Gp!Creating
<1>5. Gp!TypeOK'
  BY <1>0, <1>2, <1>3 DEF Gp!TypeOK
<1>6. GpServerFits'
  BY <1>0 DEF GpServerFits, Gp!New, GpMade
<1>7. GpCreatesFit'
  BY <1>0, <1>1, <1>2 DEF GpCreatesFit, Gp!Creating, GpMade
<1>8. \A q \in GpPost : /\ Gp!New(q) # GpFake(p) /\ GpError(q) # GpFake(p) /\ (q # p => GpFake(q) # GpFake(p))
  BY GpRecordsDiffer
<1>9. GpRecordsFit'
  <2>. SUFFICES ASSUME NEW q \in GpPost
                PROVE  /\ GpHas(posts', Gp!New(q)) => GpMade(q)
                       /\ GpHas(posts', GpFake(q)) => Gp!Creating(q) \/ q = p
                       /\ GpOnce(posts', GpFake(q))
                       /\ Gp!Creating(q) \/ q = p => ~GpHas(posts', GpError(q))
    BY <1>0, <1>4 DEF GpRecordsFit, Gp!New, GpFake, GpError, GpMade
  <2>. QED  BY <1>0, <1>1, <1>3, <1>8 DEF GpRecordsFit, GpMade
<1>10. GpNotRaced'
  <2>. SUFFICES ASSUME NEW q \in GpPost \ raced
                PROVE  /\ GpOnce(posts', Gp!New(q))
                       /\ Gp!Creating(q) \/ q = p => ~GpHas(posts', Gp!New(q))
                       /\ GpHas(posts', GpError(q)) => ~GpMade(q)
                       /\ loaded /\ GpHas(posted, q) =>
                            \/ GpHas(posts', Gp!New(q))
                            \/ \E m \in notifications : m.post = q
                            \/ Gp!Creating(q) \/ q = p
                            \/ q \in older
    BY <1>0, <1>4 DEF GpNotRaced, Gp!New, GpError, GpMade
  <2>. QED  BY <1>0, <1>1, <1>3, <1>8 DEF GpNotRaced, GpMade
<1>. QED  BY <1>5, <1>6, <1>7, <1>9, <1>10 DEF GpIInv

\* A call of create is over: its record is r now.
LEMMA GpCreateEnds ==
  ASSUME GpBounds, GpIInv, NEW c \in creates, creates' = creates \ {c}, NEW r \in {Gp!New(c.post), GpError(c.post)},
         posts' = Gp!Put(Gp!Fakes(c.post), r),
         UNCHANGED <<ready, logins, posted, removed, mine, notifications, fetching, loads, loaded>>
  PROVE  /\ c.post \in GpPost /\ posts' \in Seq(Gp!Record) /\ creates' \subseteq Gp!Create /\ GpHas(posts', r)
         /\ GpMade(c.post) <=> c.at = "served"
         /\ ~Gp!Creating(c.post)' /\ \A q : q # c.post => (Gp!Creating(q)' <=> Gp!Creating(q))
         /\ GpServerFits' /\ GpCreatesFit'
         /\ ~GpHas(posts', GpFake(c.post))
         /\ ~GpHas(posts, r) => GpOnce(posts', r)
         /\ \A x : x # r => /\ GpHas(posts', x) => GpHas(posts, x)
                            /\ GpOnce(posts, x) => GpOnce(posts', x)
                            /\ x # GpFake(c.post) => (GpHas(posts', x) <=> GpHas(posts, x))
<1>0. Gp!TypeOK /\ GpServerFits /\ GpCreatesFit /\ GpRecordsFit /\ posts \in Seq(Gp!Record) /\ creates \subseteq Gp!Create
  BY DEF GpIInv, Gp!TypeOK
<1>1. c.post \in GpPost /\ c.at \in {"sent", "served", "refused"}
  BY <1>0 DEF Gp!Create
<1>2. GpFake(c.post) # r /\ r \in Gp!Record
  BY <1>1, GpRecordsDiffer
<1>3. Gp!Fakes(c.post) = {i \in DOMAIN posts : posts[i] = GpFake(c.post)}
  BY DEF Gp!Fakes, GpFake
<1>4. GpOnce(posts, GpFake(c.post))
  BY <1>0, <1>1 DEF GpRecordsFit, GpMade
<1>5. /\ posts' \in Seq(Gp!Record) /\ GpHas(posts', r)
      /\ \A x : x # r => /\ GpHas(posts', x) => GpHas(posts, x)
                         /\ GpOnce(posts, x) => GpOnce(posts', x)
                         /\ x # GpFake(c.post) => (GpHas(posts', x) <=> GpHas(posts, x))
      /\ ~GpHas(posts', GpFake(c.post))
      /\ ~GpHas(posts, r) => GpOnce(posts', r)
  BY <1>0, <1>2, <1>3, <1>4, GpPutFits
<1>6. ~Gp!Creating(c.post)' /\ \A q : q # c.post => (Gp!Creating(q)' <=> Gp!Creating(q))
  BY <1>0 DEF Gp!Creating, GpCreatesFit, GpMade
<1>7. GpMade(c.post) <=> c.at = "served"
  BY <1>0 DEF GpCreatesFit, GpMade
<1>8. GpServerFits'
  BY <1>0 DEF GpServerFits, Gp!New, GpMade
<1>9. GpCreatesFit'
  BY <1>0 DEF GpCreatesFit, GpMade
<1>. QED  BY <1>0, <1>1, <1>5, <1>6, <1>7, <1>8, <1>9

LEMMA GpCreatedKeeps == ASSUME GpBounds, GpIInv, NEW c \in creates, Gp!Created(c) PROVE GpIInv'
<1>. DEFINE p == c.post
<1>0. /\ Gp!TypeOK /\ GpRecordsFit /\ GpNotRaced
      /\ c.at = "served" /\ creates' = creates \ {c} /\ posts' = Gp!Put(Gp!Fakes(p), Gp!New(p))
      /\ UNCHANGED <<ready, logins, posted, removed, mine, notifications, input, fetching, loads,
                     loaded, older, raced, events>>
  BY DEF GpIInv, Gp!Created, Gp!Replaced
<1>1. /\ p \in GpPost /\ posts' \in Seq(Gp!Record) /\ creates' \subseteq Gp!Create /\ GpHas(posts', Gp!New(p))
      /\ GpMade(p) <=> c.at = "served"
      /\ ~Gp!Creating(p)' /\ \A q : q # p => (Gp!Creating(q)' <=> Gp!Creating(q))
      /\ GpServerFits' /\ GpCreatesFit'
      /\ ~GpHas(posts', GpFake(p))
      /\ ~GpHas(posts, Gp!New(p)) => GpOnce(posts', Gp!New(p))
      /\ \A x : x # Gp!New(p) => /\ GpHas(posts', x) => GpHas(posts, x)
                                 /\ GpOnce(posts, x) => GpOnce(posts', x)
                                 /\ x # GpFake(p) => (GpHas(posts', x) <=> GpHas(posts, x))
  BY <1>0, GpCreateEnds
<1>2. Gp!Creating(p)
  BY DEF Gp!Creating
<1>3. \A q \in GpPost : /\ GpFake(q) # Gp!New(p) /\ GpError(q) # Gp!New(p) /\ (q # p => Gp!New(q) # Gp!New(p))
                        /\ Gp!New(q) # GpFake(p) /\ GpError(q) # GpFake(p) /\ (q # p => GpFake(q) # GpFake(p))
  BY <1>1, GpRecordsDiffer
<1>4. Gp!TypeOK'
  BY <1>0, <1>1 DEF Gp!TypeOK
<1>5. GpRecordsFit'
  <2>. SUFFICES ASSUME NEW q \in GpPost
                PROVE  /\ GpHas(posts', Gp!New(q)) => GpMade(q)
                       /\ GpHas(posts', GpFake(q)) => Gp!Creating(q)'
                       /\ GpOnce(posts', GpFake(q))
                       /\ Gp!Creating(q)' => ~GpHas(posts', GpError(q))
    BY <1>0 DEF GpRecordsFit, Gp!New, GpFake, GpError, GpMade
  <2>. QED  BY <1>0, <1>1, <1>3 DEF GpRecordsFit, GpMade
<1>6. GpNotRaced'
  <2>. SUFFICES ASSUME NEW q \in GpPost \ raced
                PROVE  /\ GpOnce(posts', Gp!New(q))
                       /\ Gp!Creating(q)' => ~GpHas(posts', Gp!New(q))
                       /\ GpHas(posts', GpError(q)) => ~GpMade(q)
                       /\ loaded /\ GpHas(posted, q) =>
                            \/ GpHas(posts', Gp!New(q))
                            \/ \E m \in notifications : m.post = q
                            \/ Gp!Creating(q)'
                            \/ q \in older
    BY <1>0 DEF GpNotRaced, Gp!New, GpError, GpMade
  <2>1. CASE q = p
    BY <1>0, <1>1, <1>2, <1>3, <2>1 DEF GpNotRaced, GpMade
  <2>2. CASE q # p
    BY <1>0, <1>1, <1>3, <2>2 DEF GpNotRaced, GpMade
  <2>. QED  BY <2>1, <2>2
<1>. QED  BY <1>1, <1>4, <1>5, <1>6 DEF GpIInv

LEMMA GpCreateFailsKeeps == ASSUME GpBounds, GpIInv, NEW c \in creates, Gp!CreateFails(c) PROVE GpIInv'
<1>. DEFINE p == c.post
<1>0. /\ Gp!TypeOK /\ GpRecordsFit /\ GpNotRaced
      /\ creates' = creates \ {c} /\ posts' = Gp!Put(Gp!Fakes(p), GpError(p)) /\ input' = GpTextOf[p]
      /\ raced' = IF c.at = "served" THEN raced \cup {p} ELSE raced
      /\ UNCHANGED <<ready, logins, posted, removed, mine, notifications, fetching, loads, loaded, older>>
  BY DEF GpIInv, Gp!CreateFails, GpError
<1>1. /\ p \in GpPost /\ posts' \in Seq(Gp!Record) /\ creates' \subseteq Gp!Create
      /\ GpMade(p) <=> c.at = "served"
      /\ ~Gp!Creating(p)' /\ \A q : q # p => (Gp!Creating(q)' <=> Gp!Creating(q))
      /\ GpServerFits' /\ GpCreatesFit'
      /\ ~GpHas(posts', GpFake(p))
      /\ \A x : x # GpError(p) => /\ GpHas(posts', x) => GpHas(posts, x)
                                  /\ GpOnce(posts, x) => GpOnce(posts', x)
                                  /\ x # GpFake(p) => (GpHas(posts', x) <=> GpHas(posts, x))
  BY <1>0, GpCreateEnds
<1>2. \A q \in GpPost : /\ GpFake(q) # GpError(p) /\ Gp!New(q) # GpError(p) /\ (q # p => GpError(q) # GpError(p))
                        /\ Gp!New(q) # GpFake(p) /\ GpError(q) # GpFake(p) /\ (q # p => GpFake(q) # GpFake(p))
  BY <1>1, GpRecordsDiffer
<1>3. /\ raced \subseteq raced' /\ raced' \subseteq GpPost
      /\ p \notin raced' => ~GpMade(p)
  BY <1>0, <1>1 DEF Gp!TypeOK
<1>4. Gp!TypeOK'
  <2>1. events' \in 0..GpMaxEvents
    <3>1. Gp!CreateFails(c)
      BY <1>0
    <3>2. CASE Gp!Counted
      BY <1>0, <3>2, GpCountedType
    <3>3. CASE events' = events
      BY <1>0, <3>3 DEF Gp!TypeOK
    <3>. QED  BY <3>1, <3>2, <3>3 DEF Gp!CreateFails
  <2>2. input' \in GpText
    BY <1>0, <1>1 DEF GpBounds
  <2>. QED  BY <1>0, <1>1, <1>3, <2>1, <2>2 DEF Gp!TypeOK
<1>5. GpRecordsFit'
  <2>. SUFFICES ASSUME NEW q \in GpPost
                PROVE  /\ GpHas(posts', Gp!New(q)) => GpMade(q)
                       /\ GpHas(posts', GpFake(q)) => Gp!Creating(q)'
                       /\ GpOnce(posts', GpFake(q))
                       /\ Gp!Creating(q)' => ~GpHas(posts', GpError(q))
    BY <1>0 DEF GpRecordsFit, Gp!New, GpFake, GpError, GpMade
  <2>. QED  BY <1>0, <1>1, <1>2 DEF GpRecordsFit, GpMade
<1>6. GpNotRaced'
  <2>. SUFFICES ASSUME NEW q \in GpPost \ raced'
                PROVE  /\ GpOnce(posts', Gp!New(q))
                       /\ Gp!Creating(q)' => ~GpHas(posts', Gp!New(q))
                       /\ GpHas(posts', GpError(q)) => ~GpMade(q)
                       /\ loaded /\ GpHas(posted, q) =>
                            \/ GpHas(posts', Gp!New(q))
                            \/ \E m \in notifications : m.post = q
                            \/ Gp!Creating(q)'
                            \/ q \in older
    BY <1>0 DEF GpNotRaced, Gp!New, GpError, GpMade
  <2>0. q \in GpPost \ raced
    BY <1>3
  <2>1. CASE q = p
    BY <1>0, <1>1, <1>2, <1>3, <2>0, <2>1 DEF GpNotRaced, GpMade
  <2>2. CASE q # p
    BY <1>0, <1>1, <1>2, <2>0, <2>2 DEF GpNotRaced, GpMade
  <2>. QED  BY <2>1, <2>2
<1>. QED  BY <1>1, <1>4, <1>5, <1>6 DEF GpIInv

LEMMA GpNextIInv == ASSUME GpBounds PROVE GpIInv /\ [Gp!Next]_(Gp!vars) => GpIInv'
<1>. SUFFICES ASSUME GpIInv, [Gp!Next]_(Gp!vars) PROVE GpIInv'
  OBVIOUS
<1>1. CASE UNCHANGED Gp!vars
  <2>1. /\ Gp!TypeOK /\ GpServerFits /\ GpCreatesFit /\ GpRecordsFit /\ GpNotRaced
        /\ UNCHANGED <<ready, logins, posted, removed, mine, notifications, posts, input, fetching,
                       loads, creates, loaded, older, raced, events>>
    BY <1>1 DEF GpIInv, Gp!vars
  <2>2. Gp!TypeOK'
    BY <2>1 DEF Gp!TypeOK
  <2>3. GpServerFits' /\ GpCreatesFit'
    BY <2>1 DEF GpServerFits, GpCreatesFit, Gp!New, GpMade
  <2>4. GpRecordsFit' /\ GpNotRaced'
    BY <2>1 DEF GpRecordsFit, GpNotRaced, Gp!Creating, Gp!New, GpFake, GpError, GpMade
  <2>. QED  BY <2>2, <2>3, <2>4 DEF GpIInv
<1>2. CASE Gp!Next
  BY <1>2, GpPostElsewhereKeeps, GpChangeKeeps, GpRemoveKeeps, GpCreatePostKeeps, GpServeKeeps, GpQuietKeeps, GpResetKeeps,
     GpRemovedKeeps, GpNotifyKeeps,
     GpLoadedKeeps, GpCreatedKeeps, GpCreateFailsKeeps DEF Gp!Next
<1>. QED  BY <1>1, <1>2

\* For any posts: each one that did not race is shown once, or will be, and is shown as sending
\* or failed only if it is.
LEMMA GpPostsAreShown == ASSUME GpBounds PROVE GpIInv => Gp!PostsShown
<1>. SUFFICES ASSUME GpIInv, loaded, NEW p \in GpPost \ raced
              PROVE  /\ p \in Gp!Range(posted) =>
                          \/ Cardinality(Gp!Held(p)) = 1
                          \/ \E n \in notifications : n.post = p
                          \/ \E c \in creates : c.post = p
                          \/ p \in older
                     /\ Cardinality(Gp!Held(p)) <= 1
                     /\ Gp!Held(p) # {} => p \in Gp!Range(posted) \cup removed
                     /\ Gp!Fakes(p) # {} => Gp!Creating(p)
                     /\ (\E i \in DOMAIN posts : posts[i] = [post |-> p, sendStatus |-> "createError"]) =>
                          p \notin Gp!Range(posted) \cup removed
  BY GpCardinality DEF Gp!PostsShown
<1>0. GpRecordsFit /\ GpNotRaced
  BY DEF GpIInv
<1>1. /\ Gp!Held(p) # {} <=> GpHas(posts, Gp!New(p))
      /\ Gp!Fakes(p) # {} <=> GpHas(posts, GpFake(p))
      /\ p \in Gp!Range(posted) <=> GpHas(posted, p)
      /\ (\E i \in DOMAIN posts : posts[i] = [post |-> p, sendStatus |-> "createError"]) <=> GpHas(posts, GpError(p))
  BY GpPostedFits DEF Gp!Held, Gp!Fakes, GpHas, GpFake, GpError
<1>2. \A i, j \in Gp!Held(p) : i = j
  BY <1>0 DEF GpNotRaced, Gp!Held, GpOnce, GpMade
<1>3. (Gp!Held(p) = {} /\ Cardinality(Gp!Held(p)) = 0) \/ (Gp!Held(p) # {} /\ Cardinality(Gp!Held(p)) = 1)
  <2>1. CASE Gp!Held(p) = {}
    BY <2>1, FS_EmptySet
  <2>2. CASE Gp!Held(p) # {}
    <3>1. PICK i : Gp!Held(p) = {i}
      BY <1>2, <2>2
    <3>. QED  BY <2>2, <3>1, FS_Singleton
  <2>. QED  BY <2>1, <2>2
<1>. QED  BY <1>0, <1>1, <1>3 DEF GpRecordsFit, GpNotRaced, Gp!Creating, GpMade

-----------------------------------------------------------------------------
(***************************************************************************)
(* Proofs about the groups of Glip: for any users and groups, and however  *)
(* fetches, notifications, chats, logins, lost connections and reloads     *)
(* cross, the list is the user's and as the server has it, and a module    *)
(* that waits has something to wait for.                                   *)
(***************************************************************************)

GgBounds ==
  /\ GgMaxLogins \in Nat /\ GgMaxChanges \in Nat \ {0} /\ GgMaxEvents \in Nat
  /\ none \notin Owner /\ none \notin Gg!Message

\* A module that is ready has data, and nothing is heard without a connection.
GgHasData ==
  /\ status = "ready" /\ owner # none => data.timestamp
  /\ ~connected => message = none /\ pushed = {}

\* Whose the data are, and those in Storage.
GgOwned ==
  ~crossed =>
    /\ data.of \in {owner, none} \/ (owner = none /\ status = "ready")
    /\ \A o \in Owner : kept[o].of \in {o, none} /\ (~cached => kept[o].of = none)
    /\ status = "pending" /\ ~cached => data.of = none
    /\ status = "initializing" => owner # none

\* A fetch that is not late is the one _promise stands for, and the user's.
GgOneFetch ==
  ~crossed =>
    /\ \A f \in fetches : ~f.late => f.of = owner /\ promise
    /\ \A f, h \in fetches : ~f.late /\ ~h.late => f = h
    /\ status = "pending" => ~promise /\ timer = "none"
    /\ promise /\ owner # none => \E f \in fetches : ~f.late

\* Who waits for data, or polls, has something to wait for.
GgNeedsFetch == (status = "initializing" /\ ~data.timestamp) \/ (status # "pending" /\ polling)
GgWaits ==
  ~crossed /\ owner # none /\ GgNeedsFetch => (\E f \in fetches : ~f.late) \/ timer # "none"

\* What was not missed is as the server has it, or its last version is on its way.
GgHeard ==
  ~crossed /\ owner # none /\ data.timestamp =>
    \A g \in GgGroup \ missed : Gg!Told(g) \/ data.groups[g] = member[owner][g]

GgIInv == Gg!TypeOK /\ GgHasData /\ GgOwned /\ GgOneFetch /\ GgWaits /\ GgHeard

--------------------
(* Data and fetches. *)

LEMMA GgBlankFits == Gg!Blank \in Gg!Data /\ Gg!Blank.of = none /\ ~Gg!Blank.timestamp
  BY DEF Gg!Blank, Gg!Data, Gg!Groups

LEMMA GgHoldsFits ==
  ASSUME Gg!TypeOK, NEW d \in Gg!Data, Gg!Holds(d)
  PROVE  /\ data' = d /\ kept' \in [Owner -> Gg!Data]
         /\ \A o \in Owner : kept'[o] = kept[o] \/ (cached /\ o = owner /\ kept'[o] = d)
  BY DEF Gg!Holds, Gg!TypeOK

LEMMA GgWithGroupFits ==
  ASSUME Gg!TypeOK, NEW g \in GgGroup, NEW v \in Nat
  PROVE  /\ Gg!WithGroup(g, v) \in Gg!Data /\ Gg!WithGroup(g, v).of = owner
         /\ Gg!WithGroup(g, v).timestamp = data.timestamp
         /\ Gg!WithGroup(g, v).groups = [data.groups EXCEPT ![g] = v]
  BY DEF Gg!WithGroup, Gg!TypeOK, Gg!Data, Gg!Groups

LEMMA GgAskedFits ==
  ASSUME NEW f \in Gg!Fetch
  PROVE  /\ [f EXCEPT !.init = @ \/ ~f.late] \in Gg!Fetch
         /\ [f EXCEPT !.init = @ \/ ~f.late].late = f.late
         /\ [f EXCEPT !.init = @ \/ ~f.late].of = f.of
<1>1. (f.init \/ ~f.late) \in BOOLEAN
  OBVIOUS
<1>2. PICK b \in BOOLEAN : b = (f.init \/ ~f.late)
  BY <1>1
<1>3. [f EXCEPT !.init = @ \/ ~f.late] = [f EXCEPT !.init = b]
  BY <1>2
<1>. QED  BY <1>3 DEF Gg!Fetch

\* Afterwards there is a fetch for the user, one.
LEMMA GgFetchDataFits ==
  ASSUME Gg!TypeOK, GgOneFetch, owner # none, Gg!FetchData(TRUE) \/ Gg!FetchData(FALSE)
  PROVE  /\ fetches' \subseteq Gg!Fetch /\ promise'
         /\ ~crossed => /\ \A f \in fetches' : ~f.late => f.of = owner
                        /\ \A f, h \in fetches' : ~f.late /\ ~h.late => f = h
                        /\ \E f \in fetches' : ~f.late
<1>0. owner \in Owner /\ fetches \subseteq Gg!Fetch /\ promise \in BOOLEAN
  BY DEF Gg!TypeOK
<1>1. CASE promise
  <2>1. promise' /\ (fetches' = fetches \/ fetches' = {[f EXCEPT !.init = @ \/ ~f.late] : f \in fetches})
    BY <1>1 DEF Gg!FetchData
  <2>2. CASE fetches' = fetches
    BY <1>0, <1>1, <2>1, <2>2 DEF GgOneFetch
  <2>3. CASE fetches' = {[f EXCEPT !.init = @ \/ ~f.late] : f \in fetches}
    <3>. DEFINE A(f) == [f EXCEPT !.init = @ \/ ~f.late]
    <3>1. fetches' = {A(f) : f \in fetches}
      BY <2>3
    <3>2. \A f \in fetches : A(f) \in Gg!Fetch /\ A(f).late = f.late /\ A(f).of = f.of
      BY <1>0, GgAskedFits
    <3>. HIDE DEF A
    <3>3. fetches' \subseteq Gg!Fetch /\ \A f \in fetches' : \E e \in fetches : f = A(e)
      BY <3>1, <3>2
    <3>4. ~crossed => \A f \in fetches' : ~f.late => f.of = owner
      BY <3>2, <3>3 DEF GgOneFetch
    <3>5. ~crossed => \A f, h \in fetches' : ~f.late /\ ~h.late => f = h
      <4>. SUFFICES ASSUME ~crossed, NEW f \in fetches', NEW h \in fetches', ~f.late, ~h.late PROVE f = h
        OBVIOUS
      <4>1. PICK e \in fetches, k \in fetches : f = A(e) /\ h = A(k)
        BY <3>3
      <4>2. ~e.late /\ ~k.late
        BY <3>2, <4>1
      <4>. QED  BY <4>1, <4>2 DEF GgOneFetch
    <3>6. ~crossed => \E f \in fetches' : ~f.late
      <4>. SUFFICES ASSUME ~crossed PROVE \E f \in fetches' : ~f.late
        OBVIOUS
      <4>1. PICK e \in fetches : ~e.late
        BY <1>1 DEF GgOneFetch
      <4>2. A(e) \in fetches' /\ ~A(e).late
        BY <3>1, <3>2, <4>1
      <4>. QED  BY <4>2
    <3>. QED  BY <2>1, <3>3, <3>4, <3>5, <3>6
  <2>. QED  BY <2>1, <2>2, <2>3
<1>2. CASE ~promise
  <2>1. PICK n \in Gg!Fetch : n.of = owner /\ ~n.late /\ fetches' = fetches \cup {n} /\ promise'
    <3>1. Gg!NewFetch(TRUE) \in Gg!Fetch /\ Gg!NewFetch(TRUE).of = owner /\ ~Gg!NewFetch(TRUE).late
      BY <1>0 DEF Gg!NewFetch, Gg!Fetch, Gg!Blank, Gg!Groups
    <3>2. Gg!NewFetch(FALSE) \in Gg!Fetch /\ Gg!NewFetch(FALSE).of = owner /\ ~Gg!NewFetch(FALSE).late
      BY <1>0 DEF Gg!NewFetch, Gg!Fetch, Gg!Blank, Gg!Groups
    <3>3. promise' /\ (fetches' = fetches \cup {Gg!NewFetch(TRUE)} \/ fetches' = fetches \cup {Gg!NewFetch(FALSE)})
      BY <1>2 DEF Gg!FetchData
    <3>. QED  BY <3>1, <3>2, <3>3
  <2>2. ~crossed => \A f \in fetches : f.late
    BY <1>2 DEF GgOneFetch
  <2>. QED  BY <1>0, <2>1, <2>2
<1>. QED  BY <1>1, <1>2

LEMMA GgLateFits ==
  ASSUME Gg!TypeOK
  PROVE  Gg!Late(fetches) \subseteq Gg!Fetch /\ \A f \in Gg!Late(fetches) : f.late
<1>1. fetches \subseteq Gg!Fetch
  BY DEF Gg!TypeOK
<1>2. \A f \in Gg!Fetch : [f EXCEPT !.late = TRUE] \in Gg!Fetch /\ [f EXCEPT !.late = TRUE].late
  BY DEF Gg!Fetch
<1>. QED  BY <1>1, <1>2 DEF Gg!Late

--------------------
(* Actions. *)

LEMMA GgInitIInv == ASSUME GgBounds PROVE Gg!Init => GgIInv
<1>. SUFFICES ASSUME Gg!Init PROVE GgIInv
  OBVIOUS
<1>0. /\ cached \in BOOLEAN /\ polling \in BOOLEAN
      /\ clock = 1 /\ member \in [Owner -> [GgGroup -> {0, 1}]]
      /\ owner = none /\ connected = TRUE /\ active = TRUE
      /\ logins = 0 /\ events = 0 /\ status = "pending"
      /\ data = Gg!Blank /\ kept = [o \in Owner |-> Gg!Blank]
      /\ fetches = {} /\ promise = FALSE /\ timer = "none" /\ pushed = {} /\ message = none
      /\ chats = {} /\ missed = {} /\ crossed = FALSE
  BY DEF Gg!Init
<1>1. Gg!TypeOK
  <2>1. /\ clock \in 1..GgMaxChanges /\ logins \in 0..GgMaxLogins /\ events \in 0..GgMaxEvents
        /\ member \in [Owner -> Gg!Groups]
    BY <1>0 DEF GgBounds, Gg!Groups
  <2>. QED  BY <1>0, <2>1, GgBlankFits DEF Gg!TypeOK
<1>2. GgHasData /\ GgOneFetch /\ GgWaits /\ GgHeard
  BY <1>0 DEF GgHasData, GgOneFetch, GgWaits, GgHeard, Gg!Told
<1>3. GgOwned
  BY <1>0, GgBlankFits DEF GgOwned
<1>. QED  BY <1>1, <1>2, <1>3 DEF GgIInv

LEMMA GgInitializeKeeps == ASSUME GgBounds, GgIInv, Gg!Initialize PROVE GgIInv'
<1>0. /\ Gg!TypeOK /\ GgHasData /\ GgOwned /\ GgOneFetch /\ GgWaits /\ GgHeard
      /\ owner # none /\ connected /\ status = "pending" /\ status' = "initializing"
      /\ IF active THEN Gg!FetchData(TRUE) /\ UNCHANGED timer
         ELSE timer' = (IF polling THEN "poll" ELSE "retry") /\ UNCHANGED <<fetches, promise>>
      /\ UNCHANGED <<Gg!world, Gg!store, pushed, message, chats, missed, crossed>>
  BY DEF GgIInv, Gg!Initialize, Gg!ShouldInit, Gg!May
<1>1. UNCHANGED <<cached, polling, clock, member, owner, connected, active, logins, events, data, kept,
                  pushed, message, chats, missed, crossed>>
  BY <1>0 DEF Gg!world, Gg!store
<1>2. /\ fetches' \subseteq Gg!Fetch /\ promise' \in BOOLEAN /\ timer' \in {"none", "poll", "retry"}
      /\ ~crossed => /\ \A f \in fetches' : ~f.late => f.of = owner /\ promise'
                     /\ \A f, h \in fetches' : ~f.late /\ ~h.late => f = h
                     /\ promise' => \E f \in fetches' : ~f.late
                     /\ (\E f \in fetches' : ~f.late) \/ timer' # "none"
  <2>1. CASE active
    BY <1>0, <2>1, GgFetchDataFits DEF Gg!TypeOK
  <2>2. CASE ~active
    BY <1>0, <2>2 DEF Gg!TypeOK, GgOneFetch
  <2>. QED  BY <2>1, <2>2
<1>3. Gg!TypeOK'
  BY <1>0, <1>1, <1>2 DEF Gg!TypeOK
<1>4. GgOneFetch'
  BY <1>0, <1>1, <1>2 DEF GgOneFetch
<1>5. GgWaits'
  BY <1>0, <1>1, <1>2 DEF GgWaits
<1>6. GgOwned'
  BY <1>0, <1>1 DEF GgOwned
<1>7. GgHasData' /\ GgHeard'
  BY <1>0, <1>1 DEF GgHasData, GgHeard, Gg!Told
<1>. QED  BY <1>3, <1>4, <1>5, <1>6, <1>7 DEF GgIInv

LEMMA GgInitSuccessKeeps == ASSUME GgIInv, Gg!InitSuccess PROVE GgIInv'
<1>0. /\ Gg!TypeOK /\ GgHasData /\ GgOwned /\ GgOneFetch /\ GgWaits /\ GgHeard
      /\ status = "initializing" /\ data.timestamp /\ status' = "ready"
      /\ UNCHANGED <<Gg!world, Gg!store, fetches, promise, timer, pushed, message, chats, missed, crossed>>
  BY DEF GgIInv, Gg!InitSuccess, Gg!DataReady
<1>1. UNCHANGED <<cached, polling, clock, member, owner, connected, active, logins, events, data, kept,
                  fetches, promise, timer, pushed, message, chats, missed, crossed>>
  BY <1>0 DEF Gg!world, Gg!store
<1>2. Gg!TypeOK'
  BY <1>0, <1>1 DEF Gg!TypeOK
<1>3. GgOwned'
  BY <1>0, <1>1 DEF GgOwned
<1>4. GgOneFetch'
  BY <1>0, <1>1 DEF GgOneFetch
<1>5. GgWaits'
  BY <1>0, <1>1 DEF GgWaits, GgNeedsFetch
<1>6. GgHasData' /\ GgHeard'
  BY <1>0, <1>1 DEF GgHasData, GgHeard, Gg!Told
<1>. QED  BY <1>2, <1>3, <1>4, <1>5, <1>6 DEF GgIInv

LEMMA GgResetKeeps == ASSUME GgBounds, GgIInv, Gg!Reset PROVE GgIInv'
<1>0. /\ Gg!TypeOK /\ GgHasData /\ GgOwned /\ GgOneFetch /\ GgWaits /\ GgHeard
      /\ status = "ready" /\ status' = "pending"
      /\ timer' = "none" /\ promise' = FALSE /\ Gg!Holds(Gg!Blank) /\ fetches' = Gg!Late(fetches)
      /\ UNCHANGED <<Gg!world, pushed, message, chats, missed, crossed>>
  BY DEF GgIInv, Gg!Reset, Gg!ShouldReset
<1>1. UNCHANGED <<cached, polling, clock, member, owner, connected, active, logins, events, pushed, message,
                  chats, missed, crossed>>
  BY <1>0 DEF Gg!world
<1>2. /\ data' = Gg!Blank /\ kept' \in [Owner -> Gg!Data]
      /\ \A o \in Owner : kept'[o] = kept[o] \/ kept'[o] = Gg!Blank
  BY <1>0, GgHoldsFits, GgBlankFits
<1>3. fetches' \subseteq Gg!Fetch /\ \A f \in fetches' : f.late
  BY <1>0, GgLateFits
<1>4. Gg!TypeOK'
  BY <1>0, <1>1, <1>2, <1>3, GgBlankFits DEF Gg!TypeOK
<1>5. GgOwned'
  BY <1>0, <1>1, <1>2, GgBlankFits DEF GgOwned
<1>6. GgOneFetch'
  BY <1>0, <1>1, <1>3 DEF GgOneFetch
<1>7. GgHasData' /\ GgHeard'
  BY <1>0, <1>1, <1>2, GgBlankFits DEF GgHasData, GgHeard, Gg!Told
<1>8. GgWaits'
  BY <1>0 DEF GgWaits, GgNeedsFetch
<1>. QED  BY <1>4, <1>5, <1>6, <1>7, <1>8 DEF GgIInv

LEMMA GgHearKeeps == ASSUME GgBounds, GgIInv, Gg!Hear PROVE GgIInv'
<1>. DEFINE d == Gg!WithGroup(message.group, message.version)
<1>0. /\ Gg!TypeOK /\ GgHasData /\ GgOwned /\ GgOneFetch /\ GgWaits /\ GgHeard
      /\ status = "ready" /\ owner # none /\ message # none /\ message' = none
      /\ Gg!Holds(d) /\ missed' = Gg!Missed(owner, message.group, message.version)
      /\ UNCHANGED <<Gg!world, status, fetches, promise, timer, pushed, chats, crossed>>
  BY DEF GgIInv, Gg!Hear, Gg!ShouldReset, Gg!ShouldHear, Gg!May
<1>1. UNCHANGED <<cached, polling, clock, member, owner, connected, active, logins, events, status,
                  fetches, promise, timer, pushed, chats, crossed>>
  BY <1>0 DEF Gg!world
<1>2. owner \in Owner /\ message \in Gg!Message /\ message.group \in GgGroup /\ message.version \in Nat
  BY <1>0 DEF Gg!TypeOK, Gg!Message
<1>3. /\ d \in Gg!Data /\ d.of = owner /\ d.timestamp = data.timestamp
      /\ d.groups = [data.groups EXCEPT ![message.group] = message.version]
  BY <1>0, <1>2, GgWithGroupFits
<1>. HIDE DEF d
<1>4. /\ data' = d /\ kept' \in [Owner -> Gg!Data]
      /\ \A o \in Owner : kept'[o] = kept[o] \/ (cached /\ o = owner /\ kept'[o] = d)
  BY <1>0, <1>3, GgHoldsFits
<1>5. Gg!TypeOK'
  <2>1. missed' \subseteq GgGroup
    BY <1>0, <1>2 DEF Gg!TypeOK, Gg!Missed
  <2>. QED  BY <1>0, <1>1, <1>3, <1>4, <2>1 DEF Gg!TypeOK
<1>6. GgOwned'
  BY <1>0, <1>1, <1>3, <1>4 DEF GgOwned
<1>7. GgOneFetch'
  BY <1>0, <1>1 DEF GgOneFetch
<1>8. GgWaits'
  BY <1>0, <1>1, <1>3, <1>4 DEF GgWaits, GgNeedsFetch
<1>9. GgHeard'
  <2>. SUFFICES ASSUME ~crossed, data'.timestamp, NEW g \in GgGroup \ missed'
                PROVE  Gg!Told(g)' \/ data'.groups[g] = member[owner][g]
    BY <1>0, <1>1 DEF GgHeard
  <2>0. data.timestamp /\ data'.groups = d.groups
    BY <1>3, <1>4
  <2>1. data.groups \in [GgGroup -> Nat]
    BY <1>0 DEF Gg!TypeOK, Gg!Data, Gg!Groups
  <2>2. CASE g = message.group
    <3>1. message.version = member[owner][g]
      BY <1>0, <2>2 DEF Gg!Missed
    <3>. QED  BY <1>2, <1>3, <2>0, <2>1, <2>2, <3>1
  <2>3. CASE g # message.group
    <3>1. g \in GgGroup \ missed /\ d.groups[g] = data.groups[g]
      BY <1>0, <1>3, <2>1, <2>3 DEF Gg!Missed
    <3>2. Gg!Told(g) \/ data.groups[g] = member[owner][g]
      BY <1>0, <2>0, <3>1 DEF GgHeard
    <3>3. Gg!Told(g) => Gg!Told(g)'
      <4>. DEFINE m == [group |-> g, version |-> member[owner][g]]
      <4>1. m # message
        BY <2>3
      <4>2. Gg!Told(g) => m \in pushed
        BY <4>1 DEF Gg!Told
      <4>3. m \in pushed => Gg!Told(g)'
        BY <1>1 DEF Gg!Told
      <4>. QED  BY <4>2, <4>3
    <3>. QED  BY <2>0, <3>1, <3>2, <3>3
  <2>. QED  BY <2>2, <2>3
<1>10. GgHasData'
  BY <1>0, <1>1, <1>3, <1>4 DEF GgHasData
<1>. QED  BY <1>5, <1>6, <1>7, <1>8, <1>9, <1>10 DEF GgIInv

LEMMA GgChangeKeeps == ASSUME GgBounds, GgIInv, NEW o \in Owner, NEW g \in GgGroup, Gg!Change(o, g) PROVE GgIInv'
<1>0. /\ Gg!TypeOK /\ GgHasData /\ GgOwned /\ GgOneFetch /\ GgWaits /\ GgHeard
      /\ clock < GgMaxChanges /\ clock' = clock + 1
      /\ UNCHANGED <<cached, polling, owner, connected, active, logins, status, Gg!store, fetches,
                     promise, timer, message, chats, crossed>>
  BY DEF GgIInv, Gg!Change
<1>1. UNCHANGED <<data, kept>>
  BY <1>0 DEF Gg!store
<1>2. PICK v \in {0, clock + 1} :
        /\ member' = [member EXCEPT ![o][g] = v]
        /\ IF o # owner THEN UNCHANGED <<pushed, missed, events>>
           ELSE \/ /\ connected
                   /\ pushed' = pushed \cup {[group |-> g, version |-> v]}
                   /\ UNCHANGED <<missed, events>>
                \/ missed' = missed \cup {g} /\ Gg!Counted /\ UNCHANGED pushed
  BY DEF Gg!Change
<1>3. v \in Nat
  BY <1>0, <1>2 DEF Gg!TypeOK
<1>4. /\ member' \in [Owner -> Gg!Groups]
      /\ \A p \in Owner, h \in GgGroup : member'[p][h] = IF p = o /\ h = g THEN v ELSE member[p][h]
  BY <1>0, <1>2, <1>3 DEF Gg!TypeOK, Gg!Groups
<1>5. /\ pushed \subseteq pushed' /\ missed \subseteq missed'
      /\ owner = o => g \in missed' \/ [group |-> g, version |-> v] \in pushed'
  BY <1>2
<1>6. Gg!TypeOK'
  <2>1. clock' \in 1..GgMaxChanges
    BY <1>0 DEF Gg!TypeOK, GgBounds
  <2>2. [group |-> g, version |-> v] \in Gg!Message
    BY <1>3 DEF Gg!Message
  <2>3. pushed' \subseteq Gg!Message /\ missed' \subseteq GgGroup /\ events' \in 0..GgMaxEvents
    BY <1>0, <1>2, <2>2 DEF Gg!TypeOK, Gg!Counted, GgBounds
  <2>. QED  BY <1>0, <1>1, <1>4, <2>1, <2>3 DEF Gg!TypeOK
<1>7. GgOwned' /\ GgHasData'
  BY <1>0, <1>1, <1>2 DEF GgOwned, GgHasData
<1>8. GgOneFetch' /\ GgWaits'
  BY <1>0, <1>1 DEF GgOneFetch, GgWaits, GgNeedsFetch
<1>9. GgHeard'
  <2>. SUFFICES ASSUME ~crossed, owner # none, data.timestamp, NEW h \in GgGroup \ missed'
                PROVE  Gg!Told(h)' \/ data.groups[h] = member'[owner][h]
    BY <1>0, <1>1 DEF GgHeard
  <2>1. owner \in Owner
    BY <1>0 DEF Gg!TypeOK
  <2>2. CASE owner = o /\ h = g
    <3>1. member'[owner][h] = v /\ [group |-> h, version |-> v] \in pushed'
      BY <1>4, <1>5, <2>1, <2>2
    <3>. QED  BY <1>0, <3>1 DEF Gg!Told
  <2>3. CASE ~(owner = o /\ h = g)
    <3>1. member'[owner][h] = member[owner][h]
      BY <1>4, <2>1, <2>3
    <3>2. Gg!Told(h) \/ data.groups[h] = member[owner][h]
      BY <1>0, <1>5 DEF GgHeard
    <3>3. Gg!Told(h) => Gg!Told(h)'
      BY <1>0, <1>5, <3>1 DEF Gg!Told
    <3>. QED  BY <3>1, <3>2, <3>3
  <2>. QED  BY <2>2, <2>3
<1>. QED  BY <1>6, <1>7, <1>8, <1>9 DEF GgIInv

LEMMA GgPushKeeps == ASSUME GgBounds, GgIInv, NEW n \in pushed, Gg!Push(n) PROVE GgIInv'
<1>0. /\ Gg!TypeOK /\ GgHasData /\ GgOwned /\ GgOneFetch /\ GgWaits /\ GgHeard
      /\ pushed' = pushed \ {n} /\ message' = n
      /\ missed' = IF message = none THEN missed ELSE missed \cup {message.group}
      /\ UNCHANGED <<Gg!world, status, Gg!store, fetches, promise, timer, chats, crossed>>
  BY DEF GgIInv, Gg!Push
<1>1. UNCHANGED <<cached, polling, clock, member, owner, connected, active, logins, events, data, kept,
                  status, fetches, promise, timer, chats, crossed>>
  BY <1>0 DEF Gg!world, Gg!store
<1>2. /\ n \in Gg!Message /\ pushed' \subseteq Gg!Message /\ missed' \subseteq GgGroup
      /\ missed \subseteq missed'
  BY <1>0 DEF Gg!TypeOK, Gg!Message
<1>3. Gg!TypeOK'
  BY <1>0, <1>1, <1>2 DEF Gg!TypeOK
<1>4. GgOwned' /\ GgHasData'
  BY <1>0, <1>1 DEF GgOwned, GgHasData
<1>5. GgOneFetch' /\ GgWaits'
  BY <1>0, <1>1 DEF GgOneFetch, GgWaits, GgNeedsFetch
<1>6. GgHeard'
  <2>. SUFFICES ASSUME ~crossed, owner # none, data.timestamp, NEW g \in GgGroup \ missed'
                PROVE  Gg!Told(g)' \/ data.groups[g] = member[owner][g]
    BY <1>1 DEF GgHeard
  <2>. DEFINE m == [group |-> g, version |-> member[owner][g]]
  <2>1. Gg!Told(g) \/ data.groups[g] = member[owner][g]
    BY <1>0, <1>2 DEF GgHeard
  <2>2. owner \in Owner /\ m \in Gg!Message
    BY <1>0 DEF Gg!TypeOK, Gg!Message, Gg!Groups
  <2>3. m # message
    BY <1>0, <2>2 DEF GgBounds
  <2>4. Gg!Told(g) => m \in pushed
    BY <2>3 DEF Gg!Told
  <2>5. m \in pushed => Gg!Told(g)'
    BY <1>0, <1>1 DEF Gg!Told
  <2>. QED  BY <2>1, <2>4, <2>5
<1>. QED  BY <1>3, <1>4, <1>5, <1>6 DEF GgIInv

LEMMA GgServeKeeps == ASSUME GgIInv, NEW f \in fetches, Gg!Serve(f) PROVE GgIInv'
<1>0. /\ Gg!TypeOK /\ GgHasData /\ GgOwned /\ GgOneFetch /\ GgWaits /\ GgHeard
      /\ fetches' = (fetches \ {f}) \cup {[f EXCEPT !.served = TRUE, !.groups = member[f.of]]}
      /\ UNCHANGED <<Gg!world, status, Gg!store, promise, timer, pushed, message, chats, missed, crossed>>
  BY DEF GgIInv, Gg!Serve
<1>1. UNCHANGED <<cached, polling, clock, member, owner, connected, active, logins, events, data, kept,
                  status, promise, timer, pushed, message, chats, missed, crossed>>
  BY <1>0 DEF Gg!world, Gg!store
<1>2. PICK s \in Gg!Fetch : s.of = f.of /\ s.late = f.late /\ fetches' = (fetches \ {f}) \cup {s}
  BY <1>0 DEF Gg!TypeOK, Gg!Fetch
<1>3. Gg!TypeOK'
  BY <1>0, <1>1, <1>2 DEF Gg!TypeOK
<1>4. GgOneFetch'
  BY <1>0, <1>1, <1>2 DEF GgOneFetch
<1>5. GgWaits'
  BY <1>0, <1>1, <1>2 DEF GgWaits, GgNeedsFetch
<1>6. GgOwned' /\ GgHasData' /\ GgHeard'
  BY <1>0, <1>1 DEF GgOwned, GgHasData, GgHeard, Gg!Told
<1>. QED  BY <1>3, <1>4, <1>5, <1>6 DEF GgIInv

\* What ends: if it is late, it is of another user; if it is not, no other one is current.
LEMMA GgEndFits ==
  ASSUME GgBounds, GgIInv, NEW f \in fetches, fetches' = fetches \ {f},
         crossed' = (crossed \/ (f.late /\ f.of = owner)), ~crossed'
  PROVE  /\ ~crossed
         /\ f.late => ~Gg!SameOwner(f)
         /\ Gg!SameOwner(f) => owner # none /\ promise /\ \A h \in fetches' : h.late
         /\ ~Gg!SameOwner(f) => \A h \in fetches : ~h.late => h \in fetches'
<1>1. crossed \in BOOLEAN /\ f \in Gg!Fetch /\ f.of \in Owner
  BY DEF GgIInv, Gg!TypeOK, Gg!Fetch
<1>2. ~crossed /\ ~(f.late /\ f.of = owner)
  BY <1>1
<1>3. GgOneFetch
  BY DEF GgIInv
<1>. QED  BY <1>1, <1>2, <1>3 DEF GgOneFetch, Gg!SameOwner, GgBounds

LEMMA GgAnswerKeeps == ASSUME GgBounds, GgIInv, NEW f \in fetches, Gg!Answer(f) PROVE GgIInv'
<1>0. /\ Gg!TypeOK /\ GgHasData /\ GgOwned /\ GgOneFetch /\ GgWaits /\ GgHeard
      /\ fetches' = fetches \ {f}
      /\ crossed' = (crossed \/ (f.late /\ f.of = owner))
      /\ UNCHANGED <<Gg!world, status, pushed, message, chats>>
  BY DEF GgIInv, Gg!Answer
<1>1. UNCHANGED <<cached, polling, clock, member, owner, connected, active, logins, events,
                  status, pushed, message, chats>>
  BY <1>0 DEF Gg!world
<1>2. /\ f \in Gg!Fetch /\ f.of \in Owner /\ f.groups \in Gg!Groups /\ fetches' \subseteq Gg!Fetch
      /\ crossed' \in BOOLEAN
  BY <1>0 DEF Gg!TypeOK, Gg!Fetch
<1>3. CASE Gg!SameOwner(f)
  <2>. DEFINE d == [of |-> f.of, groups |-> f.groups, timestamp |-> TRUE]
  <2>1. /\ Gg!Holds(d) /\ promise' = FALSE /\ timer' = IF polling THEN "poll" ELSE timer
        /\ missed' = {g \in GgGroup : f.groups[g] # member[owner][g] /\ ~Gg!Told(g)}
    BY <1>3 DEF Gg!Answer
  <2>2. d \in Gg!Data /\ d.of = owner /\ d.groups = f.groups /\ d.timestamp
    BY <1>2, <1>3 DEF Gg!Data, Gg!SameOwner
  <2>. HIDE DEF d
  <2>3. /\ data' = d /\ kept' \in [Owner -> Gg!Data]
        /\ \A o \in Owner : kept'[o] = kept[o] \/ (cached /\ o = owner /\ kept'[o] = d)
    BY <1>0, <2>1, <2>2, GgHoldsFits
  <2>4. Gg!TypeOK'
    <3>1. timer' \in {"none", "poll", "retry"} /\ missed' \subseteq GgGroup
      BY <1>0, <2>1 DEF Gg!TypeOK
    <3>. QED  BY <1>0, <1>1, <1>2, <2>1, <2>2, <2>3, <3>1 DEF Gg!TypeOK
  <2>5. ~crossed' => /\ ~crossed /\ owner # none /\ promise /\ ~f.late
                     /\ \A h \in fetches' : h.late
    BY <1>0, <1>3, GgEndFits DEF GgIInv
  <2>6. GgOwned'
    <3>. SUFFICES ASSUME ~crossed' PROVE GgOwned'
      BY DEF GgOwned
    <3>1. ~crossed
      BY <2>5
    <3>2. status # "pending"
      BY <1>0, <2>5, <3>1 DEF GgOneFetch
    <3>. QED  BY <1>0, <1>1, <2>2, <2>3, <3>1, <3>2 DEF GgOwned
  <2>7. GgOneFetch'
    <3>. SUFFICES ASSUME ~crossed' PROVE GgOneFetch'
      BY DEF GgOneFetch
    <3>1. status # "pending"
      BY <1>0, <2>5 DEF GgOneFetch
    <3>. QED  BY <1>1, <2>1, <2>5, <3>1 DEF GgOneFetch
  <2>8. GgWaits'
    BY <1>0, <1>1, <2>1, <2>2, <2>3 DEF GgWaits, GgNeedsFetch
  <2>9. GgHeard'
    BY <1>1, <2>1, <2>2, <2>3 DEF GgHeard, Gg!Told
  <2>10. GgHasData'
    BY <1>0, <1>1, <2>2, <2>3 DEF GgHasData
  <2>. QED  BY <2>4, <2>6, <2>7, <2>8, <2>9, <2>10 DEF GgIInv
<1>4. CASE ~Gg!SameOwner(f)
  <2>1. UNCHANGED <<data, kept, promise, timer, missed>>
    BY <1>4 DEF Gg!Answer
  <2>2. ~crossed' => ~crossed /\ \A h \in fetches : ~h.late => h \in fetches'
    BY <1>0, <1>4, GgEndFits DEF GgIInv
  <2>3. Gg!TypeOK'
    BY <1>0, <1>1, <1>2, <2>1 DEF Gg!TypeOK
  <2>4. GgOwned'
    BY <1>0, <1>1, <2>1, <2>2 DEF GgOwned
  <2>5. GgOneFetch'
    BY <1>0, <1>1, <2>1, <2>2 DEF GgOneFetch
  <2>6. GgWaits'
    BY <1>0, <1>1, <2>1, <2>2 DEF GgWaits, GgNeedsFetch
  <2>7. GgHasData' /\ GgHeard'
    BY <1>0, <1>1, <2>1, <2>2 DEF GgHasData, GgHeard, Gg!Told
  <2>. QED  BY <2>3, <2>4, <2>5, <2>6, <2>7 DEF GgIInv
<1>. QED  BY <1>3, <1>4

LEMMA GgFailKeeps == ASSUME GgBounds, GgIInv, NEW f \in fetches, Gg!Fail(f) PROVE GgIInv'
<1>0. /\ Gg!TypeOK /\ GgHasData /\ GgOwned /\ GgOneFetch /\ GgWaits /\ GgHeard
      /\ Gg!Counted /\ fetches' = fetches \ {f}
      /\ IF Gg!SameOwner(f) THEN promise' = FALSE /\ timer' = Gg!AfterFailure(f) ELSE UNCHANGED <<promise, timer>>
      /\ crossed' = (crossed \/ (f.late /\ f.of = owner))
      /\ UNCHANGED <<cached, polling, clock, member, owner, connected, active, logins, status,
                     pushed, message, chats, missed, data, kept>>
  BY DEF GgIInv, Gg!Fail, Gg!store
<1>1. events' \in 0..GgMaxEvents
  BY <1>0 DEF Gg!Counted, Gg!TypeOK, GgBounds
<1>2. fetches' \subseteq Gg!Fetch /\ crossed' \in BOOLEAN
  BY <1>0 DEF Gg!TypeOK
<1>3. Gg!AfterFailure(f) \in {"poll", "retry"}
  BY DEF Gg!AfterFailure
<1>4. Gg!TypeOK'
  <2>1. promise' \in BOOLEAN /\ timer' \in {"none", "poll", "retry"}
    BY <1>0, <1>3 DEF Gg!TypeOK
  <2>. QED  BY <1>0, <1>1, <1>2, <2>1 DEF Gg!TypeOK
<1>5. ~crossed' => ~crossed
  BY <1>0, GgEndFits DEF GgIInv
<1>6. GgOneFetch' /\ GgWaits'
  <2>. SUFFICES ASSUME ~crossed' PROVE GgOneFetch' /\ GgWaits'
    BY DEF GgOneFetch, GgWaits
  <2>1. CASE Gg!SameOwner(f)
    <3>1. promise' = FALSE /\ timer' # "none"
      BY <1>0, <1>3, <2>1
    <3>2. promise /\ \A h \in fetches' : h.late
      BY <1>0, <2>1, GgEndFits DEF GgIInv
    <3>3. status # "pending"
      BY <1>0, <1>5, <3>2 DEF GgOneFetch
    <3>. QED  BY <1>0, <3>1, <3>2, <3>3 DEF GgOneFetch, GgWaits
  <2>2. CASE ~Gg!SameOwner(f)
    <3>1. UNCHANGED <<promise, timer>>
      BY <1>0, <2>2
    <3>2. \A h \in fetches : ~h.late => h \in fetches'
      BY <1>0, <2>2, GgEndFits DEF GgIInv
    <3>3. GgOneFetch'
      BY <1>0, <1>5, <3>1, <3>2 DEF GgOneFetch
    <3>4. GgWaits'
      BY <1>0, <1>5, <3>1, <3>2 DEF GgWaits, GgNeedsFetch
    <3>. QED  BY <3>3, <3>4
  <2>. QED  BY <2>1, <2>2
<1>7. GgOwned' /\ GgHasData' /\ GgHeard'
  BY <1>0, <1>5 DEF GgOwned, GgHasData, GgHeard, Gg!Told
<1>. QED  BY <1>4, <1>6, <1>7 DEF GgIInv

LEMMA GgTimerFiresKeeps == ASSUME GgBounds, GgIInv, Gg!TimerFires PROVE GgIInv'
<1>0. /\ Gg!TypeOK /\ GgHasData /\ GgOwned /\ GgOneFetch /\ GgWaits /\ GgHeard
      /\ timer # "none" /\ owner # none /\ timer' = "none"
      /\ UNCHANGED <<Gg!world, status, Gg!store, pushed, message, chats, missed>>
  BY DEF GgIInv, Gg!TimerFires
<1>1. UNCHANGED <<cached, polling, clock, member, owner, connected, active, logins, events, data, kept,
                  status, pushed, message, chats, missed>>
  BY <1>0 DEF Gg!world, Gg!store
<1>2. CASE Gg!FetchData(FALSE) /\ UNCHANGED crossed
  <2>1. /\ fetches' \subseteq Gg!Fetch /\ promise'
        /\ ~crossed => /\ \A f \in fetches' : ~f.late => f.of = owner
                       /\ \A f, h \in fetches' : ~f.late /\ ~h.late => f = h
                       /\ \E f \in fetches' : ~f.late
    BY <1>0, <1>2, GgFetchDataFits
  <2>2. promise' \in BOOLEAN
    BY <1>0, <1>2 DEF Gg!FetchData, Gg!TypeOK
  <2>3. Gg!TypeOK'
    BY <1>0, <1>1, <1>2, <2>1, <2>2 DEF Gg!TypeOK
  <2>4. GgOneFetch' /\ GgWaits'
    BY <1>0, <1>1, <1>2, <2>1 DEF GgOneFetch, GgWaits
  <2>5. GgOwned' /\ GgHasData' /\ GgHeard'
    BY <1>0, <1>1, <1>2 DEF GgOwned, GgHasData, GgHeard, Gg!Told
  <2>. QED  BY <2>3, <2>4, <2>5 DEF GgIInv
<1>3. CASE data.timestamp /\ crossed' = (crossed \/ polling) /\ UNCHANGED <<fetches, promise>>
  <2>1. crossed' \in BOOLEAN /\ (~crossed' => ~crossed /\ ~polling)
    BY <1>0, <1>3 DEF Gg!TypeOK
  <2>2. Gg!TypeOK'
    BY <1>0, <1>1, <1>3, <2>1 DEF Gg!TypeOK
  <2>3. GgOneFetch'
    BY <1>0, <1>1, <1>3, <2>1 DEF GgOneFetch
  <2>4. GgWaits'
    BY <1>1, <1>3, <2>1 DEF GgWaits, GgNeedsFetch
  <2>5. GgOwned' /\ GgHasData' /\ GgHeard'
    BY <1>0, <1>1, <2>1 DEF GgOwned, GgHasData, GgHeard, Gg!Told
  <2>. QED  BY <2>2, <2>3, <2>4, <2>5 DEF GgIInv
<1>. QED  BY <1>2, <1>3 DEF Gg!TimerFires

LEMMA GgChatKeeps ==
  ASSUME GgBounds, GgIInv, (\E g \in GgGroup : Gg!StartChat(g)) \/ (\E c \in chats : Gg!ServeChat(c))
  PROVE  GgIInv'
<1>0. /\ Gg!TypeOK /\ GgHasData /\ GgOwned /\ GgOneFetch /\ GgWaits /\ GgHeard
      /\ UNCHANGED <<cached, polling, owner, connected, active, logins, status, Gg!store, fetches,
                     promise, timer, pushed, message, crossed>>
  BY DEF GgIInv, Gg!StartChat, Gg!ServeChat
<1>1. UNCHANGED <<data, kept>>
  BY <1>0 DEF Gg!store
<1>2. GgOwned' /\ GgHasData' /\ GgOneFetch' /\ GgWaits'
  <2>1. GgOwned' /\ GgHasData'
    BY <1>0, <1>1 DEF GgOwned, GgHasData
  <2>2. GgOneFetch' /\ GgWaits'
    BY <1>0, <1>1 DEF GgOneFetch, GgWaits, GgNeedsFetch
  <2>. QED  BY <2>1, <2>2
<1>3. ASSUME NEW g \in GgGroup, Gg!StartChat(g) PROVE GgIInv'
  <2>1. /\ Gg!Settled /\ status = "ready" /\ Gg!Counted /\ UNCHANGED <<clock, member, missed>>
        /\ chats' = chats \cup {[of |-> owner, group |-> g, done |-> FALSE, version |-> 0]}
    BY <1>3 DEF Gg!StartChat
  <2>2. owner \in Owner
    BY <1>0, <2>1 DEF Gg!Settled, Gg!ShouldReset, Gg!May, Gg!TypeOK
  <2>3. events' \in 0..GgMaxEvents /\ chats' \subseteq Gg!Chat
    <3>1. events' \in 0..GgMaxEvents
      BY <1>0, <2>1 DEF Gg!Counted, Gg!TypeOK, GgBounds
    <3>2. [of |-> owner, group |-> g, done |-> FALSE, version |-> 0] \in Gg!Chat
      BY <2>2 DEF Gg!Chat
    <3>. QED  BY <1>0, <2>1, <3>1, <3>2 DEF Gg!TypeOK
  <2>4. Gg!TypeOK'
    BY <1>0, <1>1, <2>1, <2>3 DEF Gg!TypeOK
  <2>5. GgHeard'
    BY <1>0, <1>1, <2>1 DEF GgHeard, Gg!Told
  <2>. QED  BY <1>2, <2>4, <2>5 DEF GgIInv
<1>4. ASSUME NEW c \in chats, Gg!ServeChat(c) PROVE GgIInv'
  <2>1. /\ chats' = (chats \ {c}) \cup {[of |-> c.of, group |-> c.group, done |-> TRUE,
                                         version |-> member'[c.of][c.group]]}
        /\ UNCHANGED events
        /\ IF member[c.of][c.group] # 0 THEN UNCHANGED <<clock, member, missed>>
           ELSE /\ clock < GgMaxChanges
                /\ clock' = clock + 1
                /\ member' = [member EXCEPT ![c.of][c.group] = clock + 1]
                /\ missed' = IF c.of = owner THEN missed \cup {c.group} ELSE missed
    BY <1>4 DEF Gg!ServeChat
  <2>2. c.of \in Owner /\ c.group \in GgGroup
    BY <1>0 DEF Gg!TypeOK, Gg!Chat
  <2>4. /\ clock' \in 1..GgMaxChanges /\ member' \in [Owner -> Gg!Groups] /\ missed' \subseteq GgGroup
        /\ \A p \in Owner, h \in GgGroup : p # c.of \/ h # c.group => member'[p][h] = member[p][h]
        /\ missed \subseteq missed'
        /\ member' = member \/ c.of # owner \/ c.group \in missed'
    <3>1. CASE member[c.of][c.group] # 0
      BY <1>0, <2>1, <3>1 DEF Gg!TypeOK
    <3>2. CASE member[c.of][c.group] = 0
      <4>1. clock + 1 \in Nat /\ clock' \in 1..GgMaxChanges
        BY <1>0, <2>1, <3>2 DEF Gg!TypeOK, GgBounds
      <4>2. missed' = IF c.of = owner THEN missed \cup {c.group} ELSE missed
        BY <2>1, <3>2
      <4>3. member' = [member EXCEPT ![c.of][c.group] = clock + 1]
        BY <2>1, <3>2
      <4>4. /\ member' \in [Owner -> Gg!Groups]
            /\ \A p \in Owner, h \in GgGroup : p # c.of \/ h # c.group => member'[p][h] = member[p][h]
        BY <1>0, <2>2, <4>1, <4>3 DEF Gg!TypeOK, Gg!Groups
      <4>5. missed' \subseteq GgGroup /\ missed \subseteq missed' /\ (c.of # owner \/ c.group \in missed')
        BY <1>0, <2>2, <4>2 DEF Gg!TypeOK
      <4>. QED  BY <4>1, <4>4, <4>5
    <3>. QED  BY <3>1, <3>2
  <2>3. chats' \subseteq Gg!Chat
    <3>1. member'[c.of][c.group] \in Nat
      BY <2>2, <2>4 DEF Gg!Groups
    <3>2. [of |-> c.of, group |-> c.group, done |-> TRUE, version |-> member'[c.of][c.group]] \in Gg!Chat
      BY <2>2, <3>1 DEF Gg!Chat
    <3>3. chats \subseteq Gg!Chat
      BY <1>0 DEF Gg!TypeOK
    <3>. QED  BY <2>1, <3>2, <3>3
  <2>5. Gg!TypeOK'
    BY <1>0, <1>1, <2>1, <2>3, <2>4 DEF Gg!TypeOK
  <2>6. GgHeard'
    <3>. SUFFICES ASSUME ~crossed, owner # none, data.timestamp, NEW g \in GgGroup \ missed'
                  PROVE  Gg!Told(g)' \/ data.groups[g] = member'[owner][g]
      BY <1>0, <1>1 DEF GgHeard, Gg!Told
    <3>1. owner \in Owner /\ (Gg!Told(g) \/ data.groups[g] = member[owner][g])
      BY <1>0, <2>4 DEF Gg!TypeOK, GgHeard
    <3>2. member'[owner][g] = member[owner][g]
      BY <2>4, <3>1
    <3>3. Gg!Told(g) => Gg!Told(g)'
      BY <1>0, <3>2 DEF Gg!Told
    <3>. QED  BY <3>1, <3>2, <3>3
  <2>. QED  BY <1>2, <2>5, <2>6 DEF GgIInv
<1>. QED  BY <1>3, <1>4

LEMMA GgChatStartedKeeps == ASSUME GgBounds, GgIInv, NEW c \in chats, Gg!ChatStarted(c) PROVE GgIInv'
<1>. DEFINE v == c.version
            d == [Gg!WithGroup(c.group, v) EXCEPT !.of = c.of]
<1>0. /\ Gg!TypeOK /\ GgHasData /\ GgOwned /\ GgOneFetch /\ GgWaits /\ GgHeard
      /\ chats' = chats \ {c} /\ Gg!Holds(d) /\ missed' = Gg!Missed(c.of, c.group, v)
      /\ crossed' = (crossed \/ c.of # owner \/ status # "ready")
      /\ UNCHANGED <<Gg!world, status, fetches, promise, timer, pushed, message>>
  BY DEF GgIInv, Gg!ChatStarted
<1>1. UNCHANGED <<cached, polling, clock, member, owner, connected, active, logins, events,
                  status, fetches, promise, timer, pushed, message>>
  BY <1>0 DEF Gg!world
<1>2. c.of \in Owner /\ c.group \in GgGroup /\ v \in Nat
  BY <1>0 DEF Gg!TypeOK, Gg!Chat
<1>3. /\ d \in Gg!Data /\ d.of = c.of /\ d.timestamp = data.timestamp
      /\ d.groups = [data.groups EXCEPT ![c.group] = v]
  <2>1. /\ Gg!WithGroup(c.group, v) \in Gg!Data
        /\ Gg!WithGroup(c.group, v).timestamp = data.timestamp
        /\ Gg!WithGroup(c.group, v).groups = [data.groups EXCEPT ![c.group] = v]
    BY <1>0, <1>2, GgWithGroupFits
  <2>. QED  BY <1>2, <2>1 DEF Gg!Data
<1>. HIDE DEF d
<1>4. /\ data' = d /\ kept' \in [Owner -> Gg!Data]
      /\ \A o \in Owner : kept'[o] = kept[o] \/ (cached /\ o = owner /\ kept'[o] = d)
  BY <1>0, <1>3, GgHoldsFits
<1>5. crossed' \in BOOLEAN /\ (~crossed' => ~crossed /\ c.of = owner /\ status = "ready")
  BY <1>0 DEF Gg!TypeOK
<1>6. Gg!TypeOK'
  <2>1. missed' \subseteq GgGroup /\ chats' \subseteq Gg!Chat
    BY <1>0, <1>2 DEF Gg!TypeOK, Gg!Missed
  <2>. QED  BY <1>0, <1>1, <1>3, <1>4, <1>5, <2>1 DEF Gg!TypeOK
<1>7. GgOwned'
  <2>. SUFFICES ASSUME ~crossed' PROVE GgOwned'
    BY DEF GgOwned
  <2>. QED  BY <1>0, <1>1, <1>3, <1>4, <1>5 DEF GgOwned
<1>8. GgOneFetch'
  BY <1>0, <1>1, <1>5 DEF GgOneFetch
<1>9. GgWaits'
  BY <1>0, <1>1, <1>3, <1>4, <1>5 DEF GgWaits, GgNeedsFetch
<1>10. GgHeard'
  <2>. SUFFICES ASSUME ~crossed', owner # none, data.timestamp, NEW g \in GgGroup \ missed'
                PROVE  Gg!Told(g)' \/ d.groups[g] = member[owner][g]
    BY <1>0, <1>1, <1>3, <1>4 DEF GgHeard, Gg!Told
  <2>1. data.groups \in [GgGroup -> Nat]
    BY <1>0 DEF Gg!TypeOK, Gg!Data, Gg!Groups
  <2>2. CASE g = c.group
    <3>1. v = member[owner][g]
      BY <1>0, <1>5, <2>2 DEF Gg!Missed
    <3>. QED  BY <1>2, <1>3, <2>1, <2>2, <3>1
  <2>3. CASE g # c.group
    <3>1. g \in GgGroup \ missed /\ d.groups[g] = data.groups[g]
      BY <1>0, <1>3, <2>1, <2>3 DEF Gg!Missed
    <3>2. Gg!Told(g) \/ data.groups[g] = member[owner][g]
      BY <1>0, <1>5, <3>1 DEF GgHeard
    <3>3. Gg!Told(g) => Gg!Told(g)'
      BY <1>1 DEF Gg!Told
    <3>. QED  BY <3>1, <3>2, <3>3
  <2>. QED  BY <2>2, <2>3
<1>11. GgHasData'
  BY <1>0, <1>1, <1>3, <1>4 DEF GgHasData
<1>. QED  BY <1>6, <1>7, <1>8, <1>9, <1>10, <1>11 DEF GgIInv

LEMMA GgLoginKeeps == ASSUME GgBounds, GgIInv, NEW o \in Owner, Gg!Login(o) PROVE GgIInv'
<1>0. /\ Gg!TypeOK /\ GgHasData /\ GgOwned /\ GgOneFetch /\ GgWaits /\ GgHeard
      /\ Gg!Settled /\ owner = none /\ logins < GgMaxLogins /\ owner' = o /\ logins' = logins + 1
      /\ data' = (IF cached THEN kept[o] ELSE data) /\ missed' = GgGroup
      /\ UNCHANGED <<cached, polling, clock, member, connected, active, events, status, kept,
                     fetches, promise, timer, pushed, message, chats, crossed>>
  BY DEF GgIInv, Gg!Login
<1>1. status # "ready" /\ (~crossed => status = "pending")
  BY <1>0 DEF Gg!Settled, Gg!ShouldReset, Gg!DataReady, Gg!May, GgOwned, Gg!TypeOK
<1>2. Gg!TypeOK'
  <2>1. logins' \in 0..GgMaxLogins /\ data' \in Gg!Data
    BY <1>0 DEF Gg!TypeOK, GgBounds
  <2>. QED  BY <1>0, <2>1 DEF Gg!TypeOK
<1>3. GgOwned'
  BY <1>0, <1>1 DEF GgOwned
<1>4. GgOneFetch'
  <2>1. ~crossed => \A f \in fetches : f.late
    BY <1>0 DEF GgOneFetch, Gg!TypeOK, Gg!Fetch, GgBounds
  <2>. QED  BY <1>0, <1>1, <2>1 DEF GgOneFetch
<1>5. GgHasData' /\ GgWaits' /\ GgHeard'
  BY <1>0, <1>1 DEF GgHasData, GgWaits, GgNeedsFetch, GgHeard, Gg!Told
<1>. QED  BY <1>2, <1>3, <1>4, <1>5 DEF GgIInv

LEMMA GgLogoutKeeps == ASSUME GgBounds, GgIInv, Gg!Logout PROVE GgIInv'
<1>0. /\ Gg!TypeOK /\ GgHasData /\ GgOwned /\ GgOneFetch /\ GgWaits /\ GgHeard
      /\ owner # none /\ owner' = none /\ pushed' = {} /\ message' = none
      /\ data' = (IF cached THEN Gg!Blank ELSE data) /\ fetches' = Gg!Late(fetches)
      /\ crossed' = (crossed \/ status = "initializing")
      /\ UNCHANGED <<cached, polling, clock, member, connected, active, logins, events, status, kept,
                     promise, timer, chats, missed>>
  BY DEF GgIInv, Gg!Logout
<1>1. crossed' \in BOOLEAN /\ (~crossed' => ~crossed /\ status # "initializing")
  BY <1>0 DEF Gg!TypeOK
<1>2. fetches' \subseteq Gg!Fetch /\ \A f \in fetches' : f.late
  BY <1>0, GgLateFits
<1>3. Gg!TypeOK'
  BY <1>0, <1>1, <1>2, GgBlankFits DEF Gg!TypeOK
<1>4. GgOwned'
  <2>. SUFFICES ASSUME ~crossed' PROVE GgOwned'
    BY DEF GgOwned
  <2>1. status \in {"pending", "ready"}
    BY <1>0, <1>1 DEF Gg!TypeOK
  <2>. QED  BY <1>0, <1>1, <2>1, GgBlankFits DEF GgOwned
<1>5. GgOneFetch'
  BY <1>0, <1>1, <1>2 DEF GgOneFetch
<1>6. GgHasData' /\ GgWaits' /\ GgHeard'
  BY <1>0 DEF GgHasData, GgWaits, GgHeard, Gg!Told
<1>. QED  BY <1>3, <1>4, <1>5, <1>6 DEF GgIInv

LEMMA GgTurnKeeps == ASSUME GgBounds, GgIInv, Gg!Turn PROVE GgIInv'
<1>0. /\ Gg!TypeOK /\ GgHasData /\ GgOwned /\ GgOneFetch /\ GgWaits /\ GgHeard /\ (Gg!Counted \/ UNCHANGED events)
      /\ \/ /\ connected' = ~connected /\ pushed' = {} /\ message' = none
            /\ missed' = IF connected THEN GgGroup ELSE missed
            /\ UNCHANGED active
         \/ active' = ~active /\ UNCHANGED <<connected, pushed, message, missed>>
      /\ UNCHANGED <<cached, polling, clock, member, owner, logins, status, data, kept, fetches, promise,
                     timer, chats, crossed>>
  BY DEF GgIInv, Gg!Turn, Gg!store
<1>1. events' \in 0..GgMaxEvents
  BY <1>0 DEF Gg!Counted, Gg!TypeOK, GgBounds
<1>2. /\ connected' \in BOOLEAN /\ active' \in BOOLEAN /\ missed' \subseteq GgGroup
      /\ pushed' \subseteq Gg!Message /\ message' \in Gg!Message \cup {none}
      /\ (~connected' => message' = none /\ pushed' = {})
  BY <1>0 DEF Gg!TypeOK, GgHasData
<1>3. missed' = GgGroup \/ (missed' = missed /\ message' = message /\ pushed' = pushed)
  BY <1>0 DEF GgHasData
<1>4. Gg!TypeOK'
  BY <1>0, <1>1, <1>2 DEF Gg!TypeOK
<1>5. GgOwned' /\ GgHasData'
  BY <1>0, <1>2 DEF GgOwned, GgHasData
<1>6. GgOneFetch' /\ GgWaits'
  BY <1>0 DEF GgOneFetch, GgWaits, GgNeedsFetch
<1>7. GgHeard'
  BY <1>0, <1>3 DEF GgHeard, Gg!Told
<1>. QED  BY <1>4, <1>5, <1>6, <1>7 DEF GgIInv

LEMMA GgReloadKeeps == ASSUME GgBounds, GgIInv, Gg!Reload PROVE GgIInv'
<1>0. /\ Gg!TypeOK /\ GgHasData /\ GgOwned /\ GgOneFetch /\ GgWaits /\ GgHeard /\ Gg!Counted
      /\ owner # none /\ status' = "pending" /\ data' = kept[owner]
      /\ fetches' = {} /\ promise' = FALSE /\ timer' = "none"
      /\ pushed' = {} /\ message' = none /\ chats' = {}
      /\ missed' = GgGroup
      /\ UNCHANGED <<cached, polling, clock, member, owner, connected, active, logins, kept, crossed>>
  BY DEF GgIInv, Gg!Reload
<1>1. events' \in 0..GgMaxEvents /\ owner \in Owner
  BY <1>0 DEF Gg!Counted, Gg!TypeOK, GgBounds
<1>2. Gg!TypeOK'
  BY <1>0, <1>1 DEF Gg!TypeOK
<1>3. GgOwned'
  BY <1>0, <1>1 DEF GgOwned
<1>4. GgHasData' /\ GgOneFetch' /\ GgWaits' /\ GgHeard'
  BY <1>0 DEF GgHasData, GgOneFetch, GgWaits, GgNeedsFetch, GgHeard, Gg!Told
<1>. QED  BY <1>2, <1>3, <1>4 DEF GgIInv

LEMMA GgNextIInv == ASSUME GgBounds PROVE GgIInv /\ [Gg!Next]_(Gg!vars) => GgIInv'
<1>. SUFFICES ASSUME GgIInv, [Gg!Next]_(Gg!vars) PROVE GgIInv'
  OBVIOUS
<1>1. CASE UNCHANGED Gg!vars
  <2>1. Gg!TypeOK /\ GgHasData /\ GgOwned /\ GgOneFetch /\ GgWaits /\ GgHeard
    BY DEF GgIInv
  <2>2. UNCHANGED <<cached, polling, clock, member, owner, connected, active, logins, events, data, kept,
                    status, fetches, promise, timer, pushed, message, chats, missed, crossed>>
    BY <1>1 DEF Gg!vars, Gg!world, Gg!store
  <2>3. Gg!TypeOK' /\ GgHasData' /\ GgOwned'
    BY <2>1, <2>2 DEF Gg!TypeOK, GgHasData, GgOwned
  <2>4. GgOneFetch' /\ GgWaits' /\ GgHeard'
    BY <2>1, <2>2 DEF GgOneFetch, GgWaits, GgNeedsFetch, GgHeard, Gg!Told
  <2>. QED  BY <2>3, <2>4 DEF GgIInv
<1>2. CASE Gg!Next
  BY <1>2, GgInitializeKeeps, GgInitSuccessKeeps, GgResetKeeps, GgHearKeeps, GgLoginKeeps, GgChangeKeeps, GgPushKeeps, GgServeKeeps,
     GgAnswerKeeps, GgFailKeeps, GgTimerFiresKeeps, GgChatKeeps, GgChatStartedKeeps, GgLogoutKeeps, GgTurnKeeps,
     GgReloadKeeps DEF Gg!Next
<1>. QED  BY <1>1, <1>2

\* For any users and groups: the list is the user's and as the server has it but for what was
\* missed or is on its way, who waits has something to wait for, and one fetch is under way.
LEMMA GgGroupsAreServed == ASSUME GgBounds PROVE GgIInv => Gg!GroupsServed
<1>. SUFFICES ASSUME GgIInv, Gg!Settled, ~crossed PROVE Gg!GroupsServed
  BY DEF Gg!GroupsServed
<1>0. Gg!TypeOK /\ GgHasData /\ GgOwned /\ GgOneFetch /\ GgWaits /\ GgHeard
  BY DEF GgIInv
<1>1. data.of \in {owner, none}
  BY <1>0 DEF GgOwned, Gg!Settled, Gg!ShouldReset, Gg!May, Gg!DataReady
<1>2. status = "ready" => \A g \in GgGroup \ missed : data.groups[g] = member[owner][g] \/ Gg!Told(g)
  BY <1>0 DEF Gg!Settled, Gg!ShouldReset, Gg!May, GgHasData, GgHeard
<1>3. owner # none /\ (status = "initializing" \/ (status = "ready" /\ polling)) =>
         fetches # {} \/ timer # "none"
  BY <1>0 DEF GgWaits, GgNeedsFetch, Gg!Settled, Gg!DataReady
<1>4. \A f, h \in fetches : ~f.late /\ ~h.late => f = h
  BY <1>0 DEF GgOneFetch
<1>. QED  BY <1>1, <1>2, <1>3, <1>4 DEF Gg!GroupsServed

-----------------------------------------------------------------------------
(***************************************************************************)
(* Proofs about the persons of Glip: for any persons and batches, and      *)
(* however calls overlap and outlive a login, who was asked for is known   *)
(* or being asked for, and nobody twice at a time.                         *)
(***************************************************************************)

GeBounds == GeMaxLogins \in Nat /\ GeMaxCalls \in Nat

GeAsked == UNION {c.ids : c \in calls}
GeRemaining(o) == UNION {c.rest : c \in {k \in calls : k.of = o}}

\* fetchingIds is what the requests ask for, each of them something else.
GeFetching ==
  /\ fetchingIds = GeAsked
  /\ \A c, d \in calls : c # d => c.ids \cap d.ids = {}

\* Nothing is asked for before the module is ready, when it may still drop what it knows.
GeWantedKnown ==
  owner # none =>
    /\ status # "ready" => wanted = {}
    /\ wanted \subseteq personsMap \cup failed \cup GeAsked \cup GeRemaining(owner)

\* One loadMe at a time, that of the login but for one that found the module initializing.
GeMeLoaded ==
  /\ status # "initializing" => loadMe = {}
  /\ \A o, p \in loadMe : o = p
  /\ owner # none /\ ~crossed =>
       /\ status = "initializing" => loadMe = {owner}
       /\ status = "ready" => owner \in personsMap \cup failed

GeIInv == Ge!TypeOK /\ GeFetching /\ GeWantedKnown /\ GeMeLoaded

--------------------
(* Calls. *)

LEMMA GeInitIInv == ASSUME GeBounds PROVE Ge!Init => GeIInv
<1>. SUFFICES ASSUME Ge!Init PROVE GeIInv
  OBVIOUS
<1>1. Ge!TypeOK
  <2>1. logins \in 0..GeMaxLogins /\ asked \in 0..GeMaxCalls
    BY DEF GeBounds, Ge!Init
  <2>2. /\ owner = none /\ fresh = FALSE /\ status = "pending" /\ personsMap = {}
        /\ kept = [o \in Owner |-> {}] /\ fetchingIds = {} /\ loadMe = {} /\ calls = {}
        /\ wanted = {} /\ failed = {} /\ crossed = FALSE
    BY DEF Ge!Init
  <2>. QED  BY <2>1, <2>2 DEF Ge!TypeOK
<1>2. GeFetching
  BY DEF Ge!Init, GeFetching, GeAsked
<1>. QED  BY <1>1, <1>2 DEF Ge!Init, GeIInv, GeWantedKnown, GeMeLoaded

\* Storage has what there is, of whoever is logged in.
LEMMA GeHoldsFits ==
  ASSUME Ge!TypeOK, NEW persons \in SUBSET Ge!Everyone, Ge!Holds(persons)
  PROVE  personsMap' = persons /\ personsMap' \subseteq Ge!Everyone /\ kept' \in [Owner -> SUBSET Ge!Everyone]
  BY DEF Ge!Holds, Ge!TypeOK

\* A call looks for those of ids that are not known or asked for: the others are in a batch or
\* in the rest.
LEMMA GeBeginFits ==
  ASSUME Ge!TypeOK, GeFetching, NEW C \in SUBSET calls, \A c \in calls \ C : c.ids = {},
         NEW ids \in SUBSET Ge!Everyone, Ge!Begin(C, ids)
  PROVE  /\ calls' \subseteq Ge!Call /\ fetchingIds' \subseteq Ge!Everyone
         /\ C \subseteq calls' /\ GeAsked \subseteq GeAsked'
         /\ GeFetching'
         /\ owner # none =>
              ids \subseteq personsMap \cup GeAsked' \cup (UNION {c.rest : c \in {k \in calls' : k.of = owner}})
<1>. DEFINE new == Ge!Unknown(ids)
<1>0. GeAsked = UNION {c.ids : c \in C} /\ fetchingIds = GeAsked
  BY DEF GeAsked, GeFetching
<1>1. CASE ~Ge!MayAsk(new)
  <2>1. calls' = C /\ UNCHANGED fetchingIds
    BY <1>1 DEF Ge!Begin
  <2>2. owner # none => new = {}
    BY <1>1 DEF Ge!MayAsk
  <2>. QED  BY <1>0, <2>1, <2>2 DEF Ge!TypeOK, GeAsked, GeFetching, Ge!Unknown
<1>2. CASE Ge!MayAsk(new)
  <2>1. PICK batch \in SUBSET new :
          /\ calls' = C \cup {[of |-> owner, ids |-> batch, rest |-> new \ batch]}
          /\ fetchingIds' = fetchingIds \cup batch
    BY <1>2 DEF Ge!Begin
  <2>. DEFINE b == [of |-> owner, ids |-> batch, rest |-> new \ batch]
  <2>2. new \subseteq Ge!Everyone /\ new \cap fetchingIds = {}
    BY DEF Ge!Unknown
  <2>3. b \in Ge!Call /\ b.of = owner /\ b.ids = batch /\ b.rest = new \ batch
    BY <1>2, <2>2 DEF Ge!MayAsk, Ge!Call, Ge!TypeOK
  <2>. HIDE DEF b
  <2>4. calls' = C \cup {b}
    BY <2>1 DEF b
  <2>5. GeAsked' = GeAsked \cup batch
    BY <1>0, <2>3, <2>4 DEF GeAsked
  <2>6. \A c \in C : c.ids \cap batch = {}
    BY <1>0, <2>2
  <2>7. GeFetching'
    BY <1>0, <2>1, <2>3, <2>4, <2>5, <2>6 DEF GeFetching
  <2>8. ids \subseteq personsMap \cup fetchingIds \cup batch \cup b.rest
    BY <2>3 DEF Ge!Unknown
  <2>. QED  BY <1>0, <2>1, <2>2, <2>3, <2>4, <2>5, <2>7, <2>8 DEF Ge!TypeOK
<1>. QED  BY <1>1, <1>2

--------------------
(* Actions. *)

LEMMA GeListenerKeeps ==
  ASSUME GeIInv, Ge!Initialize \/ Ge!Reset \/ (\E o \in Owner : Ge!LoadedMe(o))
  PROVE  GeIInv'
<1>0. /\ Ge!TypeOK /\ GeFetching /\ GeWantedKnown /\ GeMeLoaded
      /\ UNCHANGED <<owner, fresh, logins, asked, fetchingIds, calls, wanted, crossed>>
  BY DEF GeIInv, Ge!Initialize, Ge!Reset, Ge!LoadedMe
<1>f. GeFetching'
  BY <1>0 DEF GeFetching, GeAsked
<1>1. CASE Ge!Initialize
  <2>1. PICK persons \in SUBSET Ge!Everyone : Ge!Holds(persons)
    BY <1>0, <1>1 DEF Ge!Initialize, Ge!TypeOK
  <2>2. /\ owner # none /\ status = "pending" /\ status' = "initializing"
        /\ loadMe' = loadMe \cup {owner} /\ UNCHANGED failed
    BY <1>1 DEF Ge!Initialize, Ge!ShouldInit
  <2>3. Ge!TypeOK'
    BY <1>0, <2>1, <2>2, GeHoldsFits DEF Ge!TypeOK
  <2>4. GeWantedKnown'
    BY <1>0, <2>2 DEF GeWantedKnown
  <2>5. GeMeLoaded'
    BY <1>0, <2>2 DEF GeMeLoaded
  <2>. QED  BY <1>f, <2>3, <2>4, <2>5 DEF GeIInv
<1>2. CASE Ge!Reset
  <2>1. Ge!Holds({}) /\ owner = none /\ status = "ready" /\ status' = "pending" /\ UNCHANGED <<failed, loadMe>>
    BY <1>2 DEF Ge!Reset, Ge!ShouldReset
  <2>2. Ge!TypeOK'
    BY <1>0, <2>1, GeHoldsFits DEF Ge!TypeOK
  <2>. QED  BY <1>0, <1>f, <2>1, <2>2 DEF GeIInv, GeWantedKnown, GeMeLoaded
<1>3. ASSUME NEW o \in Owner, Ge!LoadedMe(o) PROVE GeIInv'
  <2>1. /\ o \in loadMe /\ loadMe' = loadMe \ {o} /\ status' = "ready"
        /\ \/ Ge!Holds(personsMap \cup {o}) /\ UNCHANGED failed
           \/ failed' = failed \cup {o} /\ UNCHANGED <<personsMap, kept>>
    BY <1>3 DEF Ge!LoadedMe
  <2>2. /\ personsMap' \subseteq Ge!Everyone /\ kept' \in [Owner -> SUBSET Ge!Everyone] /\ failed' \subseteq Ge!Everyone
        /\ personsMap \subseteq personsMap' /\ failed \subseteq failed'
        /\ o \in personsMap' \cup failed'
    <3>1. o \in Ge!Everyone /\ personsMap \cup {o} \in SUBSET Ge!Everyone
      BY <1>0 DEF Ge!Everyone, Ge!TypeOK
    <3>2. CASE Ge!Holds(personsMap \cup {o}) /\ UNCHANGED failed
      BY <1>0, <3>1, <3>2, GeHoldsFits DEF Ge!TypeOK
    <3>3. CASE failed' = failed \cup {o} /\ UNCHANGED <<personsMap, kept>>
      BY <1>0, <3>1, <3>3 DEF Ge!TypeOK
    <3>. QED  BY <2>1, <3>2, <3>3
  <2>3. Ge!TypeOK'
    BY <1>0, <2>1, <2>2 DEF Ge!TypeOK
  <2>4. GeWantedKnown'
    BY <1>0, <2>1, <2>2 DEF GeWantedKnown, GeAsked, GeRemaining
  <2>5. GeMeLoaded'
    <3>1. loadMe' = {} /\ status = "initializing"
      BY <1>0, <2>1 DEF GeMeLoaded, Ge!TypeOK
    <3>. QED  BY <1>0, <2>1, <2>2, <3>1 DEF GeMeLoaded
  <2>. QED  BY <1>f, <2>3, <2>4, <2>5 DEF GeIInv
<1>. QED  BY <1>1, <1>2, <1>3

LEMMA GeLoadPersonsKeeps ==
  ASSUME GeBounds, GeIInv, NEW ids \in SUBSET Ge!Everyone, Ge!LoadPersons(ids)
  PROVE  GeIInv'
<1>0. /\ Ge!TypeOK /\ GeFetching /\ GeWantedKnown /\ GeMeLoaded
      /\ status = "ready" /\ owner # none
      /\ asked < GeMaxCalls /\ asked' = asked + 1 /\ wanted' = wanted \cup ids
      /\ Ge!Begin(calls, ids)
      /\ UNCHANGED <<owner, fresh, logins, status, personsMap, kept, loadMe, failed, crossed>>
  BY DEF GeIInv, Ge!LoadPersons
<1>1. /\ calls' \subseteq Ge!Call /\ fetchingIds' \subseteq Ge!Everyone
      /\ calls \subseteq calls' /\ GeAsked \subseteq GeAsked' /\ GeFetching'
      /\ ids \subseteq personsMap \cup GeAsked' \cup GeRemaining(owner)'
  BY <1>0, GeBeginFits DEF GeRemaining
<1>2. Ge!TypeOK'
  <2>1. asked' \in 0..GeMaxCalls /\ wanted' \subseteq Ge!Everyone
    BY <1>0 DEF Ge!TypeOK, GeBounds
  <2>. QED  BY <1>0, <1>1, <2>1 DEF Ge!TypeOK
<1>3. GeWantedKnown'
  <2>1. GeRemaining(owner) \subseteq GeRemaining(owner)'
    BY <1>0, <1>1 DEF GeRemaining
  <2>. QED  BY <1>0, <1>1, <2>1 DEF GeWantedKnown
<1>4. GeMeLoaded'
  BY <1>0 DEF GeMeLoaded
<1>. QED  BY <1>1, <1>2, <1>3, <1>4 DEF GeIInv

LEMMA GeAnswerKeeps ==
  ASSUME GeIInv, NEW c \in calls, Ge!Answer(c)
  PROVE  GeIInv'
<1>0. /\ Ge!TypeOK /\ GeFetching /\ GeWantedKnown /\ GeMeLoaded
      /\ fetchingIds' = fetchingIds \ c.ids /\ calls' = (calls \ {c}) \cup Ge!Rest(c)
      /\ UNCHANGED <<owner, fresh, logins, asked, status, loadMe, wanted, crossed>>
  BY DEF GeIInv, Ge!Answer
<1>1. PICK got \in SUBSET c.ids : Ge!Holds(personsMap \cup got) /\ failed' = failed \cup (c.ids \ got)
  BY DEF Ge!Answer
<1>2. /\ c \in Ge!Call /\ c.ids \subseteq Ge!Everyone /\ c.rest \subseteq Ge!Everyone /\ c.of \in Owner
      /\ personsMap \cup got \in SUBSET Ge!Everyone
  BY <1>0 DEF Ge!TypeOK, Ge!Call
<1>3. \A r \in Ge!Rest(c) : /\ r \in Ge!Call /\ r.ids = {} /\ r.rest = c.rest /\ r.of = c.of
  BY <1>2 DEF Ge!Rest, Ge!Call
<1>4. c.of = owner /\ c.rest # {} => \E r \in Ge!Rest(c) : r.rest = c.rest /\ r.of = owner
  BY <1>2 DEF Ge!Rest, Ge!Call
<1>5. Ge!TypeOK'
  BY <1>0, <1>1, <1>2, <1>3, GeHoldsFits DEF Ge!TypeOK
<1>6. GeFetching'
  <2>1. GeAsked' = UNION {d.ids : d \in calls \ {c}}
    BY <1>0, <1>3 DEF GeAsked
  <2>2. GeAsked' = GeAsked \ c.ids
    BY <1>0, <2>1 DEF GeAsked, GeFetching
  <2>3. \A d, e \in calls' : d # e => d.ids \cap e.ids = {}
    <3>. SUFFICES ASSUME NEW d \in calls', NEW e \in calls', d # e PROVE d.ids \cap e.ids = {}
      OBVIOUS
    <3>1. CASE d \in Ge!Rest(c) \/ e \in Ge!Rest(c)
      BY <1>3, <3>1
    <3>2. CASE d \in calls /\ e \in calls
      BY <1>0, <3>2 DEF GeFetching
    <3>. QED  BY <1>0, <3>1, <3>2
  <2>. QED  BY <1>0, <2>2, <2>3 DEF GeFetching
<1>7. personsMap' = personsMap \cup got
  BY <1>0, <1>1, <1>2, GeHoldsFits
<1>8. GeWantedKnown'
  <2>. SUFFICES ASSUME owner # none
                PROVE  wanted \subseteq personsMap' \cup failed' \cup GeAsked' \cup GeRemaining(owner)'
    BY <1>0 DEF GeWantedKnown
  <2>1. GeAsked \subseteq GeAsked' \cup c.ids
    BY <1>0 DEF GeAsked
  <2>2. GeRemaining(owner) \subseteq GeRemaining(owner)'
    BY <1>0, <1>4 DEF GeRemaining
  <2>. QED  BY <1>0, <1>1, <1>7, <2>1, <2>2 DEF GeWantedKnown
<1>9. GeMeLoaded'
  BY <1>0, <1>1, <1>7 DEF GeMeLoaded
<1>. QED  BY <1>5, <1>6, <1>8, <1>9 DEF GeIInv

LEMMA GeWakeUpKeeps ==
  ASSUME GeIInv, NEW c \in calls, Ge!WakeUp(c)
  PROVE  GeIInv'
<1>0. /\ Ge!TypeOK /\ GeFetching /\ GeWantedKnown /\ GeMeLoaded
      /\ c.ids = {} /\ Ge!Begin(calls \ {c}, c.rest)
      /\ UNCHANGED <<owner, fresh, logins, asked, status, personsMap, kept, loadMe, wanted, failed,
                     crossed>>
  BY DEF GeIInv, Ge!WakeUp
<1>1. c.rest \in SUBSET Ge!Everyone
  BY <1>0 DEF Ge!TypeOK, Ge!Call
<1>2. /\ calls' \subseteq Ge!Call /\ fetchingIds' \subseteq Ge!Everyone
      /\ calls \ {c} \subseteq calls' /\ GeAsked \subseteq GeAsked' /\ GeFetching'
      /\ owner # none => c.rest \subseteq personsMap \cup GeAsked' \cup GeRemaining(owner)'
  <2>1. \A d \in calls \ (calls \ {c}) : d.ids = {}
    BY <1>0
  <2>2. calls \ {c} \in SUBSET calls
    OBVIOUS
  <2>3. /\ calls' \subseteq Ge!Call /\ fetchingIds' \subseteq Ge!Everyone
        /\ calls \ {c} \subseteq calls' /\ GeAsked \subseteq GeAsked' /\ GeFetching'
        /\ owner # none => c.rest \subseteq personsMap \cup GeAsked'
                                              \cup (UNION {d.rest : d \in {k \in calls' : k.of = owner}})
    BY <1>0, <1>1, <2>1, <2>2, GeBeginFits
  <2>4. personsMap' = personsMap /\ owner' = owner
    BY <1>0
  <2>. QED  BY <2>3, <2>4 DEF GeRemaining
<1>3. Ge!TypeOK'
  BY <1>0, <1>2 DEF Ge!TypeOK
<1>4. GeWantedKnown'
  <2>1. owner # none => GeRemaining(owner) \subseteq personsMap \cup GeAsked' \cup GeRemaining(owner)'
    BY <1>0, <1>2 DEF GeRemaining
  <2>. QED  BY <1>0, <1>2, <2>1 DEF GeWantedKnown
<1>5. GeMeLoaded'
  BY <1>0 DEF GeMeLoaded
<1>. QED  BY <1>2, <1>3, <1>4, <1>5 DEF GeIInv

LEMMA GeSessionKeeps ==
  ASSUME GeBounds, GeIInv, Ge!Logout \/ (\E o \in Owner : Ge!Login(o))
  PROVE  GeIInv'
<1>0. /\ Ge!TypeOK /\ GeFetching /\ GeWantedKnown /\ GeMeLoaded /\ Ge!Settled
      /\ UNCHANGED <<asked, status, kept, fetchingIds, loadMe, calls>>
  BY DEF GeIInv, Ge!Logout, Ge!Login
<1>f. GeFetching'
  BY <1>0 DEF GeFetching, GeAsked
<1>1. CASE Ge!Logout
  <2>1. owner' = none /\ personsMap' = {} /\ UNCHANGED <<fresh, logins, wanted, failed, crossed>>
    BY <1>1 DEF Ge!Logout
  <2>. QED  BY <1>0, <1>f, <2>1 DEF GeIInv, Ge!TypeOK, GeWantedKnown, GeMeLoaded
<1>2. ASSUME NEW o \in Owner, Ge!Login(o) PROVE GeIInv'
  <2>1. /\ owner = none /\ owner' = o /\ fresh' \in BOOLEAN /\ logins < GeMaxLogins
        /\ logins' = logins + 1 /\ personsMap' = kept[o] /\ wanted' = {} /\ failed' = {}
        /\ crossed' = (status = "initializing")
    BY <1>2 DEF Ge!Login
  <2>2. status # "ready"
    BY <1>0, <2>1 DEF Ge!Settled, Ge!ShouldReset
  <2>3. logins' \in 0..GeMaxLogins
    BY <1>0, <2>1 DEF Ge!TypeOK, GeBounds
  <2>4. Ge!TypeOK'
    BY <1>0, <2>1, <2>3 DEF Ge!TypeOK
  <2>5. GeWantedKnown'
    BY <2>1 DEF GeWantedKnown
  <2>6. GeMeLoaded'
    BY <1>0, <2>1, <2>2 DEF GeMeLoaded
  <2>. QED  BY <1>f, <2>4, <2>5, <2>6 DEF GeIInv
<1>. QED  BY <1>1, <1>2

LEMMA GeNextIInv == ASSUME GeBounds PROVE GeIInv /\ [Ge!Next]_(Ge!vars) => GeIInv'
<1>. SUFFICES ASSUME GeIInv, [Ge!Next]_(Ge!vars) PROVE GeIInv'
  OBVIOUS
<1>1. CASE UNCHANGED Ge!vars
  BY <1>1 DEF Ge!vars, GeIInv, Ge!TypeOK, GeFetching, GeAsked, GeRemaining, GeWantedKnown, GeMeLoaded
<1>2. CASE Ge!Next
  BY <1>2, GeListenerKeeps, GeLoadPersonsKeeps, GeAnswerKeeps, GeWakeUpKeeps, GeSessionKeeps DEF Ge!Next
<1>. QED  BY <1>1, <1>2

\* For any persons and batches, and however calls overlap and outlive a login: who was asked for
\* is known, could not be had or is being asked for, once.
LEMMA GePersonsAreKnown == ASSUME GeBounds PROVE GeIInv => Ge!PersonsKnown
<1>. SUFFICES ASSUME GeIInv, Ge!Settled, owner # none PROVE Ge!PersonsKnown
  BY DEF Ge!PersonsKnown
<1>1. /\ fetchingIds = UNION {c.ids : c \in calls}
      /\ \A c, d \in calls : c # d => c.ids \cap d.ids = {}
  BY DEF GeIInv, GeFetching, GeAsked
<1>2. wanted \subseteq personsMap \cup failed \cup (UNION {c.ids : c \in calls})
                           \cup (UNION {c.rest : c \in {k \in calls : k.of = owner}})
  BY DEF GeIInv, GeWantedKnown, GeAsked, GeRemaining
<1>3. status = "ready" /\ ~crossed => owner \in personsMap \cup failed
  BY DEF GeIInv, GeMeLoaded
<1>. QED  BY <1>1, <1>2, <1>3 DEF Ge!PersonsKnown

-----------------------------------------------------------------------------
(***************************************************************************)
(* Proofs about the address book: for any users, contacts and bounds, and  *)
(* however pages, changes, syncs, tabs and logins cross, what it holds is  *)
(* what the server had when the token was given, but for what changed      *)
(* between two pages.                                                      *)
(***************************************************************************)

AbBounds ==
  /\ AbMaxLogins \in Nat /\ AbMaxEvents \in Nat /\ AbMaxChanges \in Nat \ {0}
  /\ none \notin Owner

AbExisting(v) == IF v > 0 THEN v ELSE 0

\* What is held of user o is what the server had at its token, but for what was overtaken.
AbGood(o, d) ==
  /\ d.of \in {o, none}
  /\ d.token <= clock
  /\ d.token = 0 => d.list = Ab!Blank.list
  /\ \A c \in AbContact \ overtaken[o] : Ab!When(book[o][c]) <= d.token => d.list[c] = AbExisting(book[o][c])

AbDataFit ==
  ~crossed => /\ \A o \in Owner : AbGood(o, kept[o])
              /\ owner # none => AbGood(owner, data)
              /\ owner = none /\ status = "pending" => data = Ab!Blank

\* Nothing is in Storage that is not to be there, the contacts have changed by now, and
\* those that were overtaken have.
AbFrame ==
  /\ ~cached => \A o \in Owner : kept[o] = Ab!Blank
  /\ \A o \in Owner, c \in AbContact : Ab!When(book[o][c]) <= clock
  /\ \A o \in Owner : \A c \in overtaken[o] : book[o][c] # 0

\* Whether the first page of r counted contact c, if c has not changed since.
AbAbout1(r, c) == IF r.token = 0 THEN book[r.of][c] > 0 ELSE Ab!When(book[r.of][c]) > r.token

\* What a sync has got of a contact that is not to come: what there was at its last page;
\* if there is another page to come, what has changed since is overtaken.
AbGot(r, c) ==
  /\ Ab!When(book[r.of][c]) <= r.at /\ c \notin overtaken[r.of] =>
       r.got[c] = book[r.of][c] \/ (r.got[c] = 0 /\ ~AbAbout1(r, c))
  /\ r.left # {} /\ Ab!When(book[r.of][c]) > r.at => c \in overtaken[r.of]

AbRunFits(r) ==
  /\ r.of = owner /\ promise = "sync" /\ status # "pending"
  /\ r.token <= data.token /\ r.at <= clock /\ (r.at # 0 => r.token <= r.at)
  /\ r.at # 0 => \A c \in AbContact \ r.left : AbGot(r, c)
  /\ r.at = 0 => r.left = {} /\ \A c \in AbContact : r.got[c] = 0

AbRunsFit ==
  ~crossed =>
    /\ \A r \in runs : ~r.late => AbRunFits(r)
    /\ \A r, q \in runs : ~r.late /\ ~q.late => r = q
    /\ status = "pending" => promise = "none" /\ timer = "none"
    /\ promise = "sync" /\ owner # none => \E r \in runs : ~r.late

\* Somebody is to ask for what the module waits for.
AbWatched ==
  /\ timer = "retry" => ~polling
  /\ /\ ~crossed /\ owner # none /\ status # "pending" /\ mayRead
     /\ polling \/ (status = "initializing" /\ data.token = 0)
     /\ promise # "failed"
     => timer # "none" \/ runs # {}

AbCore == Ab!TypeOK /\ AbDataFit /\ AbRunsFit /\ AbWatched
AbIInv == Ab!TypeOK /\ AbDataFit /\ AbRunsFit /\ AbWatched /\ AbFrame

--------------------
(* Data. *)

LEMMA AbTypes ==
  ASSUME AbBounds, Ab!TypeOK
  PROVE  /\ clock \in Nat \ {0} /\ AbMaxChanges \in Nat /\ clock <= AbMaxChanges
         /\ \A o \in Owner, c \in AbContact : book[o][c] \in Int
         /\ data.token \in Nat /\ \A c \in AbContact : data.list[c] \in Nat
         /\ \A o \in Owner : kept[o] \in Ab!Data
         /\ \A r \in runs : /\ r \in Ab!Run /\ r.of \in Owner /\ r.token \in Nat /\ r.at \in Nat
                            /\ \A c \in AbContact : r.got[c] \in Int
  BY DEF AbBounds, Ab!TypeOK, Ab!Data, Ab!Run

LEMMA AbNeverThere ==
  ASSUME NEW v \in Int
  PROVE  Ab!When(v) \in Nat /\ (Ab!When(v) <= 0 => v = 0 /\ AbExisting(v) = 0) /\ (v # 0 => Ab!When(v) > 0)
  BY DEF Ab!When, AbExisting

LEMMA AbBlankFits ==
  ASSUME AbBounds, Ab!TypeOK
  PROVE  Ab!Blank \in Ab!Data /\ \A o \in Owner : AbGood(o, Ab!Blank)
<1>1. Ab!Blank \in Ab!Data
  BY DEF Ab!Blank, Ab!Data
<1>2. ASSUME NEW o \in Owner PROVE AbGood(o, Ab!Blank)
  <2>1. clock \in Nat /\ \A c \in AbContact : book[o][c] \in Int
    BY AbTypes
  <2>2. Ab!Blank.of = none /\ Ab!Blank.token = 0 /\ \A c \in AbContact : Ab!Blank.list[c] = 0
    BY DEF Ab!Blank
  <2>3. \A c \in AbContact : Ab!When(book[o][c]) <= 0 => AbExisting(book[o][c]) = 0
    BY <2>1 DEF Ab!When, AbExisting
  <2>. QED  BY <2>1, <2>2, <2>3 DEF AbGood
<1>. QED  BY <1>1, <1>2

LEMMA AbCountedType == ASSUME AbBounds, Ab!TypeOK, Ab!Counted PROVE events' \in 0..AbMaxEvents
<1>1. AbMaxEvents \in Nat /\ events \in 0..AbMaxEvents /\ events < AbMaxEvents /\ events' = events + 1
  BY DEF AbBounds, Ab!TypeOK, Ab!Counted
<1>. QED  BY <1>1

LEMMA AbHoldsType ==
  ASSUME Ab!TypeOK, NEW d \in Ab!Data, Ab!Holds(d)
  PROVE  data' \in Ab!Data /\ kept' \in [Owner -> Ab!Data]
<1>1. data' = d /\ kept' = IF cached /\ owner # none THEN [kept EXCEPT ![owner] = d] ELSE kept
  BY DEF Ab!Holds
<1>2. kept \in [Owner -> Ab!Data]
  BY DEF Ab!TypeOK
<1>. QED  BY <1>1, <1>2

\* What is held of the user is kept, if it is good.
LEMMA AbHoldsGood ==
  ASSUME Ab!TypeOK, NEW d \in Ab!Data, Ab!Holds(d), UNCHANGED <<clock, book, owner, overtaken>>,
         \A o \in Owner : AbGood(o, kept[o]),
         owner # none => AbGood(owner, d),
         owner = none /\ status' = "pending" => d = Ab!Blank
  PROVE  /\ \A o \in Owner : AbGood(o, kept[o])'
         /\ owner' # none => AbGood(owner, data)'
         /\ owner' = none /\ status' = "pending" => data' = Ab!Blank
<1>1. data' = d /\ kept' = IF cached /\ owner # none THEN [kept EXCEPT ![owner] = d] ELSE kept
  BY DEF Ab!Holds
<1>2. kept \in [Owner -> Ab!Data]
  BY DEF Ab!TypeOK
<1>3. ASSUME NEW o \in Owner PROVE AbGood(o, kept[o])'
  <2>1. AbGood(o, kept'[o])
    <3>1. CASE cached /\ owner # none /\ o = owner
      <4>1. kept'[o] = d
        BY <1>1, <1>2, <3>1
      <4>. QED  BY <3>1, <4>1
    <3>2. CASE ~(cached /\ owner # none /\ o = owner)
      <4>1. kept'[o] = kept[o]
        BY <1>1, <1>2, <3>2
      <4>. QED  BY <4>1
    <3>. QED  BY <3>1, <3>2
  <2>. QED  BY <2>1 DEF AbGood, Ab!When, AbExisting, Ab!Blank
<1>4. owner' # none => AbGood(owner, data)'
  BY <1>1 DEF AbGood, Ab!When, AbExisting, Ab!Blank
<1>. QED  BY <1>1, <1>3, <1>4

LEMMA AbInitIInv == ASSUME AbBounds PROVE Ab!Init => AbIInv
<1>. SUFFICES ASSUME Ab!Init PROVE AbIInv
  OBVIOUS
<1>0. /\ cached \in BOOLEAN /\ polling \in BOOLEAN /\ mayRead \in BOOLEAN
      /\ fresh = FALSE /\ active = TRUE /\ crossed = FALSE
      /\ overtaken = [o \in Owner |-> {}]
  BY DEF Ab!Init
<1>1. /\ clock = 1 /\ book = [o \in Owner |-> [c \in AbContact |-> 1]]
      /\ owner = none /\ logins = 0 /\ events = 0 /\ status = "pending"
      /\ data = Ab!Blank /\ kept = [o \in Owner |-> Ab!Blank]
      /\ runs = {} /\ promise = "none" /\ timer = "none"
  BY DEF Ab!Init
<1>2. Ab!TypeOK
  <2>1. Ab!Blank \in Ab!Data
    BY DEF Ab!Blank, Ab!Data
  <2>2. clock \in 1..AbMaxChanges /\ logins \in 0..AbMaxLogins /\ events \in 0..AbMaxEvents
    <3>1. clock = 1 /\ logins = 0 /\ events = 0
      BY <1>1
    <3>2. AbMaxLogins \in Nat /\ AbMaxEvents \in Nat /\ AbMaxChanges \in Nat \ {0}
      BY DEF AbBounds
    <3>. QED  BY <3>1, <3>2
  <2>3. /\ book \in [Owner -> [AbContact -> Int]] /\ kept \in [Owner -> Ab!Data]
        /\ overtaken \in [Owner -> SUBSET AbContact]
    BY <1>0, <1>1, <2>1
  <2>. QED  BY <1>0, <1>1, <2>1, <2>2, <2>3 DEF Ab!TypeOK
<1>3. AbDataFit
  BY <1>1, <1>2, AbBlankFits DEF AbDataFit
<1>4. AbRunsFit /\ AbWatched
  BY <1>1 DEF AbRunsFit, AbWatched
<1>5. AbFrame
  BY <1>0, <1>1 DEF AbFrame, Ab!When
<1>. QED  BY <1>2, <1>3, <1>4, <1>5 DEF AbIInv

--------------------
(* Syncs. *)

\* A sync goes on while the data get newer.
LEMMA AbRunFrame ==
  ASSUME NEW r, AbRunFits(r), r.token \in Nat, r.at \in Nat,
         clock \in Nat, clock' \in Nat, clock <= clock',
         data.token \in Nat, data'.token \in Nat, data.token <= data'.token,
         UNCHANGED <<book, owner, promise, overtaken>>, status' # "pending"
  PROVE  AbRunFits(r)'
<1>1. r.token <= data'.token /\ r.at <= clock'
  BY DEF AbRunFits
<1>. QED  BY <1>1 DEF AbRunFits, AbGot, AbAbout1, Ab!When

LEMMA AbSyncKeeps ==
  ASSUME AbBounds, Ab!TypeOK, AbRunsFit, NEW d \in Ab!Data, Ab!Sync(d), owner # none,
         UNCHANGED <<clock, book, owner, overtaken, crossed>>, data'.token = d.token,
         ~crossed => promise = "none" \/ data.token <= d.token,
         status' # "pending"
  PROVE  /\ runs' \subseteq Ab!Run /\ promise' \in {"sync", "failed"}
         /\ AbRunsFit'
         /\ ~crossed' /\ promise' # "failed" => runs' # {}
<1>0. d.token \in Nat /\ owner \in Owner /\ runs \subseteq Ab!Run /\ promise \in {"none", "sync", "failed"}
  BY DEF Ab!TypeOK, Ab!Data
<1>1. CASE promise = "none"
  <2>0. PICK n : n = [of |-> owner, late |-> FALSE, token |-> d.token, at |-> 0,
                      got |-> [c \in AbContact |-> 0], left |-> {}]
    OBVIOUS
  <2>1. n \in Ab!Run /\ n.of = owner /\ ~n.late /\ n.token = d.token /\ n.at = 0 /\ n.left = {}
    BY <1>0, <2>0 DEF Ab!Run
  <2>2. \A c \in AbContact : n.got[c] = 0
    BY <2>0
  <2>3. promise' = "sync" /\ runs' = runs \cup {n}
    BY <1>1, <2>0 DEF Ab!Sync
  <2>4. ASSUME ~crossed PROVE \A r \in runs : r.late
    BY <1>1, <2>4 DEF AbRunsFit, AbRunFits
  <2>5. AbRunFits(n)'
    <3>1. n.token <= data'.token /\ n.at <= clock'
      BY <1>0, <2>1, AbTypes
    <3>2. n.of = owner' /\ promise' = "sync" /\ status' # "pending"
      BY <2>1, <2>3
    <3>3. n.at = 0 /\ n.left = {} /\ \A c \in AbContact : n.got[c] = 0
      BY <2>1, <2>2
    <3>. QED  BY <3>1, <3>2, <3>3 DEF AbRunFits
  <2>6. AbRunsFit'
    <3>. SUFFICES ASSUME ~crossed'
                  PROVE  /\ \A r \in runs' : ~r.late => AbRunFits(r)'
                         /\ \A r, q \in runs' : ~r.late /\ ~q.late => r = q
                         /\ status' = "pending" => promise' = "none" /\ timer' = "none"
                         /\ promise' = "sync" /\ owner' # none => \E r \in runs' : ~r.late
      BY DEF AbRunsFit
    <3>1. \A r \in runs' : ~r.late => r = n
      BY <2>3, <2>4
    <3>2. n \in runs' /\ ~n.late
      BY <2>1, <2>3
    <3>. QED  BY <2>5, <3>1, <3>2
  <2>. QED  BY <1>0, <2>1, <2>3, <2>6
<1>2. CASE promise # "none"
  <2>1. UNCHANGED <<runs, promise>>
    BY <1>2 DEF Ab!Sync
  <2>2. ASSUME ~crossed, NEW r \in runs, ~r.late PROVE AbRunFits(r)'
    <3>1. AbRunFits(r) /\ data.token <= data'.token
      BY <1>2, <2>2 DEF AbRunsFit
    <3>. QED  BY <1>0, <2>1, <3>1, AbTypes, AbRunFrame
  <2>3. AbRunsFit'
    BY <1>2, <2>1, <2>2 DEF AbRunsFit
  <2>4. ~crossed' /\ promise' # "failed" => runs' # {}
    BY <1>0, <1>2, <2>1 DEF AbRunsFit
  <2>. QED  BY <1>0, <1>2, <2>1, <2>3, <2>4
<1>. QED  BY <1>1, <1>2

LEMMA AbInitializeKeeps == ASSUME AbBounds, AbCore, Ab!Initialize PROVE AbCore'
<1>0. /\ Ab!TypeOK /\ AbDataFit /\ AbRunsFit /\ AbWatched
      /\ owner # none /\ status = "pending"
      /\ status' = IF data.token # 0 \/ ~mayRead THEN "ready" ELSE "initializing"
      /\ UNCHANGED <<cached, polling, mayRead, clock, book, owner, fresh, active, logins, events, overtaken, crossed>>
  BY DEF AbCore, Ab!Initialize, Ab!ShouldInit, Ab!world
<1>1. PICK expired \in BOOLEAN :
        LET d == IF expired THEN Ab!CleanedUp(data) ELSE data IN
        /\ Ab!Holds(d)
        /\ IF mayRead /\ expired /\ (cached => active)
           THEN Ab!Sync(d) /\ UNCHANGED timer
           ELSE /\ timer' = IF ~mayRead THEN timer ELSE IF polling THEN "poll" ELSE "retry"
                /\ UNCHANGED <<runs, promise>>
  BY DEF Ab!Initialize
<1>. DEFINE d == IF expired THEN Ab!CleanedUp(data) ELSE data
<1>2. d \in Ab!Data /\ (~crossed => AbGood(owner, d)) /\ owner \in Owner /\ status' # "pending"
  <2>1. Ab!Blank \in Ab!Data /\ data \in Ab!Data /\ owner \in Owner /\ \A o \in Owner : AbGood(o, Ab!Blank)
    BY <1>0, AbBlankFits DEF Ab!TypeOK
  <2>2. ~crossed => AbGood(owner, data)
    BY <1>0 DEF AbDataFit
  <2>. QED  BY <1>0, <2>1, <2>2 DEF Ab!CleanedUp
<1>3. Ab!Holds(d)
  BY <1>1
<1>4. IF mayRead /\ expired /\ (cached => active)
      THEN Ab!Sync(d) /\ UNCHANGED timer
      ELSE /\ timer' = IF ~mayRead THEN timer ELSE IF polling THEN "poll" ELSE "retry"
           /\ UNCHANGED <<runs, promise>>
  BY <1>1
<1>. HIDE DEF d
<1>5. data' = d /\ data' \in Ab!Data /\ kept' \in [Owner -> Ab!Data]
  BY <1>0, <1>2, <1>3, AbHoldsType DEF Ab!Holds
<1>6. AbDataFit'
  <2>. SUFFICES ASSUME ~crossed PROVE AbDataFit'
    BY <1>0 DEF AbDataFit
  <2>. QED  BY <1>0, <1>2, <1>3, AbHoldsGood DEF AbDataFit
<1>7. ~crossed => promise = "none" /\ timer = "none" /\ \A r \in runs : r.late
  BY <1>0 DEF AbRunsFit, AbRunFits
<1>8. CASE mayRead /\ expired /\ (cached => active)
  <2>1. Ab!Sync(d) /\ UNCHANGED timer
    BY <1>4, <1>8
  <2>2. /\ runs' \subseteq Ab!Run /\ promise' \in {"sync", "failed"} /\ AbRunsFit'
        /\ ~crossed' /\ promise' # "failed" => runs' # {}
    BY <1>0, <1>2, <1>5, <1>7, <2>1, AbSyncKeeps
  <2>3. status' \in {"pending", "initializing", "ready"}
    BY <1>0
  <2>4. Ab!TypeOK'
    BY <1>0, <1>5, <2>1, <2>2, <2>3 DEF Ab!TypeOK
  <2>5. AbWatched'
    BY <1>0, <2>1, <2>2 DEF AbWatched
  <2>. QED  BY <1>6, <2>2, <2>4, <2>5 DEF AbCore
<1>9. CASE ~(mayRead /\ expired /\ (cached => active))
  <2>1. /\ timer' = IF ~mayRead THEN timer ELSE IF polling THEN "poll" ELSE "retry"
        /\ UNCHANGED <<runs, promise>>
    BY <1>4, <1>9
  <2>2. status' \in {"pending", "initializing", "ready"} /\ timer' \in {"none", "poll", "retry"}
    BY <1>0, <2>1 DEF Ab!TypeOK
  <2>3. Ab!TypeOK'
    BY <1>0, <1>5, <2>1, <2>2 DEF Ab!TypeOK
  <2>4. AbRunsFit'
    BY <1>0, <1>2, <1>7, <2>1 DEF AbRunsFit
  <2>5. AbWatched'
    BY <1>0, <2>1 DEF AbWatched
  <2>. QED  BY <1>6, <2>3, <2>4, <2>5 DEF AbCore
<1>. QED  BY <1>8, <1>9

LEMMA AbInitSuccessKeeps == ASSUME AbBounds, AbCore, Ab!InitSuccess PROVE AbCore'
<1>0. /\ Ab!TypeOK /\ AbDataFit /\ AbRunsFit /\ AbWatched
      /\ status = "initializing" /\ status' = "ready"
      /\ UNCHANGED <<cached, polling, mayRead, clock, book, owner, fresh, active, logins, events,
                     data, kept, runs, promise, timer, overtaken, crossed>>
  BY DEF AbCore, Ab!InitSuccess, Ab!DataReady, Ab!world
<1>1. Ab!TypeOK'
  BY <1>0 DEF Ab!TypeOK
<1>2. AbDataFit'
  BY <1>0 DEF AbDataFit, AbGood, Ab!When, AbExisting, Ab!Blank
<1>3. AbRunsFit'
  BY <1>0 DEF AbRunsFit, AbRunFits, AbGot, AbAbout1, Ab!When
<1>4. AbWatched'
  BY <1>0 DEF AbWatched
<1>. QED  BY <1>1, <1>2, <1>3, <1>4 DEF AbCore

\* The syncs of a login that is over are late.
LEMMA AbRunsLate ==
  ASSUME Ab!TypeOK, runs' = {[r EXCEPT !.late = TRUE] : r \in runs}
  PROVE  runs' \subseteq Ab!Run /\ \A r \in runs' : r.late
<1>1. \A r \in runs : r \in Ab!Run
  BY DEF Ab!TypeOK
<1>2. \A r \in Ab!Run : [r EXCEPT !.late = TRUE] \in Ab!Run /\ [r EXCEPT !.late = TRUE].late
  BY DEF Ab!Run
<1>. QED  BY <1>1, <1>2

LEMMA AbResetKeeps == ASSUME AbBounds, AbCore, Ab!Reset PROVE AbCore'
<1>0. /\ Ab!TypeOK /\ AbDataFit /\ AbRunsFit /\ AbWatched
      /\ owner = none /\ status' = "pending" /\ timer' = "none" /\ promise' = "none"
      /\ Ab!Holds(Ab!Blank)
      /\ runs' = {[r EXCEPT !.late = TRUE] : r \in runs}
      /\ UNCHANGED <<cached, polling, mayRead, clock, book, owner, fresh, active, logins, events, overtaken, crossed>>
  BY DEF AbCore, Ab!Reset, Ab!ShouldReset, Ab!world
<1>1. runs' \subseteq Ab!Run /\ \A r \in runs' : r.late
  BY <1>0, AbRunsLate
<1>2. Ab!Blank \in Ab!Data /\ data' \in Ab!Data /\ kept' \in [Owner -> Ab!Data]
  BY <1>0, AbBlankFits, AbHoldsType
<1>3. Ab!TypeOK'
  BY <1>0, <1>1, <1>2 DEF Ab!TypeOK
<1>4. AbDataFit'
  <2>. SUFFICES ASSUME ~crossed PROVE AbDataFit'
    BY <1>0 DEF AbDataFit
  <2>. QED  BY <1>0, <1>2, AbHoldsGood DEF AbDataFit
<1>5. AbRunsFit' /\ AbWatched'
  BY <1>0, <1>1 DEF AbRunsFit, AbWatched
<1>. QED  BY <1>3, <1>4, <1>5 DEF AbCore

--------------------
(* The server. *)

LEMMA AbChangeContactKeeps ==
  ASSUME AbBounds, AbCore, NEW o \in Owner, NEW c \in AbContact, Ab!ChangeContact(o, c)
  PROVE  AbCore'
<1>0. /\ Ab!TypeOK /\ AbDataFit /\ AbRunsFit /\ AbWatched
      /\ clock < AbMaxChanges /\ clock' = clock + 1
      /\ UNCHANGED <<cached, polling, mayRead, owner, fresh, active, logins, events, status, data, kept,
                     runs, promise, timer, crossed>>
      /\ overtaken' = [overtaken EXCEPT ![o] = IF Ab!Passed(o, c) THEN @ \cup {c} ELSE @ \ {c}]
  BY DEF AbCore, Ab!ChangeContact
<1>1. clock \in Nat \ {0} /\ AbMaxChanges \in Nat
  BY <1>0, AbTypes
<1>2. PICK v \in {clock + 1} \cup (IF book[o][c] > 0 THEN {-clock - 1} ELSE {}) :
        book' = [book EXCEPT ![o][c] = v]
  BY DEF Ab!ChangeContact
<1>3. v \in Int /\ Ab!When(v) = clock + 1
  BY <1>1, <1>2 DEF Ab!When
<1>4. /\ book' \in [Owner -> [AbContact -> Int]]
      /\ Ab!When(book'[o][c]) = clock + 1
      /\ \A p \in Owner, e \in AbContact : p # o \/ e # c => book'[p][e] = book[p][e]
  <2>1. book \in [Owner -> [AbContact -> Int]]
    BY <1>0 DEF Ab!TypeOK
  <2>. QED  BY <1>2, <1>3, <2>1
<1>11. /\ overtaken' \in [Owner -> SUBSET AbContact]
       /\ Ab!Passed(o, c) => c \in overtaken'[o]
       /\ \A p \in Owner, e \in AbContact : p # o \/ e # c => (e \in overtaken'[p] <=> e \in overtaken[p])
  <2>1. overtaken \in [Owner -> SUBSET AbContact]
    BY <1>0 DEF Ab!TypeOK
  <2>. QED  BY <1>0, <2>1
<1>5. \A p \in Owner, e \in AbContact : Ab!When(book'[p][e]) <= clock =>
        p # o \/ e # c
  BY <1>1, <1>4
<1>6. Ab!TypeOK'
  <2>1. clock' \in 1..AbMaxChanges
    BY <1>0, <1>1
  <2>. QED  BY <1>0, <1>4, <1>11, <2>1 DEF Ab!TypeOK
<1>7. ASSUME NEW p \in Owner, NEW d \in Ab!Data, AbGood(p, d) PROVE AbGood(p, d)'
  <2>1. d.token \in Nat /\ d.token <= clock
    BY <1>7 DEF Ab!Data, AbGood
  <2>2. ASSUME NEW e \in AbContact \ overtaken'[p], Ab!When(book'[p][e]) <= d.token
        PROVE  d.list[e] = AbExisting(book'[p][e])
    <3>1. Ab!When(book'[p][e]) <= clock
      <4>1. Ab!When(book'[p][e]) \in Int
        BY <1>4 DEF Ab!When
      <4>. QED  BY <1>1, <2>1, <2>2, <4>1
    <3>2. book'[p][e] = book[p][e] /\ e \notin overtaken[p]
      BY <1>4, <1>5, <1>11, <2>2, <3>1
    <3>. QED  BY <1>7, <2>2, <3>2 DEF AbGood
  <2>3. d.token <= clock'
    BY <1>0, <1>1, <2>1
  <2>. QED  BY <1>7, <2>2, <2>3 DEF AbGood, Ab!When, AbExisting, Ab!Blank
<1>8. AbDataFit'
  <2>. SUFFICES ASSUME ~crossed PROVE AbDataFit'
    BY <1>0 DEF AbDataFit
  <2>1. \A p \in Owner : kept[p] \in Ab!Data /\ AbGood(p, kept[p])
    BY <1>0, AbTypes DEF AbDataFit
  <2>2. \A p \in Owner : AbGood(p, kept[p])'
    BY <1>0, <1>7, <2>1 DEF AbGood
  <2>3. ASSUME owner # none PROVE AbGood(owner, data)'
    <3>1. owner \in Owner /\ data \in Ab!Data /\ AbGood(owner, data)
      BY <1>0, <2>3 DEF Ab!TypeOK, AbDataFit
    <3>. QED  BY <1>0, <1>7, <3>1 DEF AbGood
  <2>. QED  BY <1>0, <2>2, <2>3 DEF AbDataFit, Ab!Blank
<1>9. AbRunsFit'
  <2>1. ASSUME NEW r \in runs, AbRunFits(r) PROVE AbRunFits(r)'
    <3>1. /\ r.of \in Owner /\ r.token \in Nat /\ r.at \in Nat /\ r.at <= clock
          /\ data.token \in Nat
      BY <1>0, <2>1, AbTypes DEF AbRunFits
    <3>2. ASSUME r.at # 0, NEW e \in AbContact \ r.left PROVE AbGot(r, e)'
      <4>1. AbGot(r, e)
        BY <2>1, <3>2 DEF AbRunFits
      <4>2. CASE r.of = o /\ e = c
        <5>1. ~(Ab!When(book'[r.of][e]) <= r.at)
          BY <1>1, <1>4, <3>1, <4>2
        <5>2. r.left # {} => e \in overtaken'[r.of]
          BY <1>11, <3>2, <4>2 DEF Ab!Passed
        <5>. QED  BY <5>1, <5>2 DEF AbGot, Ab!When
      <4>3. CASE ~(r.of = o /\ e = c)
        <5>1. book'[r.of][e] = book[r.of][e] /\ (e \in overtaken'[r.of] <=> e \in overtaken[r.of])
          BY <1>4, <1>11, <3>1, <3>2, <4>3
        <5>. QED  BY <4>1, <5>1 DEF AbGot, AbAbout1, Ab!When
      <4>. QED  BY <4>2, <4>3
    <3>3. r.at <= clock'
      BY <1>0, <1>1, <3>1
    <3>. QED  BY <1>0, <2>1, <3>2, <3>3 DEF AbRunFits
  <2>. QED  BY <1>0, <2>1 DEF AbRunsFit
<1>10. AbWatched'
  BY <1>0 DEF AbWatched
<1>. QED  BY <1>6, <1>8, <1>9, <1>10 DEF AbCore

LEMMA AbServeKeeps == ASSUME AbBounds, AbCore, AbFrame, NEW r \in runs, Ab!Serve(r) PROVE AbCore'
<1>. DEFINE all == IF r.at = 0 THEN Ab!About(owner, r.token) ELSE r.left
<1>0. /\ Ab!TypeOK /\ AbDataFit /\ AbRunsFit /\ AbWatched
      /\ owner # none /\ (r.at = 0 \/ r.left # {})
      /\ crossed' = (crossed \/ r.late)
      /\ UNCHANGED <<cached, polling, mayRead, clock, book, owner, fresh, active, logins, events,
                     status, data, kept, promise, timer, overtaken>>
  BY DEF AbCore, Ab!Serve, Ab!world
<1>1. /\ r \in Ab!Run /\ r.token \in Nat /\ r.at \in Nat /\ owner \in Owner
      /\ \A c \in AbContact : r.got[c] \in Int /\ book[owner][c] \in Int
      /\ clock \in Nat \ {0} /\ data.token \in Nat
  BY <1>0, AbTypes DEF Ab!TypeOK
<1>2. PICK page \in SUBSET all :
        runs' = (runs \ {r}) \cup
                {[r EXCEPT !.at = clock, !.left = all \ page,
                           !.got = [c \in AbContact |-> IF c \in page THEN book[owner][c] ELSE r.got[c]]]}
  BY DEF Ab!Serve
<1>3. all \subseteq AbContact
  BY <1>1 DEF Ab!About, Ab!Run
<1>4. PICK q \in Ab!Run :
        /\ runs' = (runs \ {r}) \cup {q}
        /\ q.of = r.of /\ q.late = r.late /\ q.token = r.token
        /\ q.at = clock
        /\ q.left = all \ page
        /\ \A c \in AbContact : q.got[c] = IF c \in page THEN book[owner][c] ELSE r.got[c]
  <2>1. PICK q : q = [r EXCEPT !.at = clock, !.left = all \ page,
                               !.got = [c \in AbContact |-> IF c \in page THEN book[owner][c] ELSE r.got[c]]]
    OBVIOUS
  <2>2. [c \in AbContact |-> IF c \in page THEN book[owner][c] ELSE r.got[c]] \in [AbContact -> Int]
    BY <1>1
  <2>3. clock \in Nat /\ all \ page \in SUBSET AbContact
    BY <1>1, <1>3
  <2>4. /\ q \in Ab!Run /\ q.of = r.of /\ q.late = r.late /\ q.token = r.token
        /\ q.at = clock
        /\ q.left = all \ page
        /\ q.got = [c \in AbContact |-> IF c \in page THEN book[owner][c] ELSE r.got[c]]
    BY <1>1, <2>1, <2>2, <2>3 DEF Ab!Run
  <2>5. \A c \in AbContact : q.got[c] = IF c \in page THEN book[owner][c] ELSE r.got[c]
    BY <2>4
  <2>6. runs' = (runs \ {r}) \cup {q}
    BY <1>2, <2>1
  <2>. QED  BY <2>4, <2>5, <2>6
<1>5. Ab!TypeOK'
  <2>1. runs' \subseteq Ab!Run /\ crossed' \in BOOLEAN
    BY <1>0, <1>4 DEF Ab!TypeOK
  <2>. QED  BY <1>0, <2>1 DEF Ab!TypeOK
<1>6. AbDataFit'
  BY <1>0 DEF AbDataFit, AbGood, Ab!When, AbExisting, Ab!Blank
<1>7. ASSUME ~crossed, ~r.late PROVE AbRunFits(q)'
  <2>1. AbRunFits(r) /\ AbGood(owner, data)
    BY <1>0, <1>7 DEF AbRunsFit, AbDataFit
  <2>2. r.of = owner /\ promise = "sync" /\ status # "pending" /\ r.token <= data.token
    BY <2>1 DEF AbRunFits
  <2>3. q.token <= data.token /\ q.at <= clock /\ q.at # 0 /\ q.token <= q.at
    BY <1>1, <1>4, <2>1 DEF AbRunFits, AbGood
  <2>4. \A c \in AbContact : AbAbout1(q, c) <=> AbAbout1(r, c)
    BY <1>4 DEF AbAbout1
  <2>5. ASSUME NEW c \in AbContact \ q.left PROVE AbGot(q, c)
    <3>0. ~(Ab!When(book[q.of][c]) > q.at)
      <4>1. Ab!When(book[owner][c]) <= clock
        BY <1>1, <2>5 DEF AbFrame
      <4>2. Ab!When(book[owner][c]) \in Nat
        BY <1>1, AbNeverThere
      <4>. QED  BY <1>1, <1>4, <2>2, <4>1, <4>2
    <3>1. CASE c \in page
      <4>1. q.got[c] = book[q.of][c]
        BY <1>4, <2>2, <3>1
      <4>. QED  BY <3>0, <4>1 DEF AbGot
    <3>2. CASE c \notin page /\ r.at = 0
      <4>1. c \notin all /\ q.got[c] = 0
        BY <1>4, <2>1, <2>5, <3>2 DEF AbRunFits
      <4>2. ~AbAbout1(q, c)
        BY <2>2, <2>4, <2>5, <3>2, <4>1 DEF Ab!About, AbAbout1
      <4>. QED  BY <3>0, <4>1, <4>2 DEF AbGot
    <3>3. CASE c \notin page /\ r.at # 0
      <4>1. c \notin r.left /\ r.left # {} /\ q.got[c] = r.got[c]
        BY <1>0, <1>4, <2>5, <3>3
      <4>2. AbGot(r, c)
        BY <2>1, <3>3, <4>1 DEF AbRunFits
      <4>3. Ab!When(book[r.of][c]) <= r.at \/ c \in overtaken[r.of]
        <5>1. Ab!When(book[r.of][c]) \in Nat
          BY <1>1, <2>2, AbNeverThere
        <5>. QED  BY <1>1, <4>1, <4>2, <5>1 DEF AbGot
      <4>. QED  BY <1>4, <2>4, <3>0, <4>1, <4>2, <4>3 DEF AbGot
    <3>. QED  BY <3>1, <3>2, <3>3
  <2>6. AbRunFits(q)
    BY <1>4, <2>2, <2>3, <2>5 DEF AbRunFits
  <2>. QED  BY <1>0, <2>6 DEF AbRunFits, AbGot, AbAbout1, Ab!When
<1>8. AbRunsFit'
  <2>. SUFFICES ASSUME ~crossed, ~r.late PROVE AbRunsFit'
    BY <1>0 DEF AbRunsFit
  <2>1. \A p \in runs : ~p.late => p = r
    BY <1>0 DEF AbRunsFit
  <2>2. \A p \in runs' : ~p.late => p = q
    BY <1>4, <2>1
  <2>3. q \in runs' /\ ~q.late /\ AbRunFits(q)'
    BY <1>4, <1>7
  <2>. QED  BY <1>0, <2>2, <2>3 DEF AbRunsFit
<1>9. AbWatched'
  BY <1>0, <1>4 DEF AbWatched
<1>. QED  BY <1>5, <1>6, <1>8, <1>9 DEF AbCore

--------------------
(* The end of a sync. *)

LEMMA AbAnswerKeeps == ASSUME AbBounds, AbCore, AbFrame, NEW r \in runs, Ab!Answer(r) PROVE AbCore'
<1>. DEFINE list == Ab!Merged(data.list, r.got)
            d == [of |-> IF data.of = none THEN r.of ELSE data.of, list |-> list, token |-> r.at]
<1>0. /\ Ab!TypeOK /\ AbDataFit /\ AbRunsFit /\ AbWatched
      /\ r.at # 0 /\ r.left = {}
      /\ runs' = runs \ {r} /\ Ab!Holds(d) /\ promise' = "none"
      /\ timer' = IF polling THEN "poll" ELSE timer
      /\ overtaken' = IF owner = none THEN overtaken
                      ELSE [overtaken EXCEPT ![owner] = {c \in @ : r.got[c] # book[owner][c]}]
      /\ crossed' = (crossed \/ r.late \/ (r.token = 0 /\ data.token # 0))
      /\ UNCHANGED <<cached, polling, mayRead, clock, book, owner, fresh, active, logins, events, status>>
  BY DEF AbCore, Ab!Answer, Ab!world
<1>1. /\ r.of \in Owner /\ r.token \in Nat /\ r.at \in Nat
      /\ \A c \in AbContact : r.got[c] \in Int /\ data.list[c] \in Nat
      /\ clock \in Nat /\ data.token \in Nat /\ data \in Ab!Data
      /\ overtaken \in [Owner -> SUBSET AbContact] /\ owner \in Owner \cup {none}
  BY <1>0, AbTypes DEF Ab!TypeOK
<1>10. /\ overtaken' \in [Owner -> SUBSET AbContact]
       /\ \A o \in Owner \ {owner} : overtaken'[o] = overtaken[o]
       /\ owner # none => overtaken'[owner] = {c \in overtaken[owner] : r.got[c] # book[owner][c]}
  <2>1. CASE owner = none
    BY <1>0, <1>1, <2>1
  <2>2. CASE owner # none
    <3>1. owner \in Owner /\ {c \in overtaken[owner] : r.got[c] # book[owner][c]} \in SUBSET AbContact
      BY <1>1, <2>2
    <3>2. overtaken' = [overtaken EXCEPT ![owner] = {c \in overtaken[owner] : r.got[c] # book[owner][c]}]
      BY <1>0, <2>2
    <3>. QED  BY <1>1, <3>1, <3>2
  <2>. QED  BY <2>1, <2>2
<1>2. /\ \A c \in AbContact : list[c] = IF r.got[c] > 0 THEN r.got[c] ELSE IF r.got[c] < 0 THEN 0 ELSE data.list[c]
      /\ list \in [AbContact -> Nat]
  <2>1. list = [c \in AbContact |-> IF r.got[c] > 0 THEN r.got[c] ELSE IF r.got[c] < 0 THEN 0 ELSE data.list[c]]
    BY DEF Ab!Merged
  <2>2. \A c \in AbContact : (IF r.got[c] > 0 THEN r.got[c] ELSE IF r.got[c] < 0 THEN 0 ELSE data.list[c]) \in Nat
    BY <1>1
  <2>. QED  BY <2>1, <2>2
<1>. HIDE DEF list
<1>3. d \in Ab!Data /\ d.of = (IF data.of = none THEN r.of ELSE data.of) /\ d.list = list /\ d.token = r.at
  BY <1>1, <1>2 DEF Ab!Data
<1>. HIDE DEF d
<1>4. data' = d /\ data' \in Ab!Data /\ kept' \in [Owner -> Ab!Data]
  BY <1>0, <1>3, AbHoldsType DEF Ab!Holds
<1>5. Ab!TypeOK'
  <2>1. runs' \subseteq Ab!Run /\ crossed' \in BOOLEAN /\ timer' \in {"none", "poll", "retry"}
    BY <1>0 DEF Ab!TypeOK
  <2>. QED  BY <1>0, <1>4, <1>10, <2>1 DEF Ab!TypeOK
<1>6. ASSUME ~crossed'
      PROVE  /\ ~crossed /\ owner \in Owner /\ owner # none /\ status # "pending"
             /\ AbGood(owner, data)'
             /\ \A q \in runs' : q.late
  <2>1. ~crossed /\ ~r.late /\ ~(r.token = 0 /\ data.token # 0)
    BY <1>0, <1>6
  <2>2. AbRunFits(r) /\ r.of = owner /\ status # "pending" /\ r.token <= data.token
    BY <1>0, <2>1 DEF AbRunsFit, AbRunFits
  <2>3. owner \in Owner /\ owner # none
    BY <1>1, <2>2 DEF AbBounds
  <2>4. AbGood(owner, data) /\ \A q \in runs' : q.late
    BY <1>0, <2>1, <2>3 DEF AbDataFit, AbRunsFit
  <2>5. d.of \in {owner, none} /\ d.token <= clock /\ d.token # 0
    BY <1>0, <1>3, <2>2, <2>4 DEF AbGood, AbRunFits
  <2>6. ASSUME NEW c \in AbContact \ overtaken'[owner], Ab!When(book[owner][c]) <= r.at
        PROVE  list[c] = AbExisting(book[owner][c])
    <3>1. book[owner][c] \in Int /\ r.got[c] \in Int /\ data.list[c] \in Nat
      BY <1>0, <1>1, <2>3, AbTypes
    <3>2. CASE r.got[c] = book[owner][c] /\ book[owner][c] # 0
      BY <1>2, <3>1, <3>2 DEF AbExisting
    <3>3. CASE ~(r.got[c] = book[owner][c] /\ book[owner][c] # 0)
      <4>1. c \notin overtaken[owner]
        BY <1>10, <2>3, <2>6, <3>3 DEF AbFrame
      <4>2. AbGot(r, c)
        BY <1>0, <2>2, <2>6 DEF AbRunFits
      <4>3. r.got[c] = 0 /\ ~AbAbout1(r, c)
        <5>1. CASE book[owner][c] = 0
          <6>1. ~AbAbout1(r, c)
            BY <1>1, <2>2, <5>1 DEF AbAbout1, Ab!When
          <6>. QED  BY <2>2, <2>6, <4>1, <4>2, <5>1, <6>1 DEF AbGot
        <5>2. CASE book[owner][c] # 0
          BY <2>2, <2>6, <3>3, <4>1, <4>2, <5>2 DEF AbGot
        <5>. QED  BY <5>1, <5>2
      <4>4. list[c] = data.list[c]
        BY <1>2, <4>3
      <4>5. CASE r.token = 0
        <5>1. data.list[c] = 0
          BY <2>1, <2>4, <4>5 DEF AbGood, Ab!Blank
        <5>2. ~(book[owner][c] > 0)
          BY <2>2, <4>3, <4>5 DEF AbAbout1
        <5>. QED  BY <4>4, <5>1, <5>2 DEF AbExisting
      <4>6. CASE r.token # 0
        <5>1. Ab!When(book[owner][c]) <= data.token
          <6>1. Ab!When(book[owner][c]) \in Nat
            BY <3>1, AbNeverThere
          <6>2. ~(Ab!When(book[owner][c]) > r.token)
            BY <2>2, <4>3, <4>6 DEF AbAbout1
          <6>. QED  BY <1>1, <2>2, <6>1, <6>2
        <5>. QED  BY <2>4, <4>1, <4>4, <5>1 DEF AbGood
      <4>. QED  BY <4>5, <4>6
    <3>. QED  BY <3>2, <3>3
  <2>7. AbGood(owner, data)'
    <3>1. data'.token = r.at /\ data'.list = list
      BY <1>3, <1>4
    <3>2. \A c \in AbContact \ overtaken'[owner] :
            Ab!When(book[owner][c]) <= data'.token => data'.list[c] = AbExisting(book[owner][c])
      BY <2>6, <3>1
    <3>. QED  BY <1>0, <1>4, <2>5, <3>2 DEF AbGood, Ab!When, AbExisting, Ab!Blank
  <2>. QED  BY <2>1, <2>2, <2>3, <2>4, <2>7
<1>7. AbDataFit'
  <2>. SUFFICES ASSUME ~crossed' PROVE AbDataFit'
    BY DEF AbDataFit
  <2>1. \A o \in Owner : AbGood(o, kept[o])
    BY <1>0, <1>6 DEF AbDataFit
  <2>2. kept' = IF cached THEN [kept EXCEPT ![owner] = d] ELSE kept
    BY <1>0, <1>6 DEF Ab!Holds
  <2>3. ASSUME NEW o \in Owner PROVE AbGood(o, kept[o])'
    <3>1. CASE o = owner /\ cached
      <4>1. kept'[o] = data'
        BY <1>0, <1>4, <2>2, <3>1 DEF Ab!TypeOK
      <4>. QED  BY <1>0, <1>6, <3>1, <4>1 DEF AbGood
    <3>2. CASE o # owner
      <4>1. kept'[o] = kept[o] /\ overtaken'[o] = overtaken[o]
        BY <1>0, <1>10, <2>2, <3>2 DEF Ab!TypeOK
      <4>2. AbGood(o, kept[o])
        BY <2>1
      <4>. QED  BY <1>0, <4>1, <4>2 DEF AbGood, Ab!When, AbExisting, Ab!Blank
    <3>3. CASE o = owner /\ ~cached
      <4>1. kept'[o] = Ab!Blank
        BY <2>2, <3>3 DEF AbFrame
      <4>2. kept'[o].of = none /\ kept'[o].token = 0 /\ kept'[o].list = Ab!Blank.list
        BY <4>1 DEF Ab!Blank
      <4>3. \A c \in AbContact : Ab!When(book[o][c]) <= 0 => kept'[o].list[c] = AbExisting(book[o][c])
        <5>1. \A c \in AbContact : book[o][c] \in Int
          BY <1>0, AbTypes
        <5>. QED  BY <4>2, <5>1, AbNeverThere DEF Ab!Blank
      <4>. QED  BY <1>0, <1>1, <4>2, <4>3 DEF AbGood, Ab!When, AbExisting, Ab!Blank
    <3>. QED  BY <3>1, <3>2, <3>3
  <2>. QED  BY <1>0, <1>6, <2>3 DEF AbDataFit
<1>8. AbRunsFit'
  BY <1>0, <1>6 DEF AbRunsFit
<1>9. AbWatched'
  <2>1. timer' = "retry" => ~polling'
    BY <1>0 DEF AbWatched
  <2>2. data'.token # 0
    BY <1>0, <1>3, <1>4
  <2>. QED  BY <1>0, <2>1, <2>2 DEF AbWatched
<1>. QED  BY <1>5, <1>7, <1>8, <1>9 DEF AbCore

LEMMA AbFailKeeps == ASSUME AbBounds, AbCore, NEW r \in runs, Ab!Fail(r) PROVE AbCore'
<1>0. /\ Ab!TypeOK /\ AbDataFit /\ AbRunsFit /\ AbWatched /\ Ab!Counted
      /\ runs' = runs \ {r}
      /\ promise' = IF r.late THEN promise ELSE "failed"
      /\ timer' = IF polling THEN "poll" ELSE "retry"
      /\ crossed' = (crossed \/ r.late)
      /\ UNCHANGED <<cached, polling, mayRead, clock, book, owner, fresh, active, logins, status, data, kept,
                     overtaken>>
  BY DEF AbCore, Ab!Fail
<1>1. events' \in 0..AbMaxEvents
  BY <1>0, AbCountedType
<1>2. Ab!TypeOK'
  <2>1. /\ promise' \in {"none", "sync", "failed"} /\ timer' \in {"none", "poll", "retry"}
        /\ crossed' \in BOOLEAN
    BY <1>0 DEF Ab!TypeOK
  <2>. QED  BY <1>0, <1>1, <2>1 DEF Ab!TypeOK
<1>3. AbDataFit'
  BY <1>0 DEF AbDataFit, AbGood, Ab!When, AbExisting, Ab!Blank
<1>4. AbRunsFit'
  <2>. SUFFICES ASSUME ~crossed, ~r.late PROVE AbRunsFit'
    BY <1>0 DEF AbRunsFit
  <2>1. (\A q \in runs' : q.late) /\ status # "pending"
    BY <1>0 DEF AbRunsFit, AbRunFits
  <2>. QED  BY <1>0, <2>1 DEF AbRunsFit
<1>5. AbWatched'
  BY <1>0 DEF AbWatched
<1>. QED  BY <1>2, <1>3, <1>4, <1>5 DEF AbCore

LEMMA AbTimerFiresKeeps == ASSUME AbBounds, AbCore, Ab!TimerFires PROVE AbCore'
<1>0. /\ Ab!TypeOK /\ AbDataFit /\ AbRunsFit /\ AbWatched
      /\ ~Ab!ShouldInit /\ timer # "none" /\ timer' = "none"
      /\ UNCHANGED <<cached, polling, mayRead, clock, book, owner, fresh, active, logins, events,
                     status, data, kept, overtaken, crossed>>
  BY DEF AbCore, Ab!TimerFires, Ab!Settled, Ab!world
<1>1. AbDataFit'
  BY <1>0 DEF AbDataFit, AbGood, Ab!When, AbExisting, Ab!Blank
<1>2. ~crossed => status # "pending"
  BY <1>0 DEF AbRunsFit
<1>3. CASE owner # none /\ Ab!Sync(data)
  <2>1. status # "pending" /\ data \in Ab!Data /\ data.token \in Nat
    BY <1>0, <1>3, AbTypes DEF Ab!ShouldInit, Ab!TypeOK
  <2>2. /\ runs' \subseteq Ab!Run /\ promise' \in {"sync", "failed"} /\ AbRunsFit'
        /\ ~crossed' /\ promise' # "failed" => runs' # {}
    BY <1>0, <1>3, <2>1, AbSyncKeeps
  <2>3. Ab!TypeOK'
    BY <1>0, <2>2 DEF Ab!TypeOK
  <2>4. AbWatched'
    BY <1>0, <2>2 DEF AbWatched
  <2>. QED  BY <1>1, <2>2, <2>3, <2>4 DEF AbCore
<1>4. CASE UNCHANGED <<runs, promise>> /\ (owner = none \/ (timer = "retry" /\ data.token # 0))
  <2>1. Ab!TypeOK'
    BY <1>0, <1>4 DEF Ab!TypeOK
  <2>2. AbRunsFit'
    BY <1>0, <1>2, <1>4 DEF AbRunsFit, AbRunFits, AbGot, AbAbout1, Ab!When
  <2>3. AbWatched'
    BY <1>0, <1>4 DEF AbWatched
  <2>. QED  BY <1>1, <2>1, <2>2, <2>3 DEF AbCore
<1>. QED  BY <1>3, <1>4 DEF Ab!TimerFires

--------------------
(* Others. *)

LEMMA AbAskKeeps == ASSUME AbBounds, AbCore, Ab!Ask PROVE AbCore'
<1>0. /\ Ab!TypeOK /\ AbDataFit /\ AbRunsFit /\ AbWatched
      /\ ~Ab!ShouldReset /\ status = "ready" /\ Ab!Counted /\ Ab!Sync(data)
      /\ UNCHANGED <<cached, polling, mayRead, clock, book, owner, fresh, active, logins, status, data,
                     kept, timer, overtaken, crossed>>
  BY DEF AbCore, Ab!Ask, Ab!Settled
<1>1. events' \in 0..AbMaxEvents
  BY <1>0, AbCountedType
<1>2. AbDataFit'
  BY <1>0 DEF AbDataFit, AbGood, Ab!When, AbExisting, Ab!Blank
<1>3. owner # none /\ data \in Ab!Data /\ data.token \in Nat
  BY <1>0, AbTypes DEF Ab!ShouldReset, Ab!TypeOK
<1>4. /\ runs' \subseteq Ab!Run /\ promise' \in {"sync", "failed"} /\ AbRunsFit'
      /\ ~crossed' /\ promise' # "failed" => runs' # {}
  BY <1>0, <1>3, AbSyncKeeps
<1>5. Ab!TypeOK'
  BY <1>0, <1>1, <1>4 DEF Ab!TypeOK
<1>6. AbWatched'
  BY <1>0, <1>4 DEF AbWatched
<1>. QED  BY <1>2, <1>4, <1>5, <1>6 DEF AbCore

LEMMA AbOtherTabKeeps == ASSUME AbBounds, AbCore, Ab!OtherTab PROVE AbCore'
<1>. DEFINE d == [of |-> owner, token |-> clock,
                  list |-> [c \in AbContact |-> IF book[owner][c] > 0 THEN book[owner][c] ELSE 0]]
<1>0. /\ Ab!TypeOK /\ AbDataFit /\ AbRunsFit /\ AbWatched
      /\ ~Ab!ShouldInit /\ owner # none /\ Ab!Counted /\ Ab!Holds(d)
      /\ UNCHANGED <<cached, polling, mayRead, clock, book, owner, fresh, active, logins, status, runs,
                     promise, timer, overtaken, crossed>>
  BY DEF AbCore, Ab!OtherTab, Ab!Settled
<1>1. events' \in 0..AbMaxEvents
  BY <1>0, AbCountedType
<1>2. owner \in Owner /\ clock \in Nat \ {0} /\ status # "pending" /\ \A c \in AbContact : book[owner][c] \in Int
  BY <1>0, AbTypes DEF Ab!TypeOK, Ab!ShouldInit
<1>3. d \in Ab!Data /\ d.token = clock /\ AbGood(owner, d)
  <2>1. [c \in AbContact |-> IF book[owner][c] > 0 THEN book[owner][c] ELSE 0] \in [AbContact -> Nat]
    BY <1>2
  <2>2. d \in Ab!Data
    BY <1>2, <2>1 DEF Ab!Data
  <2>3. d.of = owner /\ d.token = clock /\ \A c \in AbContact : d.list[c] = AbExisting(book[owner][c])
    BY DEF AbExisting
  <2>. HIDE DEF d
  <2>4. AbGood(owner, d)
    BY <1>2, <2>3 DEF AbGood
  <2>. QED  BY <2>2, <2>3, <2>4
<1>. HIDE DEF d
<1>4. data' = d /\ data' \in Ab!Data /\ kept' \in [Owner -> Ab!Data]
  BY <1>0, <1>3, AbHoldsType DEF Ab!Holds
<1>5. Ab!TypeOK'
  BY <1>0, <1>1, <1>4 DEF Ab!TypeOK
<1>6. AbDataFit'
  <2>. SUFFICES ASSUME ~crossed PROVE AbDataFit'
    BY <1>0 DEF AbDataFit
  <2>. QED  BY <1>0, <1>3, AbHoldsGood DEF AbDataFit
<1>7. AbRunsFit'
  <2>. SUFFICES ASSUME ~crossed PROVE AbRunsFit'
    BY <1>0 DEF AbRunsFit
  <2>1. data.token \in Nat /\ data'.token \in Nat /\ data.token <= data'.token
    BY <1>0, <1>2, <1>3, <1>4, AbTypes DEF AbDataFit, AbGood
  <2>2. ASSUME NEW r \in runs, ~r.late PROVE AbRunFits(r)'
    <3>1. AbRunFits(r) /\ r.token \in Nat /\ r.at \in Nat
      BY <1>0, <2>2, AbTypes DEF AbRunsFit
    <3>. QED  BY <1>0, <1>2, <2>1, <3>1, AbRunFrame
  <2>. QED  BY <1>0, <2>2 DEF AbRunsFit
<1>8. AbWatched'
  BY <1>0, <1>2, <1>3, <1>4 DEF AbWatched
<1>. QED  BY <1>5, <1>6, <1>7, <1>8 DEF AbCore

LEMMA AbActiveTabKeeps == ASSUME AbBounds, AbCore, Ab!ActiveTab PROVE AbCore'
<1>0. /\ Ab!TypeOK /\ AbDataFit /\ AbRunsFit /\ AbWatched /\ Ab!Counted /\ active' = ~active
      /\ UNCHANGED <<cached, polling, mayRead, clock, book, owner, fresh, logins, status, data, kept, runs,
                     promise, timer, overtaken, crossed>>
  BY DEF AbCore, Ab!ActiveTab
<1>1. events' \in 0..AbMaxEvents /\ active' \in BOOLEAN
  BY <1>0, AbCountedType
<1>2. Ab!TypeOK'
  BY <1>0, <1>1 DEF Ab!TypeOK
<1>3. AbDataFit'
  BY <1>0 DEF AbDataFit, AbGood, Ab!When, AbExisting, Ab!Blank
<1>4. AbRunsFit'
  BY <1>0 DEF AbRunsFit, AbRunFits, AbGot, AbAbout1, Ab!When
<1>5. AbWatched'
  BY <1>0 DEF AbWatched
<1>. QED  BY <1>2, <1>3, <1>4, <1>5 DEF AbCore

LEMMA AbLoginKeeps == ASSUME AbBounds, AbCore, NEW o \in Owner, Ab!Login(o) PROVE AbCore'
<1>0. /\ Ab!TypeOK /\ AbDataFit /\ AbRunsFit /\ AbWatched
      /\ ~Ab!ShouldReset /\ owner = none /\ logins < AbMaxLogins
      /\ owner' = o /\ logins' = logins + 1 /\ fresh' \in BOOLEAN
      /\ data' = IF cached THEN kept[o] ELSE data
      /\ crossed' = (crossed \/ status = "initializing")
      /\ UNCHANGED <<cached, polling, mayRead, clock, book, active, events, status, kept, runs, promise, timer,
                     overtaken>>
  BY DEF AbCore, Ab!Login, Ab!Settled
<1>1. o # none /\ logins' \in 0..AbMaxLogins
  <2>1. AbMaxLogins \in Nat /\ logins \in 0..AbMaxLogins
    BY <1>0 DEF AbBounds, Ab!TypeOK
  <2>. QED  BY <1>0, <2>1 DEF AbBounds
<1>2. data' \in Ab!Data
  BY <1>0 DEF Ab!TypeOK
<1>3. Ab!TypeOK'
  <2>1. crossed' \in BOOLEAN /\ owner' \in Owner \cup {none}
    BY <1>0 DEF Ab!TypeOK
  <2>. QED  BY <1>0, <1>1, <1>2, <2>1 DEF Ab!TypeOK
<1>4. ASSUME ~crossed' PROVE ~crossed /\ status = "pending"
  BY <1>0, <1>4 DEF Ab!ShouldReset, Ab!TypeOK
<1>5. AbDataFit'
  <2>. SUFFICES ASSUME ~crossed' PROVE AbDataFit'
    BY DEF AbDataFit
  <2>1. data = Ab!Blank /\ \A p \in Owner : AbGood(p, kept[p]) /\ AbGood(p, Ab!Blank)
    BY <1>0, <1>4, AbBlankFits DEF AbDataFit
  <2>2. AbGood(o, data')
    BY <1>0, <2>1
  <2>3. AbGood(owner, data)' /\ \A p \in Owner : AbGood(p, kept[p])'
    BY <1>0, <2>1, <2>2 DEF AbGood, Ab!When, AbExisting, Ab!Blank
  <2>. QED  BY <1>0, <1>1, <2>3 DEF AbDataFit
<1>6. AbRunsFit'
  <2>. SUFFICES ASSUME ~crossed' PROVE AbRunsFit'
    BY DEF AbRunsFit
  <2>1. promise = "none" /\ timer = "none" /\ \A r \in runs : r.late
    BY <1>0, <1>4 DEF AbRunsFit, AbRunFits
  <2>. QED  BY <1>0, <2>1 DEF AbRunsFit
<1>7. AbWatched'
  BY <1>0, <1>4 DEF AbWatched
<1>. QED  BY <1>3, <1>5, <1>6, <1>7 DEF AbCore

LEMMA AbLogoutKeeps == ASSUME AbBounds, AbCore, Ab!Logout PROVE AbCore'
<1>0. /\ Ab!TypeOK /\ AbDataFit /\ AbRunsFit /\ AbWatched
      /\ ~Ab!ShouldInit /\ owner # none /\ owner' = none
      /\ data' = IF cached THEN Ab!Blank ELSE data
      /\ runs' = {[r EXCEPT !.late = TRUE] : r \in runs}
      /\ UNCHANGED <<cached, polling, mayRead, clock, book, fresh, active, logins, events, status, kept,
                     promise, timer, overtaken, crossed>>
  BY DEF AbCore, Ab!Logout, Ab!Settled
<1>1. runs' \subseteq Ab!Run /\ \A r \in runs' : r.late
  BY <1>0, AbRunsLate
<1>2. data' \in Ab!Data /\ status # "pending"
  BY <1>0, AbBlankFits DEF Ab!TypeOK, Ab!ShouldInit
<1>3. Ab!TypeOK'
  BY <1>0, <1>1, <1>2 DEF Ab!TypeOK
<1>4. AbDataFit'
  BY <1>0, <1>2 DEF AbDataFit, AbGood, Ab!When, AbExisting, Ab!Blank
<1>5. AbRunsFit' /\ AbWatched'
  BY <1>0, <1>1, <1>2 DEF AbRunsFit, AbWatched
<1>. QED  BY <1>3, <1>4, <1>5 DEF AbCore

LEMMA AbFrameKeeps ==
  ASSUME AbBounds, Ab!TypeOK, AbFrame, Ab!Next PROVE AbFrame'
<1>0. /\ kept \in [Owner -> Ab!Data] /\ clock \in Nat \ {0}
      /\ book \in [Owner -> [AbContact -> Int]] /\ overtaken \in [Owner -> SUBSET AbContact]
  BY AbTypes DEF Ab!TypeOK
<1>1. (\E d : Ab!Holds(d)) \/ UNCHANGED kept
  BY DEF Ab!Next, Ab!Initialize, Ab!InitSuccess, Ab!Reset, Ab!Login, Ab!ChangeContact, Ab!Serve, Ab!Answer, Ab!Fail, Ab!TimerFires, Ab!Ask,
     Ab!OtherTab, Ab!ActiveTab, Ab!Logout
<1>2. UNCHANGED cached
  BY DEF Ab!Next, Ab!Initialize, Ab!InitSuccess, Ab!Reset, Ab!Login, Ab!ChangeContact, Ab!Serve, Ab!Answer, Ab!Fail, Ab!TimerFires, Ab!Ask,
     Ab!OtherTab, Ab!ActiveTab, Ab!Logout, Ab!world
<1>3. ~cached' => \A o \in Owner : kept'[o] = Ab!Blank
  BY <1>1, <1>2 DEF AbFrame, Ab!Holds
<1>4. CASE UNCHANGED <<book, overtaken, clock>>
  BY <1>3, <1>4 DEF AbFrame, Ab!When
<1>5. ASSUME NEW r \in runs, Ab!Answer(r) PROVE AbFrame'
  <2>1. UNCHANGED <<book, clock>> /\ \A o \in Owner : overtaken'[o] \subseteq overtaken[o]
    <3>1. overtaken' = IF owner = none THEN overtaken
                       ELSE [overtaken EXCEPT ![owner] = {c \in @ : r.got[c] # book[owner][c]}]
      BY <1>5 DEF Ab!Answer
    <3>. QED  BY <1>0, <1>5, <3>1 DEF Ab!Answer, Ab!world
  <2>. QED  BY <1>3, <2>1 DEF AbFrame, Ab!When
<1>6. ASSUME NEW o \in Owner, NEW c \in AbContact, Ab!ChangeContact(o, c) PROVE AbFrame'
  <2>1. PICK v \in {clock + 1} \cup (IF book[o][c] > 0 THEN {-clock - 1} ELSE {}) :
          book' = [book EXCEPT ![o][c] = v]
    BY <1>6 DEF Ab!ChangeContact
  <2>2. v \in Int /\ v # 0 /\ Ab!When(v) <= clock + 1
    BY <1>0, <2>1 DEF Ab!When
  <2>3. overtaken' = [overtaken EXCEPT ![o] = IF Ab!Passed(o, c) THEN @ \cup {c} ELSE @ \ {c}]
    BY <1>6 DEF Ab!ChangeContact
  <2>4. ASSUME NEW p \in Owner, NEW e \in overtaken'[p] PROVE book'[p][e] # 0
    <3>1. CASE p = o /\ e = c
      BY <1>0, <2>1, <2>2, <3>1
    <3>2. CASE ~(p = o /\ e = c)
      <4>1. e \in overtaken[p]
        BY <1>0, <2>3, <2>4, <3>2
      <4>2. book'[p][e] = book[p][e]
        BY <1>0, <2>1, <3>2, <4>1
      <4>. QED  BY <4>1, <4>2 DEF AbFrame
    <3>. QED  BY <3>1, <3>2
  <2>5. ASSUME NEW p \in Owner, NEW e \in AbContact PROVE Ab!When(book'[p][e]) <= clock + 1
    <3>1. CASE p = o /\ e = c
      BY <1>0, <2>1, <2>2, <3>1
    <3>2. CASE ~(p = o /\ e = c)
      <4>1. book'[p][e] = book[p][e] /\ Ab!When(book[p][e]) <= clock /\ book[p][e] \in Int
        BY <1>0, <2>1, <3>2 DEF AbFrame
      <4>2. Ab!When(book[p][e]) \in Nat
        BY <4>1, AbNeverThere
      <4>. QED  BY <1>0, <4>1, <4>2
    <3>. QED  BY <3>1, <3>2
  <2>6. clock' = clock + 1
    BY <1>6 DEF Ab!ChangeContact
  <2>. QED  BY <1>3, <2>4, <2>5, <2>6 DEF AbFrame, Ab!When
<1>7. UNCHANGED <<book, overtaken, clock>> \/ (\E r \in runs : Ab!Answer(r))
        \/ \E o \in Owner, c \in AbContact : Ab!ChangeContact(o, c)
  BY DEF Ab!Next, Ab!Initialize, Ab!InitSuccess, Ab!Reset, Ab!Login, Ab!Serve, Ab!Fail, Ab!TimerFires, Ab!Ask, Ab!OtherTab, Ab!ActiveTab,
     Ab!Logout, Ab!world
<1>. QED  BY <1>4, <1>5, <1>6, <1>7

LEMMA AbNextIInv == ASSUME AbBounds PROVE AbIInv /\ [Ab!Next]_(Ab!vars) => AbIInv'
<1>. SUFFICES ASSUME AbCore, AbFrame, [Ab!Next]_(Ab!vars) PROVE AbCore' /\ AbFrame'
  BY DEF AbIInv, AbCore
<1>1. CASE UNCHANGED Ab!vars
  <2>1. /\ UNCHANGED <<cached, polling, mayRead, clock, book, owner, fresh, active, logins, events>>
        /\ UNCHANGED <<status, data, kept, runs, promise, timer, overtaken, crossed>>
    BY <1>1 DEF Ab!vars, Ab!world
  <2>2. Ab!TypeOK' /\ AbDataFit'
    BY <2>1 DEF AbCore, Ab!TypeOK, AbDataFit, AbGood, Ab!When, AbExisting, Ab!Blank
  <2>3. AbRunsFit' /\ AbWatched'
    BY <2>1 DEF AbCore, AbRunsFit, AbRunFits, AbGot, AbAbout1, Ab!When, AbWatched
  <2>4. AbFrame'
    BY <2>1 DEF AbFrame, Ab!Blank, Ab!When
  <2>. QED  BY <2>2, <2>3, <2>4 DEF AbCore
<1>2. CASE Ab!Next
  <2>1. Ab!TypeOK
    BY DEF AbCore
  <2>2. AbFrame'
    BY <1>2, <2>1, AbFrameKeeps
  <2>. QED  BY <1>2, <2>2, AbInitializeKeeps, AbInitSuccessKeeps, AbResetKeeps, AbLoginKeeps, AbChangeContactKeeps, AbServeKeeps,
     AbAnswerKeeps, AbFailKeeps, AbTimerFiresKeeps, AbAskKeeps, AbOtherTabKeeps, AbActiveTabKeeps, AbLogoutKeeps
  DEF Ab!Next
<1>. QED  BY <1>1, <1>2

\* For any users and contacts: what is held is what the server had when the token was given, but
\* for what changed between two pages.
LEMMA AbBookIsComplete == ASSUME AbBounds PROVE AbIInv => Ab!BookComplete
<1>. SUFFICES ASSUME AbIInv, Ab!Settled, ~crossed, owner # none PROVE Ab!BookComplete
  BY DEF Ab!BookComplete
<1>1. AbGood(owner, data) /\ status # "pending" /\ ~Ab!DataReady
  BY DEF AbIInv, AbDataFit, Ab!Settled, Ab!ShouldInit
<1>2. /\ data.of \in {owner, none}
      /\ \A c \in AbContact \ overtaken[owner] : Ab!When(book[owner][c]) <= data.token =>
           data.list[c] = IF book[owner][c] > 0 THEN book[owner][c] ELSE 0
  BY <1>1 DEF AbGood, AbExisting
<1>3. mayRead /\ (polling \/ status = "initializing") /\ promise # "failed" => timer # "none" \/ runs # {}
  BY <1>1 DEF AbIInv, AbWatched, Ab!DataReady
<1>. QED  BY <1>2, <1>3 DEF Ab!BookComplete

-----------------------------------------------------------------------------
(***************************************************************************)
(* Proofs about searches for contacts: for any number of sources, strings  *)
(* and bounds, and however searches overtake one another, what is shown in *)
(* the end is what was searched for last.                                  *)
(***************************************************************************)

CsNoEmptyText == "" \notin CsText

CsAnyText == CsText \cup {""}
CsStatus  == {"idle", "searching"}

CsBounds == CsSources \in Nat \ {0} /\ CsMaxSearches \in Nat /\ CsMaxEvents \in Nat /\ CsNoEmptyText

\* The sources whose entities for the latest string are shown.
CsGot == IF searching.text = latest.text THEN searching.result ELSE {}

CsBusy(state) == state = "searching"

CsStatusFits == CsBusy(searchStatus) => \E r \in runs : searchIds[r.at] = r.n

\* The latest search is for what was typed last, or will be.
CsTypedFits ==
  /\ waiting.trailing => waiting.text = typed
  /\ ~loggedIn => typed = "" /\ latest.text = "" /\ ~waiting.trailing
  /\ ~overtaken /\ ~waiting.trailing => latest.text = typed
  /\ searching.text = "" => searching.result = {}

\* A search for the latest string will come to source s, or whoever has asked it last will
\* show what it has found; if this is not for the latest string, it spoils what is shown.
CsComing(s) ==
  \E r \in runs : \/ r.text = latest.text /\ r.at < s
                  \/ /\ r.at = s /\ searchIds[s] = r.n
                     /\ r.text = latest.text \/ searching.text = latest.text

\* The latest search has asked the first source and shown nothing yet.
CsStarting == \E r \in runs : r.text = latest.text /\ r.at = 1 /\ searchIds[1] = r.n

CsLatestFits ==
  /\ latest.text = "" => searching = Cs!Nothing
  /\ latest.text # "" => \A s \in Cs!Source \ CsGot : CsComing(s)
  /\ latest.text # "" /\ searching.text # latest.text => CsStarting

CsShownFits == ~overtaken /\ ~failed => CsLatestFits

CsIInv == Cs!TypeOK /\ CsStatusFits /\ CsTypedFits /\ CsShownFits

--------------------
(* One search. *)

LEMMA CsLeastOf ==
  ASSUME NEW S \in SUBSET Nat, S # {}
  PROVE  /\ (CHOOSE i \in S : \A j \in S : i <= j) \in S
         /\ \A j \in S : (CHOOSE i \in S : \A k \in S : i <= k) <= j
<1>1. PICK i \in S : \A j \in S : <<j, i>> \notin OpToRel(<, Nat)
  BY NatLessThanWellFounded, WFMin
<1>2. \A j \in S : ~(j < i)
  BY <1>1, Zenon DEF OpToRel
<1>3. \A j \in S : i <= j
  BY <1>2
<1>. QED  BY <1>3

\* A search that comes to source s goes on to source to, and what that does.
CsReaches(r, s, screen, idle, spoilt, to) ==
  /\ searching' = IF to = s THEN screen ELSE Cs!Loaded(screen, r.text, s..(to - 1))
  /\ searchIds' \in [Cs!Source -> 0..CsMaxSearches]
  /\ \A i \in Cs!Source : searchIds'[i] = IF i \in s..to THEN r.n ELSE searchIds[i]
  /\ searchStatus' \in CsStatus
  /\ CsBusy(searchStatus') => to <= CsSources \/ (to = s /\ CsBusy(idle))
  /\ to <= CsSources => \E q \in Cs!Run : /\ q.n = r.n /\ q.text = r.text /\ q.at = to
                                          /\ runs' = (runs \ {r}) \cup {q}
  /\ to > CsSources => runs' = runs \ {r}
  /\ overtaken' \in BOOLEAN /\ (spoilt => overtaken')
  /\ to > s /\ Cs!Spoils(r) => overtaken'

LEMMA CsFromFits ==
  ASSUME CsBounds, Cs!TypeOK, NEW r \in Cs!Run, NEW s \in 1..(CsSources + 1), NEW screen \in Cs!Shown,
         NEW idle \in CsStatus, NEW spoilt, Cs!From(r, s, screen, idle, spoilt)
  PROVE  \E to \in s..(CsSources + 1) : CsReaches(r, s, screen, idle, spoilt, to)
<1>. DEFINE toAsk  == {i \in s..CsSources : <<i, r.text>> \notin cache}
            next   == IF toAsk = {} THEN CsSources + 1 ELSE CHOOSE i \in toAsk : \A j \in toAsk : i <= j
            found  == {i \in s..CsSources : i < next}
            come   == found \cup {i \in Cs!Source : i = next}
<1>0. /\ searching' = IF found = {} THEN screen ELSE Cs!Loaded(screen, r.text, found)
      /\ searchIds' = [i \in Cs!Source |-> IF i \in come THEN r.n ELSE searchIds[i]]
      /\ searchStatus' = IF next <= CsSources THEN "searching"
                         ELSE IF found # {} THEN "idle" ELSE idle
      /\ runs' = (runs \ {r}) \cup (IF next <= CsSources THEN {[r EXCEPT !.at = next]} ELSE {})
      /\ overtaken' = (spoilt \/ (found # {} /\ Cs!Spoils(r)) \/ \E i \in come : Cs!Passes(r, i))
  BY DEF Cs!From
<1>1. CsSources \in Nat \ {0} /\ s \in Nat \ {0}
  BY DEF CsBounds
<1>2. next \in s..(CsSources + 1)
  <2>1. CASE toAsk = {}
    BY <1>1, <2>1
  <2>2. CASE toAsk # {}
    <3>1. toAsk \in SUBSET Nat
      BY <1>1
    <3>2. next \in toAsk
      BY <2>2, <3>1, CsLeastOf
    <3>. HIDE DEF next
    <3>. QED  BY <1>1, <3>2
  <2>. QED  BY <2>1, <2>2
<1>. HIDE DEF next
<1>3. PICK to \in s..(CsSources + 1) : to = next
  BY <1>2
<1>4. /\ found = s..(to - 1)
      /\ come = {i \in Cs!Source : i \in s..to}
      /\ found = {} <=> to = s
  <2>1. to \in Nat /\ s <= to /\ to <= CsSources + 1
    BY <1>1
  <2>2. \A i : i \in found <=> i \in s..(to - 1)
    BY <1>1, <1>3, <2>1
  <2>3. \A i : i \in come <=> i \in Cs!Source /\ i \in s..to
    BY <1>1, <1>3, <2>1 DEF Cs!Source
  <2>4. s..(to - 1) = {} <=> to = s
    BY <1>1, <2>1
  <2>. QED  BY <2>2, <2>3, <2>4
<1>. HIDE DEF found, come
<1>5. searching' = IF to = s THEN screen ELSE Cs!Loaded(screen, r.text, s..(to - 1))
  BY <1>0, <1>4
<1>6. /\ searchIds' \in [Cs!Source -> 0..CsMaxSearches]
      /\ \A i \in Cs!Source : searchIds'[i] = IF i \in s..to THEN r.n ELSE searchIds[i]
  <2>1. searchIds' = [i \in Cs!Source |-> IF i \in s..to THEN r.n ELSE searchIds[i]]
    BY <1>0, <1>4
  <2>2. r.n \in 1..CsMaxSearches /\ CsMaxSearches \in Nat
    BY DEF Cs!Run, CsBounds
  <2>3. r.n \in 0..CsMaxSearches
    BY <2>2
  <2>4. \A i \in Cs!Source : searchIds[i] \in 0..CsMaxSearches
    BY DEF Cs!TypeOK
  <2>5. \A i \in Cs!Source : (IF i \in s..to THEN r.n ELSE searchIds[i]) \in 0..CsMaxSearches
    BY <2>3, <2>4
  <2>. QED  BY <2>1, <2>5
<1>7. searchStatus' \in CsStatus /\ (CsBusy(searchStatus') => to <= CsSources \/ (to = s /\ CsBusy(idle)))
  <2>1. searchStatus' = IF to <= CsSources THEN "searching" ELSE IF to # s THEN "idle" ELSE idle
    BY <1>0, <1>3, <1>4
  <2>. QED  BY <2>1 DEF CsBusy, CsStatus
<1>8. /\ to <= CsSources => \E q \in Cs!Run : /\ q.n = r.n /\ q.text = r.text /\ q.at = to
                                              /\ runs' = (runs \ {r}) \cup {q}
      /\ to > CsSources => runs' = runs \ {r}
  <2>1. ASSUME to <= CsSources PROVE \E q \in Cs!Run : /\ q.n = r.n /\ q.text = r.text /\ q.at = to
                                                       /\ runs' = (runs \ {r}) \cup {q}
    <3>1. PICK q : q = [r EXCEPT !.at = to]
      OBVIOUS
    <3>2. to \in Cs!Source
      BY <1>1, <2>1 DEF Cs!Source
    <3>3. q \in Cs!Run /\ q.n = r.n /\ q.text = r.text /\ q.at = to
      BY <3>1, <3>2 DEF Cs!Run
    <3>4. runs' = (runs \ {r}) \cup {q}
      BY <1>0, <1>3, <2>1, <3>1
    <3>. QED  BY <3>3, <3>4
  <2>2. ASSUME to > CsSources PROVE runs' = runs \ {r}
    <3>1. ~(next <= CsSources)
      BY <1>1, <1>3, <2>2
    <3>. QED  BY <1>0, <3>1
  <2>. QED  BY <2>1, <2>2
<1>9. overtaken' \in BOOLEAN /\ (spoilt => overtaken')
  BY <1>0
<1>10. to > s /\ Cs!Spoils(r) => overtaken'
  <2>1. to > s => found # {}
    BY <1>1, <1>4
  <2>. QED  BY <1>0, <2>1
<1>. QED  BY <1>5, <1>6, <1>7, <1>8, <1>9, <1>10 DEF CsReaches

LEMMA CsLoadedFits ==
  ASSUME NEW screen \in Cs!Shown, NEW t \in CsText, NEW S \in SUBSET Cs!Source
  PROVE  /\ Cs!Loaded(screen, t, S) \in Cs!Shown /\ Cs!Loaded(screen, t, S).text = t
         /\ S \subseteq Cs!Loaded(screen, t, S).result
         /\ screen.text = t => screen.result \subseteq Cs!Loaded(screen, t, S).result
  BY DEF Cs!Loaded, Cs!Shown

LEMMA CsCountedType == ASSUME CsBounds, Cs!TypeOK, Cs!Counted PROVE events' \in 0..CsMaxEvents
<1>1. CsMaxEvents \in Nat /\ events \in 0..CsMaxEvents /\ events < CsMaxEvents /\ events' = events + 1
  BY DEF CsBounds, Cs!TypeOK, Cs!Counted, CsAnyText, CsStatus
<1>. QED  BY <1>1

LEMMA CsInitIInv == ASSUME CsBounds PROVE Cs!Init => CsIInv
<1>. SUFFICES ASSUME Cs!Init PROVE CsIInv
  OBVIOUS
<1>1. /\ loggedIn = TRUE /\ typed = "" /\ waiting = Cs!NoTimer
      /\ searchStatus = "idle" /\ searching = Cs!Nothing
      /\ searchIds = [s \in Cs!Source |-> 0] /\ cache = {}
      /\ runs = {} /\ timeout = FALSE
      /\ latest = [n |-> 0, text |-> ""] /\ overtaken = FALSE /\ failed = FALSE
      /\ events = 0
  BY DEF Cs!Init, CsAnyText, CsStatus
<1>2. CsMaxSearches \in Nat /\ CsMaxEvents \in Nat
  BY DEF CsBounds
<1>3. Cs!TypeOK
  <2>0. searchIds = [s \in Cs!Source |-> 0] /\ events = 0
    BY <1>1
  <2>1. searchIds \in [Cs!Source -> 0..CsMaxSearches]
    BY <1>2, <2>0
  <2>2. events \in 0..CsMaxEvents
    BY <1>2, <2>0
  <2>4. 0 \in 0..CsMaxSearches
    BY <1>2
  <2>5. latest \in [n : 0..CsMaxSearches, text : CsAnyText]
    BY <1>1, <2>4 DEF CsAnyText
  <2>3. waiting \in [text : CsAnyText, trailing : BOOLEAN, set : BOOLEAN] /\ searching \in Cs!Shown
    BY <1>1 DEF Cs!NoTimer, Cs!Nothing, Cs!Shown, CsAnyText, CsStatus
  <2>. QED  BY <1>1, <2>1, <2>2, <2>3, <2>5 DEF Cs!TypeOK, CsAnyText, CsStatus
<1>4. CsStatusFits /\ CsTypedFits /\ CsShownFits
  BY <1>1 DEF CsStatusFits, CsTypedFits, CsShownFits, CsLatestFits, Cs!NoTimer, Cs!Nothing, CsBusy, CsStatus
<1>. QED  BY <1>3, <1>4 DEF CsIInv

\* Whatever went before, a new search is the latest and comes to all sources.
LEMMA CsSearchFits ==
  ASSUME CsBounds, Cs!TypeOK, CsStatusFits, NEW string \in CsAnyText, NEW screen \in Cs!Shown, NEW spoilt,
         Cs!Search(string, screen, spoilt), spoilt \in BOOLEAN
  PROVE  /\ searchIds' \in [Cs!Source -> 0..CsMaxSearches] /\ searching' \in Cs!Shown
         /\ searchStatus' \in CsStatus
         /\ runs' \subseteq Cs!Run /\ timeout' \in BOOLEAN /\ overtaken' \in BOOLEAN
         /\ latest' \in [n : 0..CsMaxSearches, text : CsAnyText]
         /\ latest'.text = (IF loggedIn THEN string ELSE "")
         /\ spoilt => overtaken'
         /\ (screen.text = "" => screen.result = {}) => (searching'.text = "" => searching'.result = {})
         /\ CsStatusFits' /\ CsLatestFits'
<1>0. latest.n \in 0..CsMaxSearches /\ latest.n < CsMaxSearches
  BY DEF Cs!Search, Cs!TypeOK
<1>1. latest.n \in Nat /\ latest.n + 1 \in 1..CsMaxSearches /\ CsSources \in Nat \ {0}
  BY <1>0 DEF CsBounds
<1>2. /\ latest'.text = (IF loggedIn THEN string ELSE "")
      /\ latest' \in [n : 0..CsMaxSearches, text : CsAnyText]
  <2>1. PICK t : t = IF string = "" \/ ~loggedIn THEN "" ELSE string
    OBVIOUS
  <2>2. latest' = [n |-> latest.n + 1, text |-> t]
    BY <2>1 DEF Cs!Search
  <2>3. t \in CsAnyText /\ t = (IF loggedIn THEN string ELSE "")
    BY <2>1 DEF CsAnyText
  <2>4. latest.n + 1 \in 0..CsMaxSearches
    BY <1>1
  <2>. QED  BY <2>2, <2>3, <2>4
<1>3. CASE string = "" \/ ~loggedIn
  <2>1. /\ searching' = Cs!Nothing /\ searchStatus' = "idle" /\ overtaken' = spoilt
        /\ UNCHANGED <<searchIds, runs, timeout>>
    BY <1>3 DEF Cs!Search, CsAnyText, CsStatus
  <2>2. latest'.text = "" /\ Cs!Nothing \in Cs!Shown /\ Cs!Nothing.result = {}
    BY <1>2, <1>3 DEF Cs!Nothing, Cs!Shown, CsAnyText, CsStatus
  <2>3. CsStatusFits' /\ CsLatestFits'
    BY <2>1, <2>2 DEF CsStatusFits, CsLatestFits, CsBusy
  <2>. QED  BY <1>2, <2>1, <2>2, <2>3 DEF Cs!TypeOK, CsAnyText, CsStatus
<1>4. CASE ~(string = "" \/ ~loggedIn)
  <2>1. PICK r : r = [n |-> latest.n + 1, text |-> string, at |-> 1]
    OBVIOUS
  <2>2. r \in Cs!Run /\ r.text = string /\ string \in CsText /\ string # "" /\ r.at = 1
    <3>1. 1 \in Cs!Source
      BY <1>1 DEF Cs!Source
    <3>2. string \in CsText /\ string # ""
      BY <1>4 DEF CsAnyText
    <3>. QED  BY <1>1, <2>1, <3>1, <3>2 DEF Cs!Run
  <2>3. timeout' = TRUE /\ Cs!From(r, 1, screen, searchStatus, spoilt)
    BY <1>4, <2>1 DEF Cs!Search, CsAnyText, CsStatus
  <2>4. 1 \in 1..(CsSources + 1)
    BY <1>1
  <2>15. searchStatus \in CsStatus
    BY DEF Cs!TypeOK, CsStatus
  <2>0. PICK to \in 1..(CsSources + 1) : CsReaches(r, 1, screen, searchStatus, spoilt, to)
    BY <2>2, <2>3, <2>4, <2>15, CsFromFits
  <2>5. /\ searching' = IF to = 1 THEN screen ELSE Cs!Loaded(screen, r.text, 1..(to - 1))
        /\ searchIds' \in [Cs!Source -> 0..CsMaxSearches]
        /\ \A i \in Cs!Source : searchIds'[i] = IF i \in 1..to THEN r.n ELSE searchIds[i]
        /\ searchStatus' \in CsStatus
        /\ CsBusy(searchStatus') => to <= CsSources \/ (to = 1 /\ CsBusy(searchStatus))
        /\ to <= CsSources => \E q \in Cs!Run : /\ q.n = r.n /\ q.text = r.text /\ q.at = to
                                                /\ runs' = (runs \ {r}) \cup {q}
        /\ to > CsSources => runs' = runs \ {r}
        /\ overtaken' \in BOOLEAN /\ (spoilt => overtaken')
        /\ to > 1 /\ Cs!Spoils(r) => overtaken'
    BY <2>0 DEF CsReaches
  <2>6. latest'.text = string
    BY <1>2, <1>4
  <2>7. 1..(to - 1) \in SUBSET Cs!Source /\ to \in Nat \ {0}
    BY <1>1 DEF Cs!Source
  <2>8. /\ searching' \in Cs!Shown
        /\ to # 1 => searching'.text = string /\ 1..(to - 1) \subseteq searching'.result
        /\ to = 1 => searching' = screen
    BY <2>2, <2>5, <2>7, CsLoadedFits
  <2>9. runs' \subseteq Cs!Run
    <3>1. to <= CsSources \/ to > CsSources
      BY <1>1, <2>7
    <3>. QED  BY <2>5, <3>1 DEF Cs!TypeOK, CsAnyText, CsStatus
  <2>10. to <= CsSources => \E q \in runs' : q.text = string /\ q.at = to /\ searchIds'[to] = q.n
    <3>. SUFFICES ASSUME to <= CsSources PROVE \E q \in runs' : q.text = string /\ q.at = to /\ searchIds'[to] = q.n
      OBVIOUS
    <3>1. to \in Cs!Source /\ to \in 1..to
      BY <2>7 DEF Cs!Source
    <3>2. searchIds'[to] = r.n
      BY <2>5, <3>1
    <3>. QED  BY <2>2, <2>5, <3>2
  <2>11. CsStatusFits'
    <3>1. CsBusy(searchStatus') => to <= CsSources
      BY <1>1, <2>5, <2>7
    <3>. QED  BY <2>10, <3>1 DEF CsStatusFits
  <2>12. CsLatestFits'
    <3>1. ASSUME NEW x \in Cs!Source, x \notin CsGot' PROVE CsComing(x)'
      <4>1. x \in Nat \ {0} /\ x <= CsSources
        BY <1>1 DEF Cs!Source
      <4>2. x >= to
        <5>1. CASE to = 1
          BY <4>1, <5>1
        <5>2. CASE to # 1
          <6>1. x \notin 1..(to - 1)
            BY <2>6, <2>8, <3>1, <5>2 DEF CsGot
          <6>. QED  BY <2>7, <4>1, <6>1
        <5>. QED  BY <5>1, <5>2
      <4>3. to <= CsSources
        BY <1>1, <2>7, <4>1, <4>2
      <4>4. PICK q \in runs' : q.text = string /\ q.at = to /\ searchIds'[to] = q.n
        BY <2>10, <4>3
      <4>5. CASE x = to
        BY <2>6, <4>4, <4>5 DEF CsComing
      <4>6. CASE x # to
        <5>1. q.at < x
          BY <2>7, <4>1, <4>2, <4>4, <4>6
        <5>. QED  BY <2>6, <4>4, <5>1 DEF CsComing
      <4>. QED  BY <4>5, <4>6
    <3>2. ASSUME searching'.text # latest'.text PROVE CsStarting'
      <4>1. to = 1
        BY <2>6, <2>8, <3>2
      <4>2. to <= CsSources
        BY <1>1, <4>1
      <4>. QED  BY <2>6, <2>10, <4>1, <4>2 DEF CsStarting
    <3>. QED  BY <2>2, <2>6, <3>1, <3>2 DEF CsLatestFits
  <2>13. (screen.text = "" => screen.result = {}) => (searching'.text = "" => searching'.result = {})
    BY <2>2, <2>8
  <2>14. searchStatus' \in CsStatus /\ timeout' \in BOOLEAN
    BY <2>3, <2>4, <2>5
  <2>. QED  BY <1>2, <2>5, <2>8, <2>9, <2>11, <2>12, <2>13, <2>14
<1>. QED  BY <1>3, <1>4

--------------------
(* The user types. *)

LEMMA CsSearchAnewFits ==
  ASSUME CsBounds, CsIInv, NEW string \in CsAnyText, Cs!SearchAnew(string)
  PROVE  /\ searchIds' \in [Cs!Source -> 0..CsMaxSearches] /\ searching' \in Cs!Shown
         /\ searchStatus' \in CsStatus
         /\ runs' \subseteq Cs!Run /\ timeout' \in BOOLEAN /\ overtaken' \in BOOLEAN /\ failed' \in BOOLEAN
         /\ latest' \in [n : 0..CsMaxSearches, text : CsAnyText]
         /\ latest'.text = (IF loggedIn THEN string ELSE "")
         /\ searching'.text = "" => searching'.result = {}
         /\ CsStatusFits' /\ CsShownFits'
<1>1. Cs!Search(string, searching, overtaken /\ runs # {}) /\ failed' = (failed /\ runs # {})
  BY DEF Cs!SearchAnew
<1>2. Cs!TypeOK /\ CsStatusFits /\ CsTypedFits /\ searching \in Cs!Shown
  BY DEF CsIInv, Cs!TypeOK, CsAnyText, CsStatus
<1>3. PICK spoilt : spoilt = (overtaken /\ runs # {})
  OBVIOUS
<1>4. spoilt \in BOOLEAN /\ Cs!Search(string, searching, spoilt)
  BY <1>1, <1>3
<1>5. searching.text = "" => searching.result = {}
  BY <1>2 DEF CsTypedFits
<1>6. failed' \in BOOLEAN
  BY <1>1
<1>. QED  BY <1>2, <1>4, <1>5, <1>6, CsSearchFits DEF CsShownFits

LEMMA CsNoSearchFits ==
  ASSUME CsIInv, Cs!NoSearch
  PROVE  CsStatusFits' /\ CsShownFits'
  BY DEF CsIInv, Cs!NoSearch, CsStatusFits, CsShownFits, CsLatestFits, CsGot, CsComing, CsStarting

LEMMA CsTypeKeeps ==
  ASSUME CsBounds, CsIInv, NEW string \in CsAnyText, Cs!Type(string)
  PROVE  CsIInv'
<1>0. /\ Cs!TypeOK /\ CsStatusFits /\ CsTypedFits /\ CsShownFits
      /\ loggedIn /\ typed' = string
      /\ waiting' = [text |-> string, trailing |-> waiting.set, set |-> TRUE]
      /\ UNCHANGED <<loggedIn, cache, events>>
  BY DEF CsIInv, Cs!Type
<1>1. /\ waiting' \in [text : CsAnyText, trailing : BOOLEAN, set : BOOLEAN]
      /\ waiting'.text = string /\ waiting'.trailing = waiting.set
  BY <1>0 DEF Cs!TypeOK, CsAnyText, CsStatus
<1>2. CASE waiting.set
  <2>1. Cs!NoSearch
    BY <1>2 DEF Cs!Type
  <2>2. Cs!TypeOK'
    BY <1>0, <1>1, <2>1 DEF Cs!TypeOK, Cs!NoSearch, CsAnyText, CsStatus
  <2>3. CsTypedFits'
    BY <1>0, <1>1, <1>2, <2>1 DEF CsTypedFits, Cs!NoSearch
  <2>. QED  BY <2>1, <2>2, <2>3, CsNoSearchFits DEF CsIInv
<1>3. CASE ~waiting.set
  <2>1. Cs!SearchAnew(string)
    BY <1>3 DEF Cs!Type
  <2>2. /\ searchIds' \in [Cs!Source -> 0..CsMaxSearches] /\ searching' \in Cs!Shown
        /\ searchStatus' \in CsStatus
        /\ runs' \subseteq Cs!Run /\ timeout' \in BOOLEAN /\ overtaken' \in BOOLEAN /\ failed' \in BOOLEAN
        /\ latest' \in [n : 0..CsMaxSearches, text : CsAnyText]
        /\ latest'.text = string
        /\ searching'.text = "" => searching'.result = {}
        /\ CsStatusFits' /\ CsShownFits'
    BY <1>0, <2>1, CsSearchAnewFits
  <2>3. Cs!TypeOK'
    BY <1>0, <1>1, <2>2 DEF Cs!TypeOK, CsAnyText, CsStatus
  <2>4. CsTypedFits'
    BY <1>0, <1>1, <1>3, <2>2 DEF CsTypedFits
  <2>. QED  BY <2>2, <2>3, <2>4 DEF CsIInv
<1>. QED  BY <1>2, <1>3

LEMMA CsLaterKeeps == ASSUME CsBounds, CsIInv, Cs!Later PROVE CsIInv'
<1>0. /\ Cs!TypeOK /\ CsStatusFits /\ CsTypedFits /\ CsShownFits
      /\ waiting' = Cs!NoTimer
      /\ UNCHANGED <<loggedIn, typed, cache, events>>
  BY DEF CsIInv, Cs!Later
<1>1. /\ waiting' \in [text : CsAnyText, trailing : BOOLEAN, set : BOOLEAN]
      /\ ~waiting'.trailing
  BY <1>0 DEF Cs!NoTimer, CsAnyText, CsStatus
<1>2. CASE ~waiting.trailing
  <2>1. Cs!NoSearch
    BY <1>2 DEF Cs!Later, Cs!Trailing
  <2>2. Cs!TypeOK'
    BY <1>0, <1>1, <2>1 DEF Cs!TypeOK, Cs!NoSearch, CsAnyText, CsStatus
  <2>3. CsTypedFits'
    BY <1>0, <1>1, <1>2, <2>1 DEF CsTypedFits, Cs!NoSearch
  <2>. QED  BY <2>1, <2>2, <2>3, CsNoSearchFits DEF CsIInv
<1>3. CASE waiting.trailing
  <2>1. Cs!SearchAnew(waiting.text) /\ waiting.text \in CsAnyText /\ waiting.text = typed /\ loggedIn
    BY <1>0, <1>3 DEF Cs!Later, Cs!Trailing, Cs!TypeOK, CsTypedFits, CsAnyText, CsStatus
  <2>2. /\ searchIds' \in [Cs!Source -> 0..CsMaxSearches] /\ searching' \in Cs!Shown
        /\ searchStatus' \in CsStatus
        /\ runs' \subseteq Cs!Run /\ timeout' \in BOOLEAN /\ overtaken' \in BOOLEAN /\ failed' \in BOOLEAN
        /\ latest' \in [n : 0..CsMaxSearches, text : CsAnyText]
        /\ latest'.text = typed
        /\ searching'.text = "" => searching'.result = {}
        /\ CsStatusFits' /\ CsShownFits'
    BY <2>1, CsSearchAnewFits
  <2>3. Cs!TypeOK'
    BY <1>0, <1>1, <2>2 DEF Cs!TypeOK, CsAnyText, CsStatus
  <2>4. CsTypedFits'
    BY <1>0, <1>1, <2>1, <2>2 DEF CsTypedFits
  <2>. QED  BY <2>2, <2>3, <2>4 DEF CsIInv
<1>. QED  BY <1>2, <1>3

LEMMA CsSearchAgainKeeps == ASSUME CsBounds, CsIInv, Cs!SearchAgain PROVE CsIInv'
<1>0. /\ Cs!TypeOK /\ CsStatusFits /\ CsTypedFits /\ CsShownFits
      /\ UNCHANGED <<loggedIn, typed, waiting, cache, failed, events>>
  BY DEF CsIInv, Cs!SearchAgain
<1>1. Cs!Nothing \in Cs!Shown /\ Cs!Nothing.text = "" /\ Cs!Nothing.result = {}
  BY DEF Cs!Nothing, Cs!Shown, CsAnyText, CsStatus
<1>2. CASE searching.text = "" \/ ~loggedIn
  <2>1. /\ timeout' = FALSE /\ searching' = Cs!Nothing /\ searchStatus' = "idle"
        /\ UNCHANGED <<searchIds, runs, latest, overtaken>>
    BY <1>2 DEF Cs!SearchAgain
  <2>2. Cs!TypeOK'
    BY <1>0, <1>1, <2>1 DEF Cs!TypeOK, CsAnyText, CsStatus
  <2>3. CsStatusFits' /\ CsTypedFits'
    BY <1>0, <1>1, <2>1 DEF CsStatusFits, CsTypedFits, CsBusy
  <2>4. CsShownFits'
    <3>. SUFFICES ASSUME ~overtaken, ~failed, latest.text # ""
                  PROVE  (\A s \in Cs!Source : CsComing(s)') /\ CsStarting'
      BY <1>0, <2>1 DEF CsShownFits, CsLatestFits
    <3>1. loggedIn /\ searching.text = "" /\ searching.text # latest.text
      BY <1>0, <1>2 DEF CsTypedFits
    <3>2. CsStarting /\ \A s \in Cs!Source : CsComing(s)
      BY <1>0, <3>1 DEF CsShownFits, CsLatestFits, CsGot
    <3>. QED  BY <2>1, <3>1, <3>2 DEF CsComing, CsStarting
  <2>. QED  BY <2>2, <2>3, <2>4 DEF CsIInv
<1>3. CASE ~(searching.text = "" \/ ~loggedIn)
  <2>1. PICK spoilt : spoilt = (overtaken \/ searching.text # latest.text)
    OBVIOUS
  <2>2. Cs!Search(searching.text, Cs!Nothing, spoilt) /\ spoilt \in BOOLEAN
    BY <1>3, <2>1 DEF Cs!SearchAgain
  <2>3. searching.text \in CsAnyText
    BY <1>0 DEF Cs!TypeOK, Cs!Shown, CsAnyText, CsStatus
  <2>4. /\ searchIds' \in [Cs!Source -> 0..CsMaxSearches] /\ searching' \in Cs!Shown
        /\ searchStatus' \in CsStatus
        /\ runs' \subseteq Cs!Run /\ timeout' \in BOOLEAN /\ overtaken' \in BOOLEAN
        /\ latest' \in [n : 0..CsMaxSearches, text : CsAnyText]
        /\ latest'.text = searching.text
        /\ spoilt => overtaken'
        /\ searching'.text = "" => searching'.result = {}
        /\ CsStatusFits' /\ CsLatestFits'
    BY <1>0, <1>1, <1>3, <2>2, <2>3, CsSearchFits
  <2>5. Cs!TypeOK'
    BY <1>0, <2>4 DEF Cs!TypeOK, CsAnyText, CsStatus
  <2>6. CsTypedFits'
    BY <1>0, <1>3, <2>1, <2>4 DEF CsTypedFits
  <2>. QED  BY <2>4, <2>5, <2>6 DEF CsIInv, CsShownFits
<1>. QED  BY <1>2, <1>3

--------------------
(* Answers. *)

\* A search that goes on, to source to.
CsContinues(r, screen, spoilt, to) ==
  /\ searching' = IF to = r.at + 1 THEN screen ELSE Cs!Loaded(screen, r.text, (r.at + 1)..(to - 1))
  /\ searchIds' \in [Cs!Source -> 0..CsMaxSearches] /\ searching' \in Cs!Shown
  /\ searchStatus' \in CsStatus /\ runs' \subseteq Cs!Run
  /\ \A i \in Cs!Source : searchIds'[i] = IF i \in (r.at + 1)..to THEN r.n ELSE searchIds[i]
  /\ runs \ {r} \subseteq runs'
  /\ to <= CsSources => \E q \in runs' : /\ q.n = r.n /\ q.text = r.text /\ q.at = to
                                         /\ searchIds'[to] = q.n
  /\ overtaken' \in BOOLEAN /\ (spoilt => overtaken')
  /\ to > r.at + 1 /\ Cs!Spoils(r) => overtaken'
  /\ CsStatusFits'

LEMMA CsGoesOn ==
  ASSUME CsBounds, CsIInv, NEW r \in runs, NEW screen \in Cs!Shown, NEW idle \in CsStatus, NEW spoilt,
         Cs!From(r, r.at + 1, screen, idle, spoilt),
         CsBusy(idle) => CsBusy(searchStatus) /\ ~Cs!IsLatest(r)
  PROVE  \E to \in (r.at + 1)..(CsSources + 1) : CsContinues(r, screen, spoilt, to)
<1>0. Cs!TypeOK /\ CsStatusFits /\ r \in Cs!Run /\ r.at \in Cs!Source /\ r.text \in CsText /\ CsSources \in Nat \ {0}
  BY DEF CsIInv, Cs!TypeOK, Cs!Run, CsBounds, CsAnyText, CsStatus
<1>1. PICK s \in 1..(CsSources + 1) : s = r.at + 1
  BY <1>0 DEF Cs!Source
<1>2. s \in Nat \ {0} /\ s # 1 /\ r.at \in Nat
  BY <1>0, <1>1 DEF Cs!Source
<1>10. PICK to \in s..(CsSources + 1) : CsReaches(r, s, screen, idle, spoilt, to)
  BY <1>0, <1>1, CsFromFits
<1>3. /\ searching' = IF to = s THEN screen ELSE Cs!Loaded(screen, r.text, s..(to - 1))
      /\ searchIds' \in [Cs!Source -> 0..CsMaxSearches]
      /\ \A i \in Cs!Source : searchIds'[i] = IF i \in s..to THEN r.n ELSE searchIds[i]
      /\ searchStatus' \in CsStatus
      /\ CsBusy(searchStatus') => to <= CsSources \/ (to = s /\ CsBusy(idle))
      /\ to <= CsSources => \E q \in Cs!Run : /\ q.n = r.n /\ q.text = r.text /\ q.at = to
                                              /\ runs' = (runs \ {r}) \cup {q}
      /\ to > CsSources => runs' = runs \ {r}
      /\ overtaken' \in BOOLEAN /\ (spoilt => overtaken')
      /\ to > s /\ Cs!Spoils(r) => overtaken'
  BY <1>10 DEF CsReaches
<1>4. to \in Nat \ {0} /\ s <= to /\ (to <= CsSources \/ to > CsSources)
  BY <1>0, <1>2
<1>5. searching' \in Cs!Shown
  <2>1. s..(to - 1) \in SUBSET Cs!Source
    BY <1>0, <1>2, <1>4 DEF Cs!Source
  <2>. QED  BY <1>0, <1>3, <2>1, CsLoadedFits
<1>6. runs' \subseteq Cs!Run /\ runs \ {r} \subseteq runs'
  BY <1>0, <1>3, <1>4 DEF Cs!TypeOK, CsAnyText, CsStatus
<1>7. to <= CsSources => \E q \in runs' : /\ q.n = r.n /\ q.text = r.text /\ q.at = to
                                          /\ searchIds'[to] = q.n
  <2>. SUFFICES ASSUME to <= CsSources
                PROVE  \E q \in runs' : /\ q.n = r.n /\ q.text = r.text /\ q.at = to
                                        /\ searchIds'[to] = q.n
    OBVIOUS
  <2>1. to \in Cs!Source /\ to \in s..to
    BY <1>2, <1>4 DEF Cs!Source
  <2>2. searchIds'[to] = r.n
    BY <1>3, <2>1
  <2>. QED  BY <1>3, <2>2
<1>8. CsStatusFits'
  <2>. SUFFICES ASSUME CsBusy(searchStatus') PROVE \E q \in runs' : searchIds'[q.at] = q.n
    BY DEF CsStatusFits
  <2>1. CASE to <= CsSources
    BY <1>7, <2>1
  <2>2. CASE to > CsSources
    <3>1. to = s /\ CsBusy(idle)
      BY <1>0, <1>3, <1>4, <2>2
    <3>2. CsBusy(searchStatus) /\ searchIds[r.at] # r.n
      BY <3>1 DEF Cs!IsLatest
    <3>3. PICK w \in runs : searchIds[w.at] = w.n
      BY <1>0, <3>2 DEF CsStatusFits
    <3>4. w # r /\ w \in runs' /\ w.at \in Cs!Source
      BY <1>0, <1>6, <3>2, <3>3 DEF Cs!TypeOK, Cs!Run, CsAnyText, CsStatus
    <3>5. w.at \notin s..to
      BY <1>0, <1>2, <1>4, <2>2, <3>1, <3>4 DEF Cs!Source
    <3>. QED  BY <1>3, <3>3, <3>4, <3>5
  <2>. QED  BY <1>4, <2>1, <2>2
<1>9. searchStatus' \in CsStatus
  BY <1>3
<1>. QED  BY <1>1, <1>3, <1>5, <1>6, <1>7, <1>8, <1>9 DEF CsContinues

LEMMA CsAnswerKeeps == ASSUME CsBounds, CsIInv, NEW r \in runs, Cs!Answer(r) PROVE CsIInv'
<1>. DEFINE screen == IF Cs!IsLatest(r) THEN Cs!Loaded(searching, r.text, {r.at}) ELSE searching
            idle == IF Cs!IsLatest(r) THEN "idle" ELSE searchStatus
<1>0. /\ Cs!TypeOK /\ CsStatusFits /\ CsTypedFits /\ CsShownFits
      /\ cache' = IF loggedIn THEN cache \cup {<<r.at, r.text>>} ELSE cache
      /\ UNCHANGED <<loggedIn, typed, waiting, timeout, latest, failed, events>>
  BY DEF CsIInv, Cs!Answer
<1>1. /\ r \in Cs!Run /\ r.at \in Cs!Source /\ r.text \in CsText /\ searching \in Cs!Shown
  BY <1>0 DEF Cs!TypeOK, Cs!Run
<1>14. r.text # "" /\ latest.text \in CsAnyText
  BY <1>0, <1>1 DEF Cs!TypeOK, CsBounds, CsNoEmptyText, CsAnyText
<1>15. CsSources \in Nat \ {0} /\ r.at \in 1..CsSources
  BY <1>1 DEF CsBounds, Cs!Source
<1>2. PICK spoilt : spoilt = (overtaken \/ (searchIds[r.at] = r.n /\ Cs!Spoils(r)))
  OBVIOUS
<1>3. Cs!From(r, r.at + 1, screen, idle, spoilt)
  BY <1>2 DEF Cs!Answer
<1>4. /\ screen \in Cs!Shown /\ idle \in CsStatus
      /\ CsBusy(idle) => CsBusy(searchStatus) /\ ~Cs!IsLatest(r)
      /\ Cs!IsLatest(r) => /\ screen.text = r.text /\ r.at \in screen.result
                           /\ searching.text = r.text => searching.result \subseteq screen.result
      /\ ~Cs!IsLatest(r) => screen = searching
  <2>1. {r.at} \in SUBSET Cs!Source
    BY <1>1
  <2>. QED  BY <1>0, <1>1, <2>1, CsLoadedFits DEF Cs!TypeOK, CsAnyText, CsStatus, CsBusy
<1>. HIDE DEF screen, idle
<1>16. PICK to \in (r.at + 1)..(CsSources + 1) : CsContinues(r, screen, spoilt, to)
  <2>1. screen \in Cs!Shown /\ idle \in CsStatus /\ (CsBusy(idle) => CsBusy(searchStatus) /\ ~Cs!IsLatest(r))
    BY <1>4
  <2>. QED  BY <1>3, <2>1, CsGoesOn
<1>5. /\ searching' = IF to = r.at + 1 THEN screen ELSE Cs!Loaded(screen, r.text, (r.at + 1)..(to - 1))
      /\ searchIds' \in [Cs!Source -> 0..CsMaxSearches] /\ searching' \in Cs!Shown
      /\ searchStatus' \in CsStatus /\ runs' \subseteq Cs!Run
      /\ \A i \in Cs!Source : searchIds'[i] = IF i \in (r.at + 1)..to THEN r.n ELSE searchIds[i]
      /\ runs \ {r} \subseteq runs'
      /\ to <= CsSources => \E q \in runs' : /\ q.n = r.n /\ q.text = r.text /\ q.at = to
                                             /\ searchIds'[to] = q.n
      /\ overtaken' \in BOOLEAN /\ (spoilt => overtaken')
      /\ to > r.at + 1 /\ Cs!Spoils(r) => overtaken'
      /\ CsStatusFits'
  BY <1>16 DEF CsContinues
<1>6. PICK s \in Nat \ {0} : s = r.at + 1
  BY <1>15
<1>7. r.at \in Nat \ {0} /\ to \in Nat /\ s <= to /\ s # 1
  BY <1>6, <1>15
<1>8. s..(to - 1) \in SUBSET Cs!Source
  BY <1>6, <1>7, <1>15 DEF Cs!Source
\* What is shown then.
<1>9. /\ Cs!IsLatest(r) \/ to # s => searching'.text = r.text
      /\ ~Cs!IsLatest(r) /\ to = s => searching' = searching
      /\ Cs!IsLatest(r) => r.at \in searching'.result
      /\ s..(to - 1) \subseteq searching'.result
      /\ searching.text = r.text => searching.result \subseteq searching'.result
  <2>1. CASE to = s
    <3>1. searching' = screen /\ s..(to - 1) = {}
      BY <1>5, <1>6, <1>7, <2>1
    <3>. QED  BY <1>4, <2>1, <3>1
  <2>2. CASE to # s
    <3>1. searching' = Cs!Loaded(screen, r.text, s..(to - 1))
      BY <1>5, <1>6, <2>2
    <3>2. /\ searching'.text = r.text /\ s..(to - 1) \subseteq searching'.result
          /\ screen.text = r.text => screen.result \subseteq searching'.result
      BY <1>1, <1>4, <1>8, <3>1, CsLoadedFits
    <3>. QED  BY <1>4, <2>2, <3>2
  <2>. QED  BY <2>1, <2>2
<1>10. Cs!TypeOK'
  <2>2. cache \subseteq Cs!Source \X CsText
    BY <1>0 DEF Cs!TypeOK
  <2>1. cache' \subseteq Cs!Source \X CsText
    BY <1>0, <1>1, <2>2
  <2>. QED  BY <1>0, <1>5, <2>1 DEF Cs!TypeOK, CsAnyText, CsStatus
<1>11. overtaken => overtaken'
  BY <1>2, <1>5
<1>12. CsTypedFits'
  <2>1. searching'.text = "" => searching'.result = {}
    BY <1>0, <1>1, <1>9, <1>14 DEF CsTypedFits
  <2>. QED  BY <1>0, <1>11, <2>1 DEF CsTypedFits
<1>13. CsShownFits'
  <2>. SUFFICES ASSUME ~overtaken', ~failed PROVE CsLatestFits'
    BY <1>0 DEF CsShownFits
  <2>1. ~overtaken /\ CsLatestFits
    BY <1>0, <1>11 DEF CsShownFits
  <2>2. Cs!Spoils(r) => ~Cs!IsLatest(r) /\ to = s
    <3>1. ~(to > s /\ Cs!Spoils(r)) /\ ~(Cs!IsLatest(r) /\ Cs!Spoils(r))
      BY <1>2, <1>5, <1>6 DEF Cs!IsLatest
    <3>2. to > s \/ to = s
      BY <1>7
    <3>. QED  BY <3>1, <3>2
  <2>3. Cs!Spoils(r) <=> r.text # latest.text /\ latest.text \in {"", searching.text}
    BY <1>0 DEF Cs!Spoils
  <2>4. \A w \in runs : w # r => w \in runs'
    BY <1>5
  <2>5. ASSUME NEW x \in Cs!Source PROVE x \in Nat \ {0} /\ x <= CsSources
    BY <1>15 DEF Cs!Source
  <2>6. ASSUME NEW x \in Cs!Source, x \in s..to, x \notin s..(to - 1) PROVE x = to /\ to <= CsSources
    BY <1>6, <1>7, <2>5, <2>6
  <2>7. ASSUME NEW x \in Cs!Source, x \notin s..to PROVE searchIds'[x] = searchIds[x]
    BY <1>5, <1>6, <2>7
  <2>8. CASE latest.text = ""
    <3>1. searching' = searching
      BY <1>9, <1>14, <2>2, <2>3, <2>8
    <3>. QED  BY <1>0, <2>1, <2>8, <3>1 DEF CsLatestFits
  <2>9. CASE latest.text # "" /\ r.text = latest.text
    <3>1. CsGot \subseteq CsGot' /\ s..(to - 1) \subseteq CsGot' /\ (Cs!IsLatest(r) => r.at \in CsGot')
      <4>1. CASE Cs!IsLatest(r) \/ to # s
        BY <1>0, <1>9, <2>9, <4>1 DEF CsGot
      <4>2. CASE ~Cs!IsLatest(r) /\ to = s
        <5>1. s..(to - 1) = {}
          BY <1>7, <4>2
        <5>. QED  BY <1>0, <1>9, <4>2, <5>1 DEF CsGot
      <4>. QED  BY <4>1, <4>2
    <3>2. searching.text = latest.text => searching'.text = latest.text
      BY <1>9, <2>9
    <3>3. ASSUME NEW x \in Cs!Source, x \notin CsGot' PROVE CsComing(x)'
      <4>1. x \notin CsGot /\ x \notin s..(to - 1) /\ ~(Cs!IsLatest(r) /\ x = r.at)
        BY <3>1, <3>3
      <4>2. PICK w \in runs : \/ w.text = latest.text /\ w.at < x
                              \/ /\ w.at = x /\ searchIds[x] = w.n
                                 /\ w.text = latest.text \/ searching.text = latest.text
        BY <2>1, <2>9, <4>1 DEF CsLatestFits, CsComing
      <4>3. ASSUME to <= CsSources, to <= x PROVE CsComing(x)'
        <5>1. PICK q \in runs' : q.n = r.n /\ q.text = r.text /\ q.at = to /\ searchIds'[to] = q.n
          BY <1>5, <4>3
        <5>2. to < x \/ to = x
          BY <1>7, <2>5, <4>3
        <5>3. q.at < x \/ (q.at = x /\ searchIds'[x] = q.n)
          BY <5>1, <5>2
        <5>. QED  BY <1>0, <2>9, <5>1, <5>3 DEF CsComing
      <4>4. CASE w = r
        <5>1. r.at < x
          BY <4>1, <4>2, <4>4 DEF Cs!IsLatest
        <5>2. to <= x /\ to <= CsSources
          BY <1>6, <1>7, <1>15, <2>5, <4>1, <5>1
        <5>. QED  BY <4>3, <5>2
      <4>5. CASE w # r /\ x \in s..to
        <5>1. x = to /\ to <= CsSources
          BY <2>6, <4>1, <4>5
        <5>2. to <= x
          BY <1>7, <5>1
        <5>. QED  BY <4>3, <5>1, <5>2
      <4>6. CASE w # r /\ x \notin s..to
        <5>1. w \in runs' /\ searchIds'[x] = searchIds[x]
          BY <2>4, <2>7, <4>6
        <5>. QED  BY <1>0, <3>2, <4>2, <5>1 DEF CsComing
      <4>. QED  BY <4>4, <4>5, <4>6
    <3>4. ASSUME searching'.text # latest'.text PROVE CsStarting'
      <4>1. ~Cs!IsLatest(r) /\ to = s /\ searching' = searching
        BY <1>0, <1>9, <2>9, <3>4
      <4>2. PICK w \in runs : w.text = latest.text /\ w.at = 1 /\ searchIds[1] = w.n
        BY <1>0, <2>1, <2>9, <3>4, <4>1 DEF CsLatestFits, CsStarting
      <4>3. w # r
        BY <4>1, <4>2 DEF Cs!IsLatest
      <4>4. 1 \in Cs!Source /\ 1 \notin s..to
        BY <1>6, <1>7, <1>15 DEF Cs!Source
      <4>. QED  BY <1>0, <2>4, <2>7, <4>2, <4>3, <4>4 DEF CsStarting
    <3>. QED  BY <1>0, <2>9, <3>3, <3>4 DEF CsLatestFits
  <2>10. CASE latest.text # "" /\ r.text # latest.text /\ searching.text = latest.text
    <3>1. ~Cs!IsLatest(r) /\ to = s /\ searching' = searching
      BY <1>9, <2>2, <2>3, <2>10
    <3>2. CsGot' = CsGot
      BY <1>0, <3>1 DEF CsGot
    <3>3. ASSUME NEW x \in Cs!Source, x \notin CsGot' PROVE CsComing(x)'
      <4>1. PICK w \in runs : \/ w.text = latest.text /\ w.at < x
                              \/ /\ w.at = x /\ searchIds[x] = w.n
                                 /\ w.text = latest.text \/ searching.text = latest.text
        BY <2>1, <2>10, <3>2, <3>3 DEF CsLatestFits, CsComing
      <4>2. w # r
        BY <2>10, <3>1, <4>1 DEF Cs!IsLatest
      <4>3. CASE x \in s..to
        <5>1. x \notin s..(to - 1)
          BY <1>7, <3>1, <2>5
        <5>2. x = to /\ to <= CsSources
          BY <2>6, <4>3, <5>1
        <5>3. PICK q \in runs' : q.at = to /\ searchIds'[to] = q.n
          BY <1>5, <5>2
        <5>. QED  BY <1>0, <2>10, <3>1, <5>2, <5>3 DEF CsComing
      <4>4. CASE x \notin s..to
        <5>1. w \in runs' /\ searchIds'[x] = searchIds[x]
          BY <2>4, <2>7, <4>2, <4>4
        <5>. QED  BY <1>0, <3>1, <4>1, <5>1 DEF CsComing
      <4>. QED  BY <4>3, <4>4
    <3>. QED  BY <1>0, <2>10, <3>1, <3>3 DEF CsLatestFits
  <2>11. CASE latest.text # "" /\ r.text # latest.text /\ searching.text # latest.text
    <3>1. searching'.text # latest.text
      BY <1>9, <2>11
    <3>2. PICK w \in runs : w.text = latest.text /\ w.at = 1 /\ searchIds[1] = w.n
      BY <2>1, <2>11 DEF CsLatestFits, CsStarting
    <3>3. 1 \in Cs!Source /\ 1 \notin s..to
      BY <1>6, <1>7, <1>15 DEF Cs!Source
    <3>4. w \in runs' /\ searchIds'[1] = w.n
      BY <2>4, <2>7, <2>11, <3>2, <3>3
    <3>5. ASSUME NEW x \in Cs!Source PROVE CsComing(x)'
      <4>1. x = 1 \/ 1 < x
        BY <2>5
      <4>. QED  BY <1>0, <3>2, <3>4, <4>1 DEF CsComing
    <3>6. CsStarting'
      BY <1>0, <3>2, <3>4 DEF CsStarting
    <3>. QED  BY <1>0, <2>11, <3>5, <3>6 DEF CsLatestFits
  <2>. QED  BY <2>8, <2>9, <2>10, <2>11
<1>. QED  BY <1>5, <1>10, <1>12, <1>13 DEF CsIInv

LEMMA CsFailKeeps == ASSUME CsBounds, CsIInv, NEW r \in runs, Cs!Fail(r) PROVE CsIInv'
<1>0. /\ Cs!TypeOK /\ CsStatusFits /\ CsTypedFits /\ CsShownFits
      /\ Cs!Counted /\ failed' = TRUE
      /\ UNCHANGED <<loggedIn, typed, waiting, cache, timeout, latest>>
      /\ Cs!From(r, r.at + 1, Cs!Nothing, "idle", overtaken)
  BY DEF CsIInv, Cs!Fail
<1>1. r.text \in CsText /\ r.text # ""
  BY <1>0 DEF Cs!TypeOK, Cs!Run, CsBounds, CsNoEmptyText
<1>9. Cs!Nothing \in Cs!Shown /\ Cs!Nothing.result = {} /\ "idle" \in CsStatus /\ ~CsBusy("idle")
  BY DEF Cs!Nothing, Cs!Shown, CsAnyText, CsStatus, CsBusy
<1>8. PICK to \in (r.at + 1)..(CsSources + 1) : CsContinues(r, Cs!Nothing, overtaken, to)
  <2>1. PICK idle : idle = "idle"
    OBVIOUS
  <2>2. Cs!From(r, r.at + 1, Cs!Nothing, idle, overtaken)
    BY <1>0, <2>1
  <2>3. Cs!Nothing \in Cs!Shown /\ idle \in CsStatus /\ (CsBusy(idle) => CsBusy(searchStatus) /\ ~Cs!IsLatest(r))
    BY <1>9, <2>1
  <2>. QED  BY <2>2, <2>3, CsGoesOn
<1>2. /\ searching' = IF to = r.at + 1 THEN Cs!Nothing ELSE Cs!Loaded(Cs!Nothing, r.text, (r.at + 1)..(to - 1))
      /\ searchIds' \in [Cs!Source -> 0..CsMaxSearches] /\ searching' \in Cs!Shown
      /\ searchStatus' \in CsStatus /\ runs' \subseteq Cs!Run
      /\ overtaken' \in BOOLEAN /\ (overtaken => overtaken')
      /\ CsStatusFits'
  BY <1>8 DEF CsContinues
<1>3. events' \in 0..CsMaxEvents
  BY <1>0, CsCountedType
<1>4. Cs!TypeOK'
  BY <1>0, <1>2, <1>3 DEF Cs!TypeOK, CsAnyText, CsStatus
<1>5. CsTypedFits'
  <2>1. searching'.text = "" => searching'.result = {}
    BY <1>1, <1>2, <1>9 DEF Cs!Loaded
  <2>. QED  BY <1>0, <1>2, <2>1 DEF CsTypedFits
<1>6. CsShownFits'
  BY <1>0 DEF CsShownFits
<1>. QED  BY <1>2, <1>4, <1>5, <1>6 DEF CsIInv

--------------------
(* Time, and the login. *)

LEMMA CsExpireKeeps == ASSUME CsBounds, CsIInv, NEW c \in cache, Cs!Expire(c) PROVE CsIInv'
<1>0. /\ Cs!TypeOK /\ CsTypedFits /\ Cs!Counted /\ cache' = cache \ {c} /\ Cs!NoSearch
      /\ UNCHANGED <<loggedIn, typed, waiting>>
  BY DEF CsIInv, Cs!Expire
<1>1. events' \in 0..CsMaxEvents
  BY <1>0, CsCountedType
<1>2. Cs!TypeOK'
  BY <1>0, <1>1 DEF Cs!TypeOK, Cs!NoSearch, CsAnyText, CsStatus
<1>3. CsTypedFits'
  BY <1>0 DEF CsTypedFits, Cs!NoSearch
<1>. QED  BY <1>0, <1>2, <1>3, CsNoSearchFits DEF CsIInv

LEMMA CsTurnKeeps == ASSUME CsBounds, CsIInv, Cs!Turn PROVE CsIInv'
<1>0. /\ Cs!TypeOK /\ CsStatusFits /\ CsTypedFits /\ CsShownFits
      /\ Cs!Counted /\ loggedIn' = ~loggedIn /\ cache' = {} /\ typed' = ""
      /\ latest' = [latest EXCEPT !.text = ""]
      /\ searching' = IF loggedIn THEN Cs!Nothing ELSE searching
      /\ waiting' = [waiting EXCEPT !.text = "", !.trailing = FALSE]
      /\ UNCHANGED <<searchStatus, searchIds, runs, timeout, overtaken, failed>>
  BY DEF CsIInv, Cs!Turn
<1>1. events' \in 0..CsMaxEvents
  BY <1>0, CsCountedType
<1>2. /\ latest' \in [n : 0..CsMaxSearches, text : CsAnyText] /\ latest'.text = ""
      /\ waiting' \in [text : CsAnyText, trailing : BOOLEAN, set : BOOLEAN] /\ waiting'.trailing = FALSE
  BY <1>0 DEF Cs!TypeOK, CsAnyText, CsStatus
<1>3. searching' \in Cs!Shown /\ (searching'.text = "" => searching'.result = {})
  BY <1>0 DEF Cs!TypeOK, CsTypedFits, Cs!Nothing, Cs!Shown, CsAnyText, CsStatus
<1>4. Cs!TypeOK'
  <2>1. loggedIn' \in BOOLEAN
    BY <1>0
  <2>. QED  BY <1>0, <1>1, <1>2, <1>3, <2>1 DEF Cs!TypeOK, CsAnyText, CsStatus
<1>5. CsStatusFits'
  BY <1>0 DEF CsStatusFits
<1>6. CsTypedFits'
  BY <1>0, <1>2, <1>3 DEF CsTypedFits
<1>7. CsShownFits'
  <2>. SUFFICES ASSUME ~overtaken, ~failed PROVE searching' = Cs!Nothing
    BY <1>0, <1>2 DEF CsShownFits, CsLatestFits
  <2>1. CASE loggedIn
    BY <1>0, <2>1
  <2>2. CASE ~loggedIn
    BY <1>0, <2>2 DEF CsTypedFits, CsShownFits, CsLatestFits
  <2>. QED  BY <2>1, <2>2
<1>. QED  BY <1>4, <1>5, <1>6, <1>7 DEF CsIInv

LEMMA CsNextIInv == ASSUME CsBounds PROVE CsIInv /\ [Cs!Next]_(Cs!vars) => CsIInv'
<1>. SUFFICES ASSUME CsIInv, [Cs!Next]_(Cs!vars) PROVE CsIInv'
  OBVIOUS
<1>1. CASE UNCHANGED Cs!vars
  <2>1. /\ UNCHANGED <<loggedIn, typed, waiting, cache, events>>
        /\ UNCHANGED <<searchStatus, searching, searchIds, runs, timeout, latest, overtaken, failed>>
    BY <1>1 DEF Cs!vars
  <2>2. Cs!TypeOK /\ CsTypedFits
    BY DEF CsIInv
  <2>3. Cs!TypeOK'
    BY <2>1, <2>2 DEF Cs!TypeOK, CsAnyText, CsStatus
  <2>4. CsTypedFits'
    BY <2>1, <2>2 DEF CsTypedFits
  <2>. QED  BY <2>1, <2>3, <2>4, CsNoSearchFits DEF CsIInv, Cs!NoSearch
<1>2. CASE Cs!Next
  BY <1>2, CsTypeKeeps, CsLaterKeeps, CsSearchAgainKeeps, CsTurnKeeps, CsAnswerKeeps, CsFailKeeps, CsExpireKeeps DEF Cs!Next, CsAnyText
<1>. QED  BY <1>1, <1>2

\* For any sources and strings: when all searches are over, what was typed last is shown.
LEMMA CsSearchesAreShown == ASSUME CsBounds PROVE CsIInv => Cs!SearchShown
<1>. SUFFICES ASSUME CsIInv, runs = {}, ~waiting.trailing, ~overtaken, ~failed
              PROVE  /\ searchStatus = "idle"
                     /\ searching = [text |-> typed, result |-> IF typed = "" THEN {} ELSE Cs!Source]
  BY DEF Cs!SearchShown
<1>1. searchStatus = "idle"
  BY DEF CsIInv, Cs!TypeOK, CsStatusFits, CsBusy, CsStatus
<1>2. latest.text = typed /\ CsLatestFits /\ searching \in Cs!Shown
  BY DEF CsIInv, Cs!TypeOK, CsTypedFits, CsShownFits, CsAnyText, CsStatus
<1>3. CASE typed = ""
  BY <1>1, <1>2, <1>3 DEF CsLatestFits, Cs!Nothing, CsAnyText, CsStatus
<1>4. CASE typed # ""
  <2>1. \A s : ~CsComing(s)
    BY DEF CsComing
  <2>2. Cs!Source \subseteq CsGot
    BY <1>2, <1>4, <2>1 DEF CsLatestFits
  <2>3. 1 \in Cs!Source
    BY DEF Cs!Source, CsBounds
  <2>4. searching.text = typed /\ Cs!Source \subseteq searching.result
    BY <1>2, <2>2, <2>3 DEF CsGot
  <2>5. searching.result = Cs!Source
    BY <1>2, <2>4 DEF Cs!Shown
  <2>6. searching = [text |-> searching.text, result |-> searching.result]
    BY <1>2 DEF Cs!Shown
  <2>. QED  BY <1>1, <1>4, <2>4, <2>5, <2>6
<1>. QED  BY <1>3, <1>4

-----------------------------------------------------------------------------
(***************************************************************************)
(* Proofs about the presences of contacts: for any contacts and bounds,    *)
(* and however calls, batches and logins cross, each call is answered or   *)
(* is going to be, once.                                                   *)
(***************************************************************************)

AcBounds == AcBatchSize \in Nat \ {0} /\ AcMaxAsks \in Nat /\ AcMaxEvents \in Nat

AcCollected(n) == \E i \in DOMAIN contexts : contexts[i].id = n
AcAskedIn(b, n) == \E i \in DOMAIN b.asks : b.asks[i].id = n

\* A call is collected, in a batch or answered, and only one of these, and once.
AcOnce ==
  /\ \A i, j \in DOMAIN contexts : contexts[i].id = contexts[j].id => i = j
  /\ \A b, d \in batches, n \in 1..asked : AcAskedIn(b, n) /\ AcAskedIn(d, n) => b = d
  /\ \A n \in 1..asked : AcCollected(n) => n \notin answered /\ \A b \in batches : ~AcAskedIn(b, n)
  /\ \A n \in 1..asked, b \in batches : AcAskedIn(b, n) => n \notin answered
  /\ \A n \in 1..asked : AcCollected(n) \/ n \in answered \/ \E b \in batches : AcAskedIn(b, n)

\* Calls have been made.
AcMade ==
  /\ \A i \in DOMAIN contexts : contexts[i].id \in 1..asked
  /\ \A b \in batches : \A i \in DOMAIN b.asks : b.asks[i].id \in 1..asked

AcCollecting ==
  /\ timeout <=> contexts # <<>>
  /\ Len(contexts) < AcBatchSize

AcPresencesFit ==
  \A p \in AcPerson \ late : presences[p] # 0 => status = "ready" /\ presences[p] \in {logins, -logins}

AcIInv == Ac!TypeOK /\ AcOnce /\ AcMade /\ AcCollecting /\ AcPresencesFit

--------------------
(* Calls. *)

\* Its cardinality is that of the sets here.
LEMMA AcCardinality == ASSUME NEW S PROVE Ac!Cardinality(S) = Cardinality(S)
  BY DEF Ac!Cardinality, Cardinality

LEMMA AcCountedType == ASSUME AcBounds, Ac!TypeOK, Ac!Counted PROVE events' \in 0..AcMaxEvents
<1>1. AcMaxEvents \in Nat /\ events \in 0..AcMaxEvents /\ events < AcMaxEvents /\ events' = events + 1
  BY DEF AcBounds, Ac!TypeOK, Ac!Counted
<1>. QED  BY <1>1

LEMMA AcInitIInv == ASSUME AcBounds PROVE Ac!Init => AcIInv
<1>. SUFFICES ASSUME Ac!Init PROVE AcIInv
  OBVIOUS
<1>1. /\ status = "pending" /\ logins = 0 /\ presences = [p \in AcPerson |-> 0]
      /\ contexts = <<>> /\ timeout = FALSE /\ batches = {}
      /\ asked = 0 /\ answered = {} /\ late = {} /\ events = 0
  BY DEF Ac!Init
<1>2. AcBatchSize \in Nat \ {0} /\ AcMaxAsks \in Nat /\ AcMaxEvents \in Nat
  BY DEF AcBounds
<1>3. contexts \in Seq(Ac!Ask) /\ DOMAIN contexts = {} /\ Len(contexts) = 0 /\ 1..asked = {}
  <2>1. contexts = <<>> /\ asked = 0
    BY <1>1
  <2>. QED  BY <2>1
<1>4. Ac!TypeOK
  <2>1. asked \in 0..AcMaxAsks /\ events \in 0..AcMaxEvents
    <3>1. asked = 0 /\ events = 0
      BY <1>1
    <3>. QED  BY <1>2, <3>1
  <2>2. presences \in [AcPerson -> Int] /\ logins \in Nat
    BY <1>1
  <2>. QED  BY <1>1, <1>3, <2>1, <2>2 DEF Ac!TypeOK
<1>5. AcOnce /\ AcMade
  BY <1>1, <1>3 DEF AcOnce, AcMade
<1>6. AcCollecting /\ AcPresencesFit
  BY <1>1, <1>2, <1>3 DEF AcCollecting, AcPresencesFit
<1>. QED  BY <1>4, <1>5, <1>6 DEF AcIInv

\* A new call.
LEMMA AcAppended ==
  ASSUME NEW s \in Seq(Ac!Ask), NEW a \in Ac!Ask
  PROVE  /\ Append(s, a) \in Seq(Ac!Ask) /\ Len(Append(s, a)) = Len(s) + 1
         /\ DOMAIN s = 1..Len(s) /\ DOMAIN Append(s, a) = 1..(Len(s) + 1)
         /\ Append(s, a)[Len(s) + 1] = a /\ \A i \in 1..Len(s) : Append(s, a)[i] = s[i]
         /\ Append(s, a) # <<>>
  OBVIOUS

\* What is collected becomes a batch.
LEMMA AcQueriedFits ==
  ASSUME AcBounds, Ac!TypeOK, NEW open \in Seq(Ac!Ask), Ac!Queried(open)
  PROVE  \E b \in Ac!Batch : b.asks = open /\ b.login = logins /\ batches' = batches \cup {b}
<1>. DEFINE b == [asks |-> open, login |-> logins]
<1>1. b \in Ac!Batch /\ b.asks = open /\ b.login = logins
  BY DEF Ac!Batch, Ac!TypeOK
<1>2. batches' = batches \cup {b}
  BY DEF Ac!Queried
<1>. QED  BY <1>1, <1>2

LEMMA AcGetPresenceKeeps ==
  ASSUME AcBounds, AcIInv, NEW p \in AcPerson, NEW useCache \in BOOLEAN, Ac!GetPresence(p, useCache)
  PROVE  AcIInv'
<1>. DEFINE a == [id |-> asked + 1, of |-> p]
            open == Append(contexts, a)
<1>0. /\ Ac!TypeOK /\ AcOnce /\ AcMade /\ AcCollecting /\ AcPresencesFit
      /\ asked < AcMaxAsks /\ asked' = asked + 1
      /\ UNCHANGED <<status, logins, presences, late, events>>
  BY DEF AcIInv, Ac!GetPresence
<1>1. /\ asked \in Nat /\ asked' \in 0..AcMaxAsks /\ asked' \in 1..AcMaxAsks
      /\ asked' \notin 1..asked /\ 1..asked' = 1..asked \cup {asked'}
  <2>1. asked \in 0..AcMaxAsks /\ AcMaxAsks \in Nat
    BY <1>0 DEF Ac!TypeOK, AcBounds
  <2>2. asked \in Nat /\ asked + 1 \in 0..AcMaxAsks /\ asked + 1 \in 1..AcMaxAsks
    BY <1>0, <2>1
  <2>3. asked + 1 \notin 1..asked /\ 1..(asked + 1) = 1..asked \cup {asked + 1}
    BY <2>2
  <2>. QED  BY <1>0, <2>2, <2>3
<1>2. contexts \in Seq(Ac!Ask) /\ AcBatchSize \in Nat \ {0} /\ Len(contexts) \in Nat /\ Len(contexts) < AcBatchSize
  BY <1>0 DEF Ac!TypeOK, AcBounds, AcCollecting
<1>3. /\ ~AcCollected(asked') /\ asked' \notin answered
      /\ \A b \in batches : ~AcAskedIn(b, asked')
      /\ answered \subseteq 1..asked
  BY <1>0, <1>1 DEF AcMade, AcCollected, AcAskedIn, Ac!TypeOK
<1>4. AcPresencesFit'
  BY <1>0 DEF AcPresencesFit
<1>5. CASE useCache /\ presences[p] > 0
  <2>1. answered' = answered \cup {asked'} /\ UNCHANGED <<contexts, timeout, batches>>
    BY <1>5 DEF Ac!GetPresence
  <2>2. Ac!TypeOK'
    <3>1. answered' \subseteq 1..asked'
      BY <1>1, <1>3, <2>1
    <3>. QED  BY <1>0, <1>1, <2>1, <3>1 DEF Ac!TypeOK
  <2>3. AcOnce'
    <3>1. \A n : (AcCollected(n)' <=> AcCollected(n)) /\ \A b : AcAskedIn(b, n)' <=> AcAskedIn(b, n)
      BY <2>1 DEF AcCollected, AcAskedIn
    <3>2. \A n \in 1..asked : n # asked'
      BY <1>1
    <3>. QED  BY <1>0, <1>1, <1>3, <2>1, <3>1, <3>2 DEF AcOnce
  <2>4. AcMade'
    BY <1>0, <1>1, <2>1 DEF AcMade
  <2>5. AcCollecting'
    BY <1>0, <2>1 DEF AcCollecting
  <2>. QED  BY <1>4, <2>2, <2>3, <2>4, <2>5 DEF AcIInv
<1>6. CASE ~(useCache /\ presences[p] > 0)
  <2>1. /\ timeout' = ~Ac!IsFull(open)
        /\ IF Ac!IsFull(open) THEN contexts' = <<>> /\ Ac!Queried(open)
           ELSE contexts' = open /\ UNCHANGED batches
        /\ UNCHANGED answered
    BY <1>0, <1>6 DEF Ac!GetPresence
  <2>2. PICK m \in Nat : m = Len(contexts)
    BY <1>2
  <2>3. a \in Ac!Ask /\ a.id = asked'
    BY <1>0, <1>1 DEF Ac!Ask
  <2>. HIDE DEF a
  <2>4. /\ open \in Seq(Ac!Ask) /\ Len(open) = m + 1 /\ open # <<>>
        /\ DOMAIN contexts = 1..m /\ DOMAIN open = 1..(m + 1)
        /\ open[m + 1] = a /\ \A i \in 1..m : open[i] = contexts[i]
    BY <1>2, <2>2, <2>3, AcAppended
  <2>. HIDE DEF open
  <2>5. /\ \A i \in 1..m : i \in 1..(m + 1) /\ open[i] = contexts[i]
        /\ \A i \in 1..(m + 1) : i \in 1..m \/ i = m + 1
        /\ m + 1 \in 1..(m + 1) /\ m + 1 \notin 1..m
    BY <2>4
  \* Whom the calls of open are by: those collected, and the new one.
  <2>6. \A n : (\E i \in DOMAIN open : open[i].id = n) <=> AcCollected(n) \/ n = asked'
    BY <2>3, <2>4, <2>5 DEF AcCollected
  <2>7. \A i, j \in DOMAIN open : open[i].id = open[j].id => i = j
    <3>1. \A i, j \in 1..m : open[i].id = open[j].id => i = j
      BY <1>0, <2>4 DEF AcOnce
    <3>2. \A i \in 1..m : open[i].id # asked'
      BY <1>3, <2>4 DEF AcCollected
    <3>. QED  BY <2>3, <2>4, <2>5, <3>1, <3>2
  <2>8. \A i \in DOMAIN open : open[i].id \in 1..asked'
    BY <1>0, <1>1, <2>3, <2>4, <2>5 DEF AcMade
  <2>9. \A n \in 1..asked : n # asked' /\ n \in 1..asked'
    BY <1>1
  <2>10. answered' \subseteq 1..asked' /\ asked' \notin answered'
    BY <1>1, <1>3, <2>1
  <2>11. CASE Ac!IsFull(open)
    <3>1. contexts' = <<>> /\ Ac!Queried(open) /\ timeout' = FALSE
      BY <2>1, <2>11
    <3>2. PICK b \in Ac!Batch : b.asks = open /\ b.login = logins /\ batches' = batches \cup {b}
      BY <1>0, <2>4, <3>1, AcQueriedFits
    <3>3. contexts' \in Seq(Ac!Ask) /\ DOMAIN contexts' = {} /\ Len(contexts') = 0
      <4>1. contexts' = <<>>
        BY <3>1
      <4>. QED  BY <4>1
    <3>4. Ac!TypeOK'
      BY <1>0, <1>1, <2>10, <3>1, <3>2, <3>3 DEF Ac!TypeOK
    <3>5. \A n : /\ ~AcCollected(n)' /\ (AcAskedIn(b, n) <=> AcCollected(n) \/ n = asked')
                 /\ \A d : AcAskedIn(d, n)' <=> AcAskedIn(d, n)
      BY <2>6, <3>2, <3>3 DEF AcCollected, AcAskedIn
    <3>6. AcOnce'
      <4>1. \A i, j \in DOMAIN contexts' : contexts'[i].id = contexts'[j].id => i = j
        BY <3>3
      <4>2. \A n \in 1..asked', d \in batches : AcAskedIn(d, n) => ~AcAskedIn(b, n) /\ n \notin answered
        BY <1>0, <1>1, <1>3, <3>5 DEF AcOnce
      <4>3. \A d, e \in batches', n \in 1..asked' : AcAskedIn(d, n)' /\ AcAskedIn(e, n)' => d = e
        BY <1>0, <1>1, <1>3, <3>2, <3>5, <4>2 DEF AcOnce
      <4>4. \A n \in 1..asked', d \in batches' : AcAskedIn(d, n)' => n \notin answered'
        BY <1>0, <1>1, <1>3, <2>1, <3>2, <3>5, <4>2 DEF AcOnce
      <4>5. \A n \in 1..asked' : n \in answered' \/ \E d \in batches' : AcAskedIn(d, n)'
        BY <1>0, <1>1, <2>1, <3>2, <3>5 DEF AcOnce
      <4>. QED  BY <3>5, <4>1, <4>3, <4>4, <4>5 DEF AcOnce
    <3>7. AcMade'
      <4>1. \A d \in batches : \A i \in DOMAIN d.asks : d.asks[i].id \in 1..asked'
        BY <1>0, <2>9 DEF AcMade
      <4>. QED  BY <2>8, <3>2, <3>3, <4>1 DEF AcMade
    <3>8. AcCollecting'
      BY <1>2, <3>1, <3>3 DEF AcCollecting
    <3>. QED  BY <1>4, <3>4, <3>6, <3>7, <3>8 DEF AcIInv
  <2>12. CASE ~Ac!IsFull(open)
    <3>1. contexts' = open /\ UNCHANGED batches /\ timeout' = TRUE
      BY <2>1, <2>12
    <3>2. Ac!TypeOK'
      BY <1>0, <1>1, <2>4, <2>10, <3>1 DEF Ac!TypeOK
    <3>3. \A n : /\ AcCollected(n)' <=> AcCollected(n) \/ n = asked'
                 /\ \A d : AcAskedIn(d, n)' <=> AcAskedIn(d, n)
      BY <2>6, <3>1 DEF AcCollected, AcAskedIn
    <3>4. AcOnce'
      BY <1>0, <1>1, <1>3, <2>1, <2>7, <2>9, <3>1, <3>3 DEF AcOnce
    <3>5. AcMade'
      BY <1>0, <2>8, <2>9, <3>1 DEF AcMade
    <3>6. AcCollecting'
      <4>1. m + 1 # AcBatchSize
        BY <2>4, <2>12 DEF Ac!IsFull
      <4>2. Len(contexts') < AcBatchSize
        BY <1>2, <2>2, <2>4, <3>1, <4>1
      <4>. QED  BY <2>4, <3>1, <4>2 DEF AcCollecting
    <3>. QED  BY <1>4, <3>2, <3>4, <3>5, <3>6 DEF AcIInv
  <2>. QED  BY <2>11, <2>12
<1>. QED  BY <1>5, <1>6

LEMMA AcEnqueueKeeps == ASSUME AcBounds, AcIInv, Ac!Enqueue PROVE AcIInv'
<1>0. /\ Ac!TypeOK /\ AcOnce /\ AcMade /\ AcCollecting /\ AcPresencesFit
      /\ timeout' = FALSE /\ contexts' = <<>> /\ Ac!Queried(contexts)
      /\ UNCHANGED <<status, logins, presences, asked, answered, late, events>>
  BY DEF AcIInv, Ac!Enqueue
<1>1. contexts \in Seq(Ac!Ask) /\ AcBatchSize \in Nat \ {0}
  BY <1>0 DEF Ac!TypeOK, AcBounds
<1>2. PICK b \in Ac!Batch : b.asks = contexts /\ b.login = logins /\ batches' = batches \cup {b}
  BY <1>0, <1>1, AcQueriedFits
<1>3. contexts' \in Seq(Ac!Ask) /\ DOMAIN contexts' = {} /\ Len(contexts') = 0
  <2>1. contexts' = <<>>
    BY <1>0
  <2>. QED  BY <2>1
<1>4. Ac!TypeOK'
  BY <1>0, <1>2, <1>3 DEF Ac!TypeOK
<1>5. \A n : /\ ~AcCollected(n)' /\ (AcAskedIn(b, n) <=> AcCollected(n))
             /\ \A d : AcAskedIn(d, n)' <=> AcAskedIn(d, n)
  BY <1>2, <1>3 DEF AcCollected, AcAskedIn
<1>6. AcOnce'
  BY <1>0, <1>2, <1>3, <1>5 DEF AcOnce
<1>7. AcMade'
  BY <1>0, <1>2, <1>3 DEF AcMade
<1>8. AcCollecting' /\ AcPresencesFit'
  BY <1>0, <1>1, <1>3 DEF AcCollecting, AcPresencesFit
<1>. QED  BY <1>4, <1>6, <1>7, <1>8 DEF AcIInv

LEMMA AcAnswerKeeps == ASSUME AcBounds, AcIInv, NEW b \in batches, Ac!Answer(b) PROVE AcIInv'
<1>0. /\ Ac!TypeOK /\ AcOnce /\ AcMade /\ AcCollecting /\ AcPresencesFit
      /\ batches' = batches \ {b}
      /\ answered' = answered \cup {a.id : a \in Ac!Asks(b)}
      /\ UNCHANGED <<status, logins, contexts, timeout, asked>>
  BY DEF AcIInv, Ac!Answer
<1>1. PICK found \in SUBSET {a.of : a \in Ac!Asks(b)} :
        /\ events' = events \/ Ac!Counted
        /\ presences' = Ac!Fetched(b, found)
        /\ late' = IF b.login = logins /\ status = "ready" THEN late \ found ELSE late \cup found
  BY DEF Ac!Answer
<1>2. /\ b \in Ac!Batch /\ b.login \in Nat /\ found \subseteq AcPerson
      /\ \A n : n \in {a.id : a \in Ac!Asks(b)} <=> AcAskedIn(b, n)
  <2>1. b \in Ac!Batch /\ b.login \in Nat /\ b.asks \in Seq(Ac!Ask)
    BY <1>0 DEF Ac!TypeOK, Ac!Batch
  <2>2. \A a \in Ac!Asks(b) : a.of \in AcPerson
    <3>1. \A i \in DOMAIN b.asks : b.asks[i] \in Ac!Ask
      BY <2>1
    <3>. QED  BY <3>1 DEF Ac!Asks, Ac!Ask
  <2>3. \A n : n \in {a.id : a \in Ac!Asks(b)} <=> AcAskedIn(b, n)
    BY DEF Ac!Asks, AcAskedIn
  <2>. QED  BY <2>1, <2>2, <2>3
<1>3. \A n : (n \in answered' <=> n \in answered \/ AcAskedIn(b, n)) /\ (AcAskedIn(b, n) => n \in 1..asked)
  BY <1>0, <1>2 DEF AcMade, AcAskedIn
<1>4. Ac!TypeOK'
  <2>1. events' \in 0..AcMaxEvents
    BY <1>0, <1>1, AcCountedType DEF Ac!TypeOK
  <2>2. presences' \in [AcPerson -> Int]
    BY <1>0, <1>1, <1>2 DEF Ac!TypeOK, Ac!Fetched
  <2>3. late' \subseteq AcPerson
    BY <1>0, <1>1, <1>2 DEF Ac!TypeOK
  <2>4. answered' \subseteq 1..asked
    BY <1>0, <1>3 DEF Ac!TypeOK
  <2>. QED  BY <1>0, <2>1, <2>2, <2>3, <2>4 DEF Ac!TypeOK
<1>5. \A n : (AcCollected(n)' <=> AcCollected(n)) /\ \A d : AcAskedIn(d, n)' <=> AcAskedIn(d, n)
  BY <1>0 DEF AcCollected, AcAskedIn
<1>6. AcOnce'
  BY <1>0, <1>3, <1>5 DEF AcOnce
<1>7. AcMade' /\ AcCollecting'
  BY <1>0 DEF AcMade, AcCollecting
<1>8. AcPresencesFit'
  <2>. SUFFICES ASSUME NEW p \in AcPerson \ late', presences'[p] # 0
                PROVE  status' = "ready" /\ presences'[p] \in {logins', -logins'}
    BY DEF AcPresencesFit
  <2>1. presences'[p] = IF p \in found THEN b.login ELSE IF presences[p] < 0 THEN 0 ELSE presences[p]
    BY <1>1 DEF Ac!Fetched
  <2>2. CASE p \in found
    <3>1. b.login = logins /\ status = "ready"
      BY <1>1, <2>2
    <3>. QED  BY <1>0, <2>1, <2>2, <3>1
  <2>3. CASE p \notin found
    <3>1. p \notin late /\ presences'[p] = presences[p]
      BY <1>1, <2>1, <2>3
    <3>. QED  BY <1>0, <3>1 DEF AcPresencesFit
  <2>. QED  BY <2>2, <2>3
<1>. QED  BY <1>4, <1>6, <1>7, <1>8 DEF AcIInv

\* Nothing is asked or answered.
LEMMA AcOthersKeep ==
  ASSUME AcBounds, AcIInv, (\E p \in AcPerson : Ac!Expire(p)) \/ Ac!Initialize \/ Ac!Reset
  PROVE  AcIInv'
<1>0. /\ Ac!TypeOK /\ AcOnce /\ AcMade /\ AcCollecting /\ AcPresencesFit /\ Ac!Counted
      /\ UNCHANGED <<contexts, timeout, batches, asked, answered>>
  BY DEF AcIInv, Ac!Expire, Ac!Initialize, Ac!Reset
<1>1. events' \in 0..AcMaxEvents
  BY <1>0, AcCountedType
<1>2. AcOnce' /\ AcMade' /\ AcCollecting'
  BY <1>0 DEF AcOnce, AcMade, AcCollecting, AcCollected, AcAskedIn
<1>3. ASSUME NEW p \in AcPerson, Ac!Expire(p) PROVE AcIInv'
  <2>1. presences' = [presences EXCEPT ![p] = -presences[p]] /\ UNCHANGED <<status, logins, late>>
    BY <1>3 DEF Ac!Expire
  <2>2. presences \in [AcPerson -> Int] /\ logins \in Nat
    BY <1>0 DEF Ac!TypeOK
  <2>3. presences' \in [AcPerson -> Int]
    BY <2>1, <2>2
  <2>4. Ac!TypeOK'
    BY <1>0, <1>1, <2>1, <2>3 DEF Ac!TypeOK
  <2>5. AcPresencesFit'
    <3>. SUFFICES ASSUME NEW q \in AcPerson \ late, presences'[q] # 0
                  PROVE  status = "ready" /\ presences'[q] \in {logins, -logins}
      BY <2>1 DEF AcPresencesFit
    <3>1. presences'[q] = (IF q = p THEN -presences[q] ELSE presences[q]) /\ presences[q] \in Int
      BY <2>1, <2>2
    <3>2. status = "ready" /\ presences[q] \in {logins, -logins}
      BY <1>0, <3>1 DEF AcPresencesFit
    <3>. QED  BY <2>2, <3>1, <3>2
  <2>. QED  BY <1>2, <2>4, <2>5 DEF AcIInv
<1>4. CASE Ac!Initialize
  <2>1. status = "pending" /\ status' = "ready" /\ logins' = logins + 1 /\ UNCHANGED <<presences, late>>
    BY <1>4 DEF Ac!Initialize
  <2>2. logins' \in Nat
    BY <1>0, <2>1 DEF Ac!TypeOK
  <2>3. Ac!TypeOK'
    BY <1>0, <1>1, <2>1, <2>2 DEF Ac!TypeOK
  <2>4. AcPresencesFit'
    BY <1>0, <2>1 DEF AcPresencesFit
  <2>. QED  BY <1>2, <2>3, <2>4 DEF AcIInv
<1>5. CASE Ac!Reset
  <2>1. status' = "pending" /\ presences' = [p \in AcPerson |-> 0] /\ late' = {} /\ UNCHANGED logins
    BY <1>5 DEF Ac!Reset
  <2>2. presences' \in [AcPerson -> Int]
    BY <2>1
  <2>3. Ac!TypeOK'
    BY <1>0, <1>1, <2>1, <2>2 DEF Ac!TypeOK
  <2>4. AcPresencesFit'
    BY <2>1 DEF AcPresencesFit
  <2>. QED  BY <1>2, <2>3, <2>4 DEF AcIInv
<1>. QED  BY <1>3, <1>4, <1>5

LEMMA AcNextIInv == ASSUME AcBounds PROVE AcIInv /\ [Ac!Next]_(Ac!vars) => AcIInv'
<1>. SUFFICES ASSUME AcIInv, [Ac!Next]_(Ac!vars) PROVE AcIInv'
  OBVIOUS
<1>1. CASE UNCHANGED Ac!vars
  <2>1. Ac!TypeOK' /\ AcPresencesFit' /\ AcCollecting'
    BY <1>1 DEF Ac!vars, AcIInv, Ac!TypeOK, AcPresencesFit, AcCollecting
  <2>2. AcOnce' /\ AcMade'
    BY <1>1 DEF Ac!vars, AcIInv, AcOnce, AcMade, AcCollected, AcAskedIn
  <2>. QED  BY <2>1, <2>2 DEF AcIInv
<1>2. CASE Ac!Next
  BY <1>2, AcGetPresenceKeeps, AcEnqueueKeeps, AcAnswerKeeps, AcOthersKeep DEF Ac!Next
<1>. QED  BY <1>1, <1>2

\* Sets whose elements are equal have one, or none.
LEMMA AcOneOrNone ==
  ASSUME NEW S, \A x, y \in S : x = y
  PROVE  Cardinality(S) = IF S = {} THEN 0 ELSE 1
<1>1. CASE S = {}
  BY <1>1, FS_EmptySet
<1>2. CASE S # {}
  <2>1. PICK x : S = {x}
    BY <1>2
  <2>. QED  BY <1>2, <2>1, FS_Singleton
<1>. QED  BY <1>1, <1>2

\* For any contacts and calls: each call is answered, collected or in a batch, and once.
LEMMA AcPresencesAreAnswered == ASSUME AcBounds PROVE AcIInv => Ac!PresencesAnswered
<1>. SUFFICES ASSUME AcIInv PROVE Ac!PresencesAnswered
  OBVIOUS
<1>0. AcOnce /\ AcCollecting /\ AcPresencesFit
  BY DEF AcIInv
<1>1. ASSUME NEW n \in 1..asked
      PROVE  Cardinality({i \in DOMAIN contexts : contexts[i].id = n})
               + Cardinality({b \in batches : \E a \in Ac!Asks(b) : a.id = n})
               + (IF n \in answered THEN 1 ELSE 0) = 1
  <2>. DEFINE I == {i \in DOMAIN contexts : contexts[i].id = n}
              B == {b \in batches : \E a \in Ac!Asks(b) : a.id = n}
  <2>1. I # {} <=> AcCollected(n)
    BY DEF AcCollected
  <2>2. B = {b \in batches : AcAskedIn(b, n)}
    BY DEF Ac!Asks, AcAskedIn
  <2>3. \A i, j \in I : i = j
    BY <1>0 DEF AcOnce
  <2>4. \A b, d \in B : b = d
    BY <1>0, <2>2 DEF AcOnce
  <2>5. B # {} <=> \E b \in batches : AcAskedIn(b, n)
    BY <2>2
  <2>. HIDE DEF I, B
  <2>6. Cardinality(I) = (IF I = {} THEN 0 ELSE 1) /\ Cardinality(B) = (IF B = {} THEN 0 ELSE 1)
    BY <2>3, <2>4, AcOneOrNone
  <2>7. \/ I # {} /\ B = {} /\ n \notin answered
        \/ I = {} /\ B # {} /\ n \notin answered
        \/ I = {} /\ B = {} /\ n \in answered
    BY <1>0, <2>1, <2>5 DEF AcOnce
  <2>8. Cardinality(I) + Cardinality(B) + (IF n \in answered THEN 1 ELSE 0) = 1
    BY <2>6, <2>7
  <2>. QED  BY <2>8 DEF I, B
<1>. QED  BY <1>0, <1>1, AcCardinality DEF Ac!PresencesAnswered, AcCollecting, AcPresencesFit

-----------------------------------------------------------------------------
(* The component that runs keeps its invariant, whichever it is. *)

WorkspaceIInv ==
  /\ which = "ConversationLogger" => CvIInv
  /\ which = "MessageViews" => MvIInv
  /\ which = "TextSending" => TsIInv
  /\ which = "GlipPosts" => GpIInv
  /\ which = "GlipGroups" => GgIInv
  /\ which = "GlipPersons" => GeIInv
  /\ which = "AddressBook" => AbIInv
  /\ which = "ContactSearch" => CsIInv
  /\ which = "AccountContacts" => AcIInv

LEMMA WorkspaceInitIInv == WorkspaceInit => WorkspaceIInv
<1>. SUFFICES ASSUME WorkspaceInit PROVE WorkspaceIInv
  OBVIOUS
<1>1. ASSUME which = "ConversationLogger" PROVE CvIInv
  <2>1. Cv!Init
    BY <1>1 DEF WorkspaceInit
  <2>2. CvBounds
    BY WorkspaceConstants DEF CvBounds
  <2>. QED  BY <2>1, <2>2, CvInitIInv
<1>2. ASSUME which = "MessageViews" PROVE MvIInv
  <2>1. Mv!Init
    BY <1>2 DEF WorkspaceInit
  <2>2. MvBounds
    BY WorkspaceConstants DEF MvBounds
  <2>. QED  BY <2>1, <2>2, MvInitIInv
<1>3. ASSUME which = "TextSending" PROVE TsIInv
  <2>1. Ts!Init
    BY <1>3 DEF WorkspaceInit
  <2>2. TsBounds
    BY WorkspaceConstants DEF TsBounds
  <2>. QED  BY <2>1, <2>2, TsInitIInv
<1>4. ASSUME which = "GlipPosts" PROVE GpIInv
  <2>1. Gp!Init
    BY <1>4 DEF WorkspaceInit
  <2>2. GpBounds
    BY WorkspaceConstants DEF GpBounds
  <2>. QED  BY <2>1, <2>2, GpInitIInv
<1>5. ASSUME which = "GlipGroups" PROVE GgIInv
  <2>1. Gg!Init
    BY <1>5 DEF WorkspaceInit
  <2>2. GgBounds
    BY WorkspaceConstants DEF GgBounds
  <2>. QED  BY <2>1, <2>2, GgInitIInv
<1>6. ASSUME which = "GlipPersons" PROVE GeIInv
  <2>1. Ge!Init
    BY <1>6 DEF WorkspaceInit
  <2>2. GeBounds
    BY WorkspaceConstants DEF GeBounds
  <2>. QED  BY <2>1, <2>2, GeInitIInv
<1>7. ASSUME which = "AddressBook" PROVE AbIInv
  <2>1. Ab!Init
    BY <1>7 DEF WorkspaceInit
  <2>2. AbBounds
    BY WorkspaceConstants DEF AbBounds
  <2>. QED  BY <2>1, <2>2, AbInitIInv
<1>8. ASSUME which = "ContactSearch" PROVE CsIInv
  <2>1. Cs!Init
    BY <1>8 DEF WorkspaceInit
  <2>2. CsBounds
    <3>1. CsNoEmptyText
      BY SearchedText DEF CsNoEmptyText
    <3>. QED  BY WorkspaceConstants, <3>1 DEF CsBounds
  <2>. QED  BY <2>1, <2>2, CsInitIInv
<1>9. ASSUME which = "AccountContacts" PROVE AcIInv
  <2>1. Ac!Init
    BY <1>9 DEF WorkspaceInit
  <2>2. AcBounds
    BY WorkspaceConstants DEF AcBounds
  <2>. QED  BY <2>1, <2>2, AcInitIInv
<1>. QED  BY <1>1, <1>2, <1>3, <1>4, <1>5, <1>6, <1>7, <1>8, <1>9 DEF WorkspaceIInv

LEMMA WorkspaceNextIInv == WorkspaceIInv /\ [WorkspaceNext]_WorkspaceVars => WorkspaceIInv'
<1>. SUFFICES ASSUME WorkspaceIInv, [WorkspaceNext]_WorkspaceVars PROVE WorkspaceIInv'
  OBVIOUS
<1>0. UNCHANGED which
  BY DEF WorkspaceNext, WorkspaceVars
<1>1. ASSUME which = "ConversationLogger" PROVE CvIInv'
  <2>1. WorkspaceNext => Cv!Next
    BY <1>1 DEF WorkspaceNext
  <2>2. UNCHANGED WorkspaceVars => UNCHANGED Cv!vars
    BY DEF WorkspaceVars, cvVars, mvVars, tsVars, gpVars, ggVars, geVars, abVars, csVars, acVars,
       Cv!vars, Cv!logger, Cv!conversations
  <2>3. CvIInv
    BY <1>1 DEF WorkspaceIInv
  <2>4. CvBounds
    BY WorkspaceConstants DEF CvBounds
  <2>. QED  BY <2>1, <2>2, <2>3, <2>4, CvNextIInv
<1>2. ASSUME which = "MessageViews" PROVE MvIInv'
  <2>1. WorkspaceNext => Mv!Next
    BY <1>2 DEF WorkspaceNext
  <2>2. UNCHANGED WorkspaceVars => UNCHANGED Mv!vars
    BY DEF WorkspaceVars, cvVars, mvVars, tsVars, gpVars, ggVars, geVars, abVars, csVars, acVars,
       Mv!vars, Mv!store, Mv!conversation, Mv!recents
  <2>3. MvIInv
    BY <1>2 DEF WorkspaceIInv
  <2>4. MvBounds
    BY WorkspaceConstants DEF MvBounds
  <2>. QED  BY <2>1, <2>2, <2>3, <2>4, MvNextIInv
<1>3. ASSUME which = "TextSending" PROVE TsIInv'
  <2>1. WorkspaceNext => Ts!Next
    BY <1>3 DEF WorkspaceNext
  <2>2. UNCHANGED WorkspaceVars => UNCHANGED Ts!vars
    BY DEF WorkspaceVars, cvVars, mvVars, tsVars, gpVars, ggVars, geVars, abVars, csVars, acVars,
       Ts!vars, Ts!form
  <2>3. TsIInv
    BY <1>3 DEF WorkspaceIInv
  <2>4. TsBounds
    BY WorkspaceConstants DEF TsBounds
  <2>. QED  BY <2>1, <2>2, <2>3, <2>4, TsNextIInv
<1>4. ASSUME which = "GlipPosts" PROVE GpIInv'
  <2>1. WorkspaceNext => Gp!Next
    BY <1>4 DEF WorkspaceNext
  <2>2. UNCHANGED WorkspaceVars => UNCHANGED Gp!vars
    BY DEF WorkspaceVars, cvVars, mvVars, tsVars, gpVars, ggVars, geVars, abVars, csVars, acVars,
       Gp!vars
  <2>3. GpIInv
    BY <1>4 DEF WorkspaceIInv
  <2>4. GpBounds
    BY WorkspaceConstants DEF GpBounds
  <2>. QED  BY <2>1, <2>2, <2>3, <2>4, GpNextIInv
<1>5. ASSUME which = "GlipGroups" PROVE GgIInv'
  <2>1. WorkspaceNext => Gg!Next
    BY <1>5 DEF WorkspaceNext
  <2>2. UNCHANGED WorkspaceVars => UNCHANGED Gg!vars
    BY DEF WorkspaceVars, cvVars, mvVars, tsVars, gpVars, ggVars, geVars, abVars, csVars, acVars,
       Gg!vars, Gg!world, Gg!store
  <2>3. GgIInv
    BY <1>5 DEF WorkspaceIInv
  <2>4. GgBounds
    BY WorkspaceConstants DEF GgBounds
  <2>. QED  BY <2>1, <2>2, <2>3, <2>4, GgNextIInv
<1>6. ASSUME which = "GlipPersons" PROVE GeIInv'
  <2>1. WorkspaceNext => Ge!Next
    BY <1>6 DEF WorkspaceNext
  <2>2. UNCHANGED WorkspaceVars => UNCHANGED Ge!vars
    BY DEF WorkspaceVars, cvVars, mvVars, tsVars, gpVars, ggVars, geVars, abVars, csVars, acVars,
       Ge!vars
  <2>3. GeIInv
    BY <1>6 DEF WorkspaceIInv
  <2>4. GeBounds
    BY WorkspaceConstants DEF GeBounds
  <2>. QED  BY <2>1, <2>2, <2>3, <2>4, GeNextIInv
<1>7. ASSUME which = "AddressBook" PROVE AbIInv'
  <2>1. WorkspaceNext => Ab!Next
    BY <1>7 DEF WorkspaceNext
  <2>2. UNCHANGED WorkspaceVars => UNCHANGED Ab!vars
    BY DEF WorkspaceVars, cvVars, mvVars, tsVars, gpVars, ggVars, geVars, abVars, csVars, acVars,
       Ab!vars, Ab!world
  <2>3. AbIInv
    BY <1>7 DEF WorkspaceIInv
  <2>4. AbBounds
    BY WorkspaceConstants DEF AbBounds
  <2>. QED  BY <2>1, <2>2, <2>3, <2>4, AbNextIInv
<1>8. ASSUME which = "ContactSearch" PROVE CsIInv'
  <2>1. WorkspaceNext => Cs!Next
    BY <1>8 DEF WorkspaceNext
  <2>2. UNCHANGED WorkspaceVars => UNCHANGED Cs!vars
    BY DEF WorkspaceVars, cvVars, mvVars, tsVars, gpVars, ggVars, geVars, abVars, csVars, acVars,
       Cs!vars
  <2>3. CsIInv
    BY <1>8 DEF WorkspaceIInv
  <2>4. CsBounds
    <3>1. CsNoEmptyText
      BY SearchedText DEF CsNoEmptyText
    <3>. QED  BY WorkspaceConstants, <3>1 DEF CsBounds
  <2>. QED  BY <2>1, <2>2, <2>3, <2>4, CsNextIInv
<1>9. ASSUME which = "AccountContacts" PROVE AcIInv'
  <2>1. WorkspaceNext => Ac!Next
    BY <1>9 DEF WorkspaceNext
  <2>2. UNCHANGED WorkspaceVars => UNCHANGED Ac!vars
    BY DEF WorkspaceVars, cvVars, mvVars, tsVars, gpVars, ggVars, geVars, abVars, csVars, acVars,
       Ac!vars
  <2>3. AcIInv
    BY <1>9 DEF WorkspaceIInv
  <2>4. AcBounds
    BY WorkspaceConstants DEF AcBounds
  <2>. QED  BY <2>1, <2>2, <2>3, <2>4, AcNextIInv
<1>. QED  BY <1>0, <1>1, <1>2, <1>3, <1>4, <1>5, <1>6, <1>7, <1>8, <1>9 DEF WorkspaceIInv

LEMMA WorkspaceInvariant == WorkspaceSpec => []WorkspaceIInv
  BY WorkspaceInitIInv, WorkspaceNextIInv, PTL DEF WorkspaceSpec

\* Whichever component runs, and for any users, conversations, numbers, posts, contacts and
\* bounds, its state keeps its types.
THEOREM WorkspaceTypeCorrect == WorkspaceSpec => []WorkspaceTypeOK
<1>1. WorkspaceIInv => WorkspaceTypeOK
  BY DEF WorkspaceIInv, WorkspaceTypeOK, CvIInv, MvIInv, TsIInv, GpIInv, GgIInv, GeIInv, AbIInv,
     CsIInv, AcIInv
<1>. QED  BY <1>1, WorkspaceInvariant, PTL

\* For any conversations, batches and bounds: what the application's system has of a conversation,
\* or is going to have, is its newest version.
THEOREM ThingsAreLogged == WorkspaceSpec => []ThingsLogged
<1>1. WorkspaceIInv /\ which = "ConversationLogger" => Cv!LatestLogged
  BY WorkspaceConstants, CvLatestIsLogged DEF WorkspaceIInv, CvBounds
<1>2. WorkspaceIInv => ThingsLogged
  BY <1>1 DEF ThingsLogged
<1>. QED  BY <1>2, WorkspaceInvariant, PTL

\* For any conversations, numbers and bounds: however updates, loads and answers cross, the
\* conversation and the messages shown are those of the store, unless the code overlooked a
\* change, and however sends overlap and fail, each tells which recipients have the text.
THEOREM MessagesAreServed == WorkspaceSpec => []MessagesServed
<1>1. WorkspaceIInv /\ which = "MessageViews" => Mv!ViewsShowStore
  BY WorkspaceConstants, MvStoreIsShown DEF WorkspaceIInv, MvBounds
<1>2. WorkspaceIInv /\ which = "TextSending" => Ts!SendTells
  BY WorkspaceConstants, TsWhatWasDone DEF WorkspaceIInv, TsBounds
<1>3. WorkspaceIInv => MessagesServed
  BY <1>1, <1>2 DEF MessagesServed
<1>. QED  BY <1>3, WorkspaceInvariant, PTL

\* For any posts, groups, persons, users and bounds, and however loads, notifications, answers,
\* failures and logins cross: each post is shown once and as what it is, the groups shown are
\* the user's, and who was asked for is known or being asked for.
THEOREM GlipIsShown == WorkspaceSpec => []GlipShown
<1>1. WorkspaceIInv /\ which = "GlipPosts" => Gp!PostsShown
  BY WorkspaceConstants, GpPostsAreShown DEF WorkspaceIInv, GpBounds
<1>2. WorkspaceIInv /\ which = "GlipGroups" => Gg!GroupsServed
  BY WorkspaceConstants, GgGroupsAreServed DEF WorkspaceIInv, GgBounds
<1>3. WorkspaceIInv /\ which = "GlipPersons" => Ge!PersonsKnown
  BY WorkspaceConstants, GePersonsAreKnown DEF WorkspaceIInv, GeBounds
<1>4. WorkspaceIInv => GlipShown
  BY <1>1, <1>2, <1>3 DEF GlipShown
<1>. QED  BY <1>4, WorkspaceInvariant, PTL

\* For any contacts, sources, batches and bounds, and however syncs, searches, answers and logins
\* cross: the address book misses no change up to its token, what was typed last is what is
\* searched for, and who asks for presences is answered.
THEOREM ContactsAreServed == WorkspaceSpec => []ContactsServed
<1>1. WorkspaceIInv /\ which = "AddressBook" => Ab!BookComplete
  BY WorkspaceConstants, AbBookIsComplete DEF WorkspaceIInv, AbBounds
<1>2. WorkspaceIInv /\ which = "ContactSearch" => Cs!SearchShown
  <2>1. CsBounds
    <3>1. CsNoEmptyText
      BY SearchedText DEF CsNoEmptyText
    <3>. QED  BY WorkspaceConstants, <3>1 DEF CsBounds
  <2>. QED  BY <2>1, CsSearchesAreShown DEF WorkspaceIInv
<1>3. WorkspaceIInv /\ which = "AccountContacts" => Ac!PresencesAnswered
  BY WorkspaceConstants, AcPresencesAreAnswered DEF WorkspaceIInv, AcBounds
<1>4. WorkspaceIInv => ContactsServed
  BY <1>1, <1>2, <1>3 DEF ContactsServed
<1>. QED  BY <1>4, WorkspaceInvariant, PTL
=============================================================================
