--------------------------- MODULE LibraryProofs ----------------------------
(***************************************************************************)
(* Theorems about the modules of the Runtime that serve the others, side   *)
(* by side as MCLibrary has them: a step of the whole is a step of one, so *)
(* that what is shown of each holds of it alone, too.  For any number of   *)
(* escalations, any budgets, capacities, letters and lengths, and for the  *)
(* release any latencies and number of turns asked for; of the corpus only *)
(* what CorpusIs says is used.                                             *)
(***************************************************************************)
EXTENDS MCLibrary, NaturalsInduction, WellFoundedInduction, TLAPS

LEMMA StepOfOne ==
  ASSUME [Next]_vars
  PROVE  /\ T!Next \/ UNCHANGED TVars
         /\ H!Next \/ UNCHANGED HVars
         /\ L!Next \/ UNCHANGED LVars
         /\ R!Next \/ UNCHANGED RVars
BY DEF Next, vars

-----------------------------------------------------------------------------
(* The circuit breaker.  With the types CircuitKnowsItsCalls is inductive  *)
(* as it stands.                                                           *)
CircuitTypes ==
  /\ circuit \in {"CLOSED", "OPEN", "HALF_OPEN"}
  /\ failures \in Nat
  /\ opened \in {"never", "recent", "past"}
  /\ budget \in Nat
  /\ attempt \in [Escalation -> Nat]

CircuitInv == CircuitTypes /\ H!CircuitKnowsItsCalls

(* The step of one escalation, whichever it is.                            *)
LEMMA EscalationSteps ==
  ASSUME CircuitInv, NEW e \in Escalation,
         H!Escalate(e) \/ H!Degrade(e) \/ H!Succeed(e) \/ H!Retry(e) \/ H!Fail(e)
  PROVE  CircuitInv'
<1> USE BoundsAssumption DEF CircuitInv, CircuitTypes, H!CircuitKnowsItsCalls, H!Trying, H!Over
<1>1. CASE H!Escalate(e)
  <2>1. CircuitTypes'
    BY <1>1 DEF H!Escalate, H!AllowCall
  <2>2. H!Trying(e)'
    BY <1>1 DEF H!Escalate
  <2> QED
    BY <1>1, <2>1, <2>2 DEF H!Escalate, H!AllowCall
<1>2. CASE H!Degrade(e)
  <2>1. CircuitTypes'
    BY <1>2 DEF H!Degrade
  <2>2. \A d \in Escalation : H!Trying(d) => H!Trying(d)'
    BY <1>2 DEF H!Degrade
  <2> QED
    BY <1>2, <2>1, <2>2 DEF H!Degrade
<1>3. CASE H!Succeed(e)
  BY <1>3 DEF H!Succeed
<1>4. CASE H!Retry(e)
  <2>1. CircuitTypes'
    BY <1>4 DEF H!Retry
  <2>2. \A d \in Escalation : H!Trying(d) => H!Trying(d)'
    BY <1>4 DEF H!Retry
  <2> QED
    BY <1>4, <2>1, <2>2 DEF H!Retry
<1>5. CASE H!Fail(e)
  BY <1>5 DEF H!Fail
<1> QED
  BY <1>1, <1>2, <1>3, <1>4, <1>5

LEMMA CircuitStep == CircuitInv /\ (H!Next \/ UNCHANGED HVars) => CircuitInv'
<1> SUFFICES ASSUME CircuitInv, H!Next \/ UNCHANGED HVars PROVE CircuitInv'
  OBVIOUS
<1>1. CASE H!CooldownPasses
  BY <1>1 DEF H!CooldownPasses, CircuitInv, CircuitTypes, H!CircuitKnowsItsCalls, H!Trying
<1>2. CASE UNCHANGED HVars
  BY <1>2 DEF HVars, CircuitInv, CircuitTypes, H!CircuitKnowsItsCalls, H!Trying
<1> QED
  BY <1>1, <1>2, EscalationSteps DEF H!Next

(* However the escalations overlap, the circuit knows of its failures, of  *)
(* the time it opened at, and of its probe (HermesEscalationAdapter).      *)
THEOREM CircuitIsKnown == Spec => []CircuitKnowsItsCalls
<1>1. Init => CircuitInv
  BY BoundsAssumption DEF Init, H!Init, CircuitInv, CircuitTypes, H!CircuitKnowsItsCalls
<1>2. CircuitInv /\ [Next]_vars => CircuitInv'
  BY StepOfOne, CircuitStep
<1>3. CircuitInv => CircuitKnowsItsCalls
  BY DEF CircuitInv, CircuitKnowsItsCalls
<1> QED
  BY <1>1, <1>2, <1>3, PTL DEF Spec

-----------------------------------------------------------------------------
(* The log.                                                                *)
LogRecord == [category: L!Category, number: Nat]

LogTypes ==
  /\ records \in Seq(LogRecord)
  /\ accepted \in Nat
  /\ L!Given \subseteq 1 .. accepted

LogInv == LogTypes /\ L!NoProtectedRecordIsLost

LEMMA RecordTyped ==
  ASSUME accepted \in Nat, NEW c \in L!Category
  PROVE  /\ L!Record(c) \in LogRecord
         /\ L!Protected(L!Record(c)) <=> L!Protected([category |-> c])
         /\ L!Protected(L!Record(c)) => L!Record(c).number = accepted + 1
BY DEF L!Record, LogRecord, L!Protected, L!Category

(* A record that a list of records gets behind its last one.               *)
LEMMA AppendTyped ==
  ASSUME NEW S, NEW q \in Seq(S), NEW e \in S
  PROVE  /\ Append(q, e) \in Seq(S) /\ Len(Append(q, e)) = Len(q) + 1 /\ Len(q) \in Nat
         /\ DOMAIN Append(q, e) = 1 .. Len(q) + 1 /\ DOMAIN q = 1 .. Len(q)
         /\ \A i \in 1 .. Len(q) : Append(q, e)[i] = q[i]
         /\ Append(q, e)[Len(q) + 1] = e
OBVIOUS

LEMMA RemoveEffect ==
  ASSUME NEW S, NEW q \in Seq(S), NEW k \in 1 .. Len(q)
  PROVE  /\ L!RemoveAt(q, k) \in Seq(S) /\ Len(L!RemoveAt(q, k)) = Len(q) - 1
         /\ \A i \in 1 .. k - 1 : L!RemoveAt(q, k)[i] = q[i]
         /\ \A i \in k .. Len(q) - 1 : L!RemoveAt(q, k)[i] = q[i + 1]
<1>1. SubSeq(q, 1, k - 1) \in Seq(S) /\ Len(SubSeq(q, 1, k - 1)) = k - 1
  OBVIOUS
<1>2. SubSeq(q, k + 1, Len(q)) \in Seq(S) /\ Len(SubSeq(q, k + 1, Len(q))) = Len(q) - k
  OBVIOUS
<1>3. \A i \in 1 .. k - 1 : SubSeq(q, 1, k - 1)[i] = q[i]
  OBVIOUS
<1>4. \A i \in 1 .. Len(q) - k : SubSeq(q, k + 1, Len(q))[i] = q[i + k]
  OBVIOUS
<1> DEFINE a == SubSeq(q, 1, k - 1)
           b == SubSeq(q, k + 1, Len(q))
<1> HIDE DEF a, b
<1>5. a \in Seq(S) /\ Len(a) = k - 1 /\ b \in Seq(S) /\ Len(b) = Len(q) - k
  BY <1>1, <1>2 DEF a, b
<1>6. /\ a \o b \in Seq(S) /\ Len(a \o b) = Len(q) - 1
      /\ \A i \in 1 .. k - 1 : (a \o b)[i] = a[i]
      /\ \A i \in k .. Len(q) - 1 : (a \o b)[i] = b[i - (k - 1)]
  BY <1>5
<1>7. \A i \in k .. Len(q) - 1 : i - (k - 1) \in 1 .. Len(q) - k /\ i - (k - 1) + k = i + 1
  OBVIOUS
<1>8. \A i \in k .. Len(q) - 1 : b[i - (k - 1)] = q[i + 1]
  BY <1>4, <1>7 DEF b
<1>9. L!RemoveAt(q, k) = a \o b
  BY DEF L!RemoveAt, a, b
<1>10. \A i \in 1 .. k - 1 : a[i] = q[i]
  BY <1>3 DEF a
<1> QED
  BY <1>6, <1>8, <1>9, <1>10

(* A set of numbers that is not empty has a least one ...                  *)
LEMMA LeastNatural ==
  ASSUME NEW I \in SUBSET Nat, I # {}
  PROVE  \E x \in I : \A y \in I : x <= y
<1> DEFINE Less == {ss \in Nat \X Nat : ss[1] < ss[2]}
<1>1. IsWellFoundedOn(Less, Nat)
  BY NatLessThanWellFounded DEF OpToRel
<1>2. \A x, y \in Nat : <<y, x>> \in Less <=> y < x
  OBVIOUS
<1> HIDE DEF Less
<1>3. PICK x \in I : \A y \in I : ~ (<<y, x>> \in Less)
  BY <1>1, WFMin
<1>4. ASSUME NEW y \in I PROVE x <= y
  <2>1. x \in Nat /\ y \in Nat
    OBVIOUS
  <2>2. ~ (y < x)
    BY <1>2, <1>3, <2>1
  <2> QED
    BY <2>1, <2>2
<1> QED
  BY <1>4

(* ... and if it is bounded, a largest one.                                *)
LEMMA LargestNatural ==
  ASSUME NEW n \in Nat, NEW I \in SUBSET (0 .. n), I # {}
  PROVE  \E x \in I : \A y \in I : y <= x
<1> DEFINE J == {n - i : i \in I}
<1>0. \A i \in I : i \in Nat /\ i <= n
  OBVIOUS
<1>1. J \in SUBSET Nat /\ J # {}
  <2>1. \A i \in I : n - i \in Nat
    BY <1>0
  <2> QED
    BY <2>1
<1>2. PICK k \in J : \A j \in J : k <= j
  BY <1>1, LeastNatural
<1>3. PICK x \in I : k = n - x
  OBVIOUS
<1>4. ASSUME NEW y \in I PROVE y <= x
  <2>1. n - x <= n - y
    BY <1>2, <1>3
  <2> QED
    BY ONLY <1>0, <2>1, x \in I, y \in I
<1> QED
  BY <1>4

(* What a full log evicts is not protected.                                *)
LEMMA EvictIndexEffect ==
  ASSUME records \in Seq(LogRecord)
  PROVE  \/ L!EvictIndex = 0
         \/ L!EvictIndex \in 1 .. Len(records) /\ ~L!Protected(records[L!EvictIndex])
<1> DEFINE I == {i \in 1 .. Len(records) : ~L!Protected(records[i])}
<1>1. L!EvictIndex = IF I # {} THEN L!Min(I) ELSE 0
  BY DEF L!EvictIndex, L!SelectInSeq
<1>2. ASSUME I # {} PROVE L!Min(I) \in I
  <2>1. I \in SUBSET Nat
    OBVIOUS
  <2>2. \E x \in I : \A y \in I : x <= y
    BY <1>2, <2>1, LeastNatural
  <2> HIDE DEF I
  <2> QED
    BY <2>2 DEF L!Min
<1> QED
  BY <1>1, <1>2

(* What NoProtectedRecordIsLost says of the list of records, the set of    *)
(* numbers that were given away, and the count of those that were accepted.   *)
IsIn(q, n) == \E i \in DOMAIN q : L!Protected(q[i]) /\ q[i].number = n

Behind(q, i, w) ==
  /\ \A n \in w : n < q[i].number
  /\ \A j \in 1 .. i - 1 : L!Protected(q[j]) => q[j].number < q[i].number

Kept(q, w, a) ==
  /\ \A n \in 1 .. a : n \in w \/ IsIn(q, n)
  /\ \A i \in DOMAIN q : L!Protected(q[i]) => q[i].number \in 1 .. a /\ Behind(q, i, w)

LEMMA KeptIsProperty ==
  /\ L!NoProtectedRecordIsLost <=> Len(records) <= Capacity /\ Kept(records, L!Given, accepted)
  /\ L!NoProtectedRecordIsLost' <=> Len(records') <= Capacity /\ Kept(records', L!Given', accepted')
BY DEF L!NoProtectedRecordIsLost, L!Waits, Kept, IsIn, Behind

(* A new record goes behind the others, with the next number.              *)
LEMMA AppendKeeps ==
  ASSUME NEW q \in Seq(LogRecord), NEW a \in Nat, NEW w \in SUBSET (1 .. a), Kept(q, w, a),
         NEW e \in LogRecord, NEW b \in Nat,
         \/ L!Protected(e) /\ e.number = a + 1 /\ b = a + 1
         \/ ~L!Protected(e) /\ b = a
  PROVE  Kept(Append(q, e), w, b)
<1> DEFINE p == Append(q, e)
<1>1. /\ Len(q) \in Nat /\ DOMAIN p = 1 .. Len(q) + 1 /\ DOMAIN q = 1 .. Len(q)
      /\ \A i \in 1 .. Len(q) : p[i] = q[i]
      /\ p[Len(q) + 1] = e
  BY AppendTyped
<1> HIDE DEF p
<1>2. ASSUME NEW n \in 1 .. b
      PROVE  n \in w \/ IsIn(p, n)
  <2>1. CASE n \in 1 .. a
    <3>1. n \in w \/ IsIn(q, n)
      BY <2>1 DEF Kept
    <3>2. IsIn(q, n) => IsIn(p, n)
      BY <1>1 DEF IsIn
    <3> QED
      BY <3>1, <3>2
  <2>2. CASE n \notin 1 .. a
    <3>1. n = a + 1 /\ L!Protected(e) /\ e.number = n
      BY <2>2
    <3>2. Len(q) + 1 \in DOMAIN p
      BY <1>1
    <3> QED
      BY <1>1, <3>1, <3>2 DEF IsIn
  <2> QED
    BY <2>1, <2>2
<1>3. ASSUME NEW i \in DOMAIN p, L!Protected(p[i])
      PROVE  p[i].number \in 1 .. b /\ Behind(p, i, w)
  <2>1. CASE i \in 1 .. Len(q)
    <3>1. q[i].number \in 1 .. a /\ Behind(q, i, w)
      BY <1>1, <1>3, <2>1 DEF Kept
    <3>2. \A j \in 1 .. i - 1 : p[j] = q[j]
      BY <1>1, <2>1
    <3>3. p[i] = q[i] /\ a <= b
      BY <1>1, <2>1
    <3>4. p[i].number \in 1 .. b
      BY <3>1, <3>3
    <3> QED
      BY <3>1, <3>2, <3>3, <3>4 DEF Behind
  <2>2. CASE i = Len(q) + 1
    <3>1. p[i].number = a + 1 /\ b = a + 1
      BY <1>1, <1>3, <2>2
    <3>2. ASSUME NEW j \in 1 .. i - 1, L!Protected(p[j])
          PROVE  p[j].number < a + 1
      <4>1. j \in DOMAIN q /\ p[j] = q[j]
        BY <1>1, <2>2
      <4>2. q[j].number \in 1 .. a
        BY <3>2, <4>1 DEF Kept
      <4> QED
        BY <4>1, <4>2
    <3>3. \A n \in w : n < a + 1
      OBVIOUS
    <3> QED
      BY <3>1, <3>2, <3>3 DEF Behind
  <2> QED
    BY <1>1, <2>1, <2>2
<1> QED
  BY <1>2, <1>3 DEF Kept, p

(* A record that is not protected may go.                                  *)
LEMMA RemoveKeeps ==
  ASSUME NEW q \in Seq(LogRecord), NEW w, NEW a, Kept(q, w, a),
         NEW k \in 1 .. Len(q), ~L!Protected(q[k])
  PROVE  Kept(L!RemoveAt(q, k), w, a)
<1> DEFINE p == L!RemoveAt(q, k)
           Old(i) == IF i < k THEN i ELSE i + 1
<1>1. /\ p \in Seq(LogRecord) /\ Len(p) = Len(q) - 1 /\ Len(q) \in Nat
      /\ \A i \in 1 .. k - 1 : p[i] = q[i]
      /\ \A i \in k .. Len(q) - 1 : p[i] = q[i + 1]
  BY RemoveEffect
<1> HIDE DEF p
<1>2. DOMAIN p = 1 .. Len(q) - 1 /\ DOMAIN q = 1 .. Len(q)
  BY <1>1
<1>3. \A i \in DOMAIN p : Old(i) \in DOMAIN q /\ p[i] = q[Old(i)]
  BY <1>1, <1>2
<1>4. \A i \in DOMAIN p : \A j \in 1 .. i - 1 : j \in DOMAIN p /\ Old(j) \in 1 .. Old(i) - 1
  BY <1>2
<1>5. \A i \in DOMAIN q \ {k} : \E j \in DOMAIN p : Old(j) = i
  <2>1. ASSUME NEW i \in DOMAIN q, i < k PROVE i \in DOMAIN p /\ Old(i) = i
    BY <1>2, <2>1
  <2>2. ASSUME NEW i \in DOMAIN q, i > k PROVE i - 1 \in DOMAIN p /\ Old(i - 1) = i
    BY <1>2, <2>2
  <2> HIDE DEF Old
  <2> QED
    BY <1>2, <2>1, <2>2
<1> HIDE DEF Old
<1>6. ASSUME NEW n \in 1 .. a, IsIn(q, n) PROVE IsIn(p, n)
  <2>1. PICK i \in DOMAIN q : L!Protected(q[i]) /\ q[i].number = n
    BY <1>6 DEF IsIn
  <2>2. PICK j \in DOMAIN p : Old(j) = i
    BY <1>5, <2>1
  <2> QED
    BY <1>3, <2>1, <2>2 DEF IsIn
<1>7. ASSUME NEW i \in DOMAIN p, L!Protected(p[i])
      PROVE  p[i].number \in 1 .. a /\ Behind(p, i, w)
  <2>1. Old(i) \in DOMAIN q /\ p[i] = q[Old(i)]
    BY <1>3
  <2>2. q[Old(i)].number \in 1 .. a /\ Behind(q, Old(i), w)
    BY <1>7, <2>1 DEF Kept
  <2>3. \A j \in 1 .. i - 1 : p[j] = q[Old(j)] /\ Old(j) \in 1 .. Old(i) - 1
    BY <1>3, <1>4
  <2> QED
    BY <2>1, <2>2, <2>3 DEF Behind
<1> QED
  BY <1>6, <1>7 DEF Kept, p

(* The first records may go, if the protected ones of them are given.     *)
LEMMA DrainKeeps ==
  ASSUME NEW q \in Seq(LogRecord), NEW a \in Nat, NEW w, Kept(q, w, a), w \subseteq 1 .. a,
         NEW k \in 1 .. Len(q), NEW v,
         v = w \cup {r.number : r \in {r \in {q[i] : i \in 1 .. k} : L!Protected(r)}}
  PROVE  v \subseteq 1 .. a /\ Kept(SubSeq(q, k + 1, Len(q)), v, a)
<1> DEFINE p == SubSeq(q, k + 1, Len(q))
<1>1. /\ p \in Seq(LogRecord) /\ Len(p) = Len(q) - k /\ Len(q) \in Nat /\ k \in Nat
      /\ \A i \in 1 .. Len(q) - k : p[i] = q[i + k]
  OBVIOUS
<1> HIDE DEF p
<1>2. DOMAIN p = 1 .. Len(q) - k /\ DOMAIN q = 1 .. Len(q)
  BY <1>1
<1>3. \A x \in v : \/ x \in w
                  \/ \E i \in 1 .. k : L!Protected(q[i]) /\ q[i].number = x
  OBVIOUS
<1>4. \A i \in 1 .. k : L!Protected(q[i]) => q[i].number \in v
  OBVIOUS
<1>5. w \subseteq v
  OBVIOUS
<1>6. \A i \in 1 .. k : i \in DOMAIN q
  BY <1>1, <1>2
<1>7. ASSUME NEW x \in v PROVE x \in 1 .. a
  BY <1>3, <1>6 DEF Kept
<1>8. ASSUME NEW m \in 1 .. a PROVE m \in v \/ IsIn(p, m)
  <2>1. CASE m \in w
    BY <1>5, <2>1
  <2>2. CASE m \notin w
    <3>1. PICK i \in DOMAIN q : L!Protected(q[i]) /\ q[i].number = m
      BY <2>2 DEF Kept, IsIn
    <3>2. CASE i \in 1 .. k
      BY <1>4, <3>1, <3>2
    <3>3. CASE i \notin 1 .. k
      <4>1. i - k \in DOMAIN p /\ p[i - k] = q[i]
        <5>1. i - k \in 1 .. Len(q) - k /\ i - k + k = i
          BY <1>1, <1>2, <3>3
        <5> QED
          BY <1>1, <1>2, <5>1
      <4> QED
        BY <3>1, <4>1 DEF IsIn
    <3> QED
      BY <3>2, <3>3
  <2> QED
    BY <2>1, <2>2
<1>9. ASSUME NEW i \in DOMAIN p, L!Protected(p[i])
      PROVE  p[i].number \in 1 .. a /\ Behind(p, i, v)
  <2>1. PICK m \in DOMAIN q : m = i + k
    BY <1>1, <1>2
  <2>2. p[i] = q[m]
    BY <1>1, <1>2, <2>1
  <2>3. q[m].number \in 1 .. a /\ Behind(q, m, w)
    BY <1>9, <2>2 DEF Kept
  <2>4. /\ \A x \in w : x < q[m].number
        /\ \A j \in 1 .. m - 1 : L!Protected(q[j]) => q[j].number < q[m].number
    BY <2>3 DEF Behind
  <2>5. ASSUME NEW j \in 1 .. i - 1 PROVE p[j] = q[j + k] /\ j + k \in 1 .. m - 1
    BY <1>1, <1>2, <2>1
  <2>6. \A j \in 1 .. k : j \in 1 .. m - 1
    BY <1>1, <1>2, <2>1
  <2>7. ASSUME NEW x \in v PROVE x < p[i].number
    <3>1. CASE x \in w
      BY <2>2, <2>4, <3>1
    <3>2. CASE \E j \in 1 .. k : L!Protected(q[j]) /\ q[j].number = x
      BY <2>2, <2>4, <2>6, <3>2
    <3> QED
      BY <1>3, <3>1, <3>2
  <2>8. ASSUME NEW j \in 1 .. i - 1, L!Protected(p[j]) PROVE p[j].number < p[i].number
    BY <2>2, <2>4, <2>5, <2>8
  <2> QED
    BY <2>2, <2>3, <2>7, <2>8 DEF Behind
<1> QED
  BY <1>7, <1>8, <1>9 DEF Kept, p

LEMMA EnqueueStep ==
  ASSUME LogInv, NEW c \in L!Category, L!Enqueue(c)
  PROVE  LogInv'
<1>1. records \in Seq(LogRecord) /\ accepted \in Nat /\ L!Given \in SUBSET (1 .. accepted)
  BY DEF LogInv, LogTypes
<1> DEFINE e == L!Record(c)
<1>2. e \in LogRecord /\ (L!Protected(e) <=> L!Protected([category |-> c]))
      /\ (L!Protected(e) => e.number = accepted + 1)
  BY <1>1, RecordTyped
<1> HIDE DEF e
<1>3. /\ records' = Append(records, e) /\ L!Given' = L!Given /\ Len(records) < Capacity
      /\ accepted' = accepted + (IF L!Protected([category |-> c]) THEN 1 ELSE 0)
  BY DEF L!Enqueue, L!Given, e
<1>4. /\ L!Protected(e) => accepted' = accepted + 1
      /\ ~L!Protected(e) => accepted' = accepted
      /\ accepted' \in Nat
  BY <1>1, <1>2, <1>3
<1>5. records' \in Seq(LogRecord) /\ Len(records') = Len(records) + 1 /\ Len(records) \in Nat
  BY <1>1, <1>2, <1>3, AppendTyped
<1>6. Kept(records, L!Given, accepted)
  BY KeptIsProperty DEF LogInv
<1>7. Kept(records', L!Given', accepted')
  BY <1>1, <1>2, <1>3, <1>4, <1>6, AppendKeeps
<1>8. L!Given' \subseteq 1 .. accepted'
  <2>1. accepted <= accepted'
    BY <1>1, <1>4
  <2> QED
    BY <1>1, <1>3, <1>4, <2>1
<1>9. Len(records') <= Capacity
  BY <1>3, <1>5, BoundsAssumption
<1> QED
  BY <1>4, <1>5, <1>7, <1>8, <1>9, KeptIsProperty DEF LogInv, LogTypes

LEMMA DisplaceStep ==
  ASSUME LogInv, NEW c \in L!Category, L!Displace(c)
  PROVE  LogInv'
<1>1. records \in Seq(LogRecord) /\ accepted \in Nat /\ L!Given \in SUBSET (1 .. accepted)
  BY DEF LogInv, LogTypes
<1>2. Len(records) <= Capacity /\ Kept(records, L!Given, accepted)
  BY KeptIsProperty DEF LogInv
<1> DEFINE e == L!Record(c)
           k == L!EvictIndex
           p == L!RemoveAt(records, k)
<1>3. e \in LogRecord /\ L!Protected(e) /\ e.number = accepted + 1
  <2>1. L!Protected([category |-> c])
    BY DEF L!Displace
  <2> QED
    BY <1>1, <2>1, RecordTyped
<1>4. CASE k = 0
  <2>1. UNCHANGED <<records, accepted, L!Given>>
    BY <1>4 DEF L!Displace, L!Given
  <2>2. Kept(records', L!Given', accepted')
    BY <1>2, <2>1
  <2> QED
    BY <1>1, <1>2, <2>1, <2>2, KeptIsProperty DEF LogInv, LogTypes
<1>5. CASE k # 0
  <2>1. k \in 1 .. Len(records) /\ ~L!Protected(records[k])
    BY <1>1, <1>5, EvictIndexEffect
  <2>2. records' = Append(p, e) /\ accepted' = accepted + 1 /\ L!Given' = L!Given
    BY <1>5 DEF L!Displace, L!Given
  <2> HIDE DEF e, k
  <2>3. p \in Seq(LogRecord) /\ Len(p) = Len(records) - 1 /\ Len(records) \in Nat
    BY <1>1, <2>1, RemoveEffect
  <2>4. Kept(p, L!Given, accepted)
    BY <1>1, <1>2, <2>1, RemoveKeeps
  <2> HIDE DEF p
  <2>5. Kept(records', L!Given', accepted')
    BY <1>1, <1>3, <2>2, <2>3, <2>4, AppendKeeps
  <2>6. records' \in Seq(LogRecord) /\ Len(records') = Len(records)
    BY <1>3, <2>2, <2>3, AppendTyped
  <2>7. accepted' \in Nat /\ L!Given' \subseteq 1 .. accepted'
    BY <1>1, <2>2
  <2> QED
    BY <1>2, <2>5, <2>6, <2>7, KeptIsProperty DEF LogInv, LogTypes
<1> QED
  BY <1>4, <1>5

LEMMA DrainStep ==
  ASSUME LogInv, L!DrainToSink
  PROVE  LogInv'
<1>1. records \in Seq(LogRecord) /\ accepted \in Nat /\ L!Given \in SUBSET (1 .. accepted)
      /\ Len(records) \in Nat
  BY DEF LogInv, LogTypes
<1>2. Len(records) <= Capacity /\ Kept(records, L!Given, accepted)
  BY KeptIsProperty DEF LogInv
<1> DEFINE n == IF Limit < Len(records) THEN Limit ELSE Len(records)
<1>3. /\ n > 0 /\ accepted' = accepted
      /\ records' = SubSeq(records, n + 1, Len(records))
  BY DEF L!DrainToSink
<1>8. PICK k \in 0 .. n : written' = written \cup L!Numbers(1 .. k)
                         /\ lost' = lost \cup L!Numbers(k + 1 .. n)
  BY DEF L!DrainToSink
<1>4. n \in 1 .. Len(records)
  BY <1>1, <1>3, BoundsAssumption
<1> HIDE DEF n
<1>9. 1 .. n = 1 .. k \cup k + 1 .. n
  BY <1>1, <1>4, <1>8
<1>10. L!Numbers(1 .. n) = L!Numbers(1 .. k) \cup L!Numbers(k + 1 .. n)
  BY <1>9 DEF L!Numbers
<1>11. L!Given' = L!Given \cup {r.number : r \in {r \in {records[i] : i \in 1 .. n} : L!Protected(r)}}
  BY <1>8, <1>10 DEF L!Given, L!Numbers
<1>5. L!Given' \subseteq 1 .. accepted /\ Kept(records', L!Given', accepted)
  BY <1>1, <1>2, <1>3, <1>4, <1>11, DrainKeeps
<1>6. records' \in Seq(LogRecord) /\ Len(records') = Len(records) - n
  BY <1>1, <1>3, <1>4
<1>7. Len(records') <= Capacity
  BY <1>1, <1>2, <1>4, <1>6, BoundsAssumption
<1> QED
  BY <1>1, <1>3, <1>5, <1>6, <1>7, KeptIsProperty DEF LogInv, LogTypes

LEMMA LogStep == LogInv /\ (L!Next \/ UNCHANGED LVars) => LogInv'
<1> SUFFICES ASSUME LogInv, L!Next \/ UNCHANGED LVars PROVE LogInv'
  OBVIOUS
<1>1. CASE UNCHANGED <<records, accepted, written, lost>>
  BY <1>1, KeptIsProperty DEF LogInv, LogTypes, L!Given
<1>2. ASSUME NEW c \in L!Category, L!DropNew(c) PROVE LogInv'
  BY <1>1, <1>2 DEF L!DropNew
<1>3. CASE UNCHANGED LVars
  BY <1>1, <1>3 DEF LVars
<1> QED
  BY <1>2, <1>3, EnqueueStep, DisplaceStep, DrainStep DEF L!Next

(* However full the log gets and whenever it is drained, for any capacity  *)
(* of ten or more: each protected record that enqueue() took went to the   *)
(* sink, before all that wait, or waits in its place (BoundedLogBuffer).   *)
THEOREM ProtectedRecordsAreKept == Spec => []NoProtectedRecordIsLost
<1>1. Init => LogInv
  <2> SUFFICES ASSUME Init PROVE LogInv
    OBVIOUS
  <2>1. records = <<>> /\ accepted = 0 /\ L!Given = {}
    BY DEF Init, L!Init, L!Given
  <2>2. Kept(records, L!Given, accepted) /\ Len(records) <= Capacity
    BY <2>1, BoundsAssumption DEF Kept
  <2> QED
    BY <2>1, <2>2, KeptIsProperty DEF LogInv, LogTypes
<1>2. LogInv /\ [Next]_vars => LogInv'
  BY StepOfOne, LogStep
<1>3. LogInv => NoProtectedRecordIsLost
  BY DEF LogInv, NoProtectedRecordIsLost
<1> QED
  BY <1>1, <1>2, <1>3, PTL DEF Spec

-----------------------------------------------------------------------------
(* The transcript.  The types are all the invariant that is needed.        *)
Text == Seq(T!Character)

TextTypes == stable \in Text /\ tentative \in Text /\ previous \in Text

LEMMA HypothesisIsText == T!Hypothesis \subseteq Text
<1>1. ASSUME NEW m \in Nat, NEW h \in [1 .. m -> T!Character] PROVE h \in Seq(T!Character)
  OBVIOUS
<1>2. T!SeqOf(T!Character, MaxLength) = UNION {[1 .. m -> T!Character] : m \in 0 .. MaxLength}
  BY DEF T!SeqOf
<1>3. \A m \in 0 .. MaxLength : m \in Nat
  BY BoundsAssumption
<1> QED
  BY <1>1, <1>2, <1>3 DEF T!Hypothesis, Text

(* The first n characters of a text, and the others.                       *)
LEMMA PartsOfText ==
  ASSUME NEW t \in Text, NEW n \in 0 .. Len(t)
  PROVE  /\ SubSeq(t, 1, n) \in Text /\ Len(SubSeq(t, 1, n)) = n
         /\ \A i \in 1 .. n : SubSeq(t, 1, n)[i] = t[i]
         /\ T!From(t, n) \in Text
BY DEF Text, T!From

LEMMA SameText ==
  ASSUME NEW s \in Text, NEW t \in Text, Len(s) = Len(t), \A i \in 1 .. Len(s) : s[i] = t[i]
  PROVE  s = t
BY DEF Text

LEMMA PrefixMeans ==
  ASSUME NEW s \in Text, NEW t \in Text
  PROVE  T!IsPrefix(s, t) <=> Len(s) <= Len(t) /\ \A i \in 1 .. Len(s) : s[i] = t[i]
<1>1. Len(s) \in Nat /\ Len(t) \in Nat
  BY DEF Text
<1>2. Len(s) \in 0 .. Len(s)
  BY <1>1
<1>3. ASSUME Len(s) <= Len(t)
      PROVE  SubSeq(s, 1, Len(s)) = SubSeq(t, 1, Len(s)) <=> \A i \in 1 .. Len(s) : s[i] = t[i]
  <2>1. Len(s) \in 0 .. Len(t)
    BY <1>1, <1>3
  <2> DEFINE a == SubSeq(s, 1, Len(s))
             b == SubSeq(t, 1, Len(s))
  <2>2. a \in Text /\ Len(a) = Len(s) /\ \A i \in 1 .. Len(s) : a[i] = s[i]
    BY <1>2, PartsOfText
  <2>3. b \in Text /\ Len(b) = Len(s) /\ \A i \in 1 .. Len(s) : b[i] = t[i]
    BY <2>1, PartsOfText
  <2> HIDE DEF a, b
  <2>4. a = b => \A i \in 1 .. Len(s) : s[i] = t[i]
    BY <2>2, <2>3
  <2>5. (\A i \in 1 .. Len(s) : s[i] = t[i]) => a = b
    BY <2>2, <2>3, SameText
  <2> QED
    BY <2>4, <2>5 DEF a, b
<1> QED
  BY <1>3 DEF T!IsPrefix

(* Common() counts characters that both texts have.                        *)
LEMMA CommonEffect ==
  ASSUME NEW left \in Text, NEW right \in Text
  PROVE  /\ T!Common(left, right) \in 0 .. Len(left)
         /\ T!Common(left, right) \in 0 .. Len(right)
         /\ \A i \in 1 .. T!Common(left, right) : left[i] = right[i]
<1> DEFINE C == T!CommonPrefixes({left, right})
           I == {Len(p) : p \in C}
           longest == T!LongestCommonPrefix({left, right})
<1>1. Len(left) \in Nat /\ Len(right) \in Nat
  BY DEF Text
<1>2. \A p : p \in C <=> /\ \/ \E n \in 0 .. Len(left) : p = SubSeq(left, 1, n)
                          \/ \E n \in 0 .. Len(right) : p = SubSeq(right, 1, n)
                       /\ T!IsPrefix(p, left) /\ T!IsPrefix(p, right)
  BY DEF T!CommonPrefixes, T!Prefixes
<1> HIDE DEF C
<1>3. \A p \in C : p \in Text
  BY <1>2, PartsOfText
<1>4. ASSUME NEW p \in C
      PROVE  /\ Len(p) \in 0 .. Len(left) /\ Len(p) \in 0 .. Len(right)
             /\ \A i \in 1 .. Len(p) : left[i] = right[i]
  <2>1. p \in Text
    BY <1>3
  <2>2. T!IsPrefix(p, left) /\ T!IsPrefix(p, right)
    BY <1>2
  <2>3. Len(p) \in Nat
    BY <2>1 DEF Text
  <2>4. Len(p) <= Len(left) /\ \A i \in 1 .. Len(p) : p[i] = left[i]
    BY <2>1, <2>2, PrefixMeans
  <2>5. Len(p) <= Len(right) /\ \A i \in 1 .. Len(p) : p[i] = right[i]
    BY <2>1, <2>2, PrefixMeans
  <2> QED
    BY <1>1, <2>3, <2>4, <2>5
<1>5. SubSeq(left, 1, 0) \in C
  <2> DEFINE p == SubSeq(left, 1, 0)
  <2>1. 0 \in 0 .. Len(left)
    BY <1>1
  <2>2. p \in Text /\ Len(p) = 0
    BY <2>1, PartsOfText
  <2> HIDE DEF p
  <2>3. T!IsPrefix(p, left) /\ T!IsPrefix(p, right)
    BY <1>1, <2>2, PrefixMeans
  <2> QED
    BY <1>2, <2>1, <2>3 DEF p
<1>6. \E p \in C : \A o \in C : Len(o) <= Len(p)
  <2>1. I \in SUBSET (0 .. Len(left)) /\ I # {}
    BY <1>4, <1>5
  <2>2. PICK x \in I : \A y \in I : y <= x
    BY <1>1, <2>1, LargestNatural
  <2> QED
    BY <2>2
<1>7. longest \in C
  <2>1. longest = CHOOSE p \in C : \A o \in C : Len(o) <= Len(p)
    BY DEF T!LongestCommonPrefix, C
  <2> QED
    BY <1>6, <2>1
<1> QED
  BY <1>4, <1>7 DEF T!Common

LEMMA BoundaryEffect ==
  ASSUME NEW t \in Text
  PROVE  T!Boundary(t) \in 0 .. Len(t)
<1> DEFINE I == {i \in 1 .. Len(t) : t[i] \in {Space, Slash}}
<1>1. Len(t) \in Nat
  BY DEF Text
<1>2. T!Boundary(t) = IF I # {} THEN T!Max(I) ELSE 0
  BY DEF T!Boundary, T!SelectLastInSeq
<1>3. ASSUME I # {} PROVE T!Max(I) \in I
  <2>1. I \in SUBSET (0 .. Len(t))
    BY <1>1
  <2> HIDE DEF I
  <2>2. \E x \in I : \A y \in I : x >= y
    <3>1. PICK x \in I : \A y \in I : y <= x
      BY <1>1, <1>3, <2>1, LargestNatural
    <3> QED
      BY <2>1, <3>1
  <2> QED
    BY <2>2 DEF T!Max
<1> QED
  BY <1>1, <1>2, <1>3

(* What is committed is agreed on, but for one space behind it.            *)
LEMMA SafeEffect ==
  ASSUME NEW t \in Text, NEW n \in 0 .. Len(t)
  PROVE  \/ T!SafeCommitIndex(t, n) \in 0 .. n
         \/ T!SafeCommitIndex(t, n) = n + 1 /\ n < Len(t) /\ t[n + 1] = Space
<1> DEFINE b == T!Boundary(SubSeq(t, 1, n))
<1>1. Len(t) \in Nat /\ n \in Nat
  BY DEF Text
<1>2. b \in 0 .. n
  BY PartsOfText, BoundaryEffect
<1> HIDE DEF b
<1>3. T!SafeCommitIndex(t, n) =
        CASE n <= 1 -> 0
          [] n > 1 /\ n < Len(t) /\ t[n + 1] = Space -> n + 1
          [] OTHER -> IF b > 0 THEN b ELSE n - 1
  BY DEF T!SafeCommitIndex, b
<1>4. CASE n <= 1
  <2>1. T!SafeCommitIndex(t, n) = 0
    BY <1>1, <1>3, <1>4
  <2> QED
    BY <1>1, <2>1
<1>5. CASE n > 1 /\ n < Len(t) /\ t[n + 1] = Space
  <2>1. T!SafeCommitIndex(t, n) = n + 1
    BY <1>1, <1>3, <1>5
  <2> QED
    BY <1>5, <2>1
<1>6. CASE n > 1 /\ ~ (n < Len(t) /\ t[n + 1] = Space)
  <2>1. T!SafeCommitIndex(t, n) = IF b > 0 THEN b ELSE n - 1
    BY <1>1, <1>3, <1>6
  <2> QED
    BY <1>1, <1>2, <1>6, <2>1
<1> QED
  BY <1>1, <1>4, <1>5, <1>6

LEMMA ConcatText ==
  ASSUME NEW s \in Text, NEW t \in Text
  PROVE  s \o t \in Text /\ T!IsPrefix(s, s \o t)
<1>1. /\ s \o t \in Text /\ Len(s) <= Len(s \o t)
      /\ \A i \in 1 .. Len(s) : (s \o t)[i] = s[i]
  BY DEF Text
<1> QED
  BY <1>1, PrefixMeans

LEMMA TextSteps ==
  ASSUME TextTypes, NEW h \in Text, T!Update(h) \/ T!Finalize(h)
  PROVE  TextTypes' /\ T!CommitsTheAgreed
<1> USE DEF TextTypes
<1>1. Len(stable) \in Nat /\ Len(h) \in Nat /\ <<>> \in Text
  BY DEF Text
<1>2. T!IsPrefix(stable, stable)
  BY <1>1, PrefixMeans
<1>3. CASE T!Update(h)
  <2> DEFINE common == T!Common(previous, h)
             safe == T!SafeCommitIndex(h, common)
             commit == IF safe > Len(stable) THEN safe ELSE Len(stable)
  <2>1. /\ common \in 0 .. Len(previous) /\ common \in 0 .. Len(h)
        /\ \A i \in 1 .. common : previous[i] = h[i]
    BY CommonEffect
  <2>2. \/ safe \in 0 .. common
        \/ safe = common + 1 /\ common < Len(h) /\ h[common + 1] = Space
    BY <2>1, SafeEffect
  <2>3. \/ /\ T!IsPrefix(stable, h) /\ stable' = SubSeq(h, 1, commit)
           /\ tentative' = T!From(h, commit) /\ previous' = h
        \/ /\ stable' = stable /\ tentative' = T!From(h, common)
           /\ previous' = stable \o T!From(h, common)
    BY <1>3 DEF T!Update
  <2> HIDE DEF common, safe
  <2>4. CASE /\ stable' = stable /\ tentative' = T!From(h, common)
             /\ previous' = stable \o T!From(h, common)
    <3>1. T!From(h, common) \in Text
      BY <2>1, PartsOfText
    <3> QED
      BY <1>2, <2>4, <3>1, ConcatText DEF T!CommitsTheAgreed
  <2>5. CASE /\ T!IsPrefix(stable, h) /\ stable' = SubSeq(h, 1, commit)
             /\ tentative' = T!From(h, commit) /\ previous' = h
    <3>1. Len(stable) <= Len(h) /\ \A i \in 1 .. Len(stable) : stable[i] = h[i]
      BY <2>5, PrefixMeans
    <3>2. commit \in 0 .. Len(h) /\ commit >= Len(stable)
      BY <1>1, <2>1, <2>2, <3>1
    <3>3. /\ stable' \in Text /\ Len(stable') = commit /\ tentative' \in Text
          /\ \A i \in 1 .. commit : stable'[i] = h[i]
      BY <2>5, <3>2, PartsOfText
    <3>4. T!IsPrefix(stable, stable')
      BY <1>1, <3>1, <3>2, <3>3, PrefixMeans
    <3>5. CASE commit = Len(stable)
      <4>1. stable' = stable
        BY <3>1, <3>3, <3>5, SameText
      <4> QED
        BY <2>5, <3>3, <3>4, <4>1 DEF T!CommitsTheAgreed
    <3>6. CASE commit # Len(stable) /\ safe \in 0 .. common
      <4>1. commit = safe /\ commit <= common /\ common <= Len(previous)
        BY <2>1, <3>6
      <4>2. \A i \in 1 .. commit : stable'[i] = previous[i]
        BY <2>1, <3>2, <3>3, <4>1
      <4>3. Len(stable') <= Len(previous)
        BY <2>1, <3>2, <3>3, <4>1
      <4>4. T!IsPrefix(stable', previous)
        BY <3>3, <4>2, <4>3, PrefixMeans
      <4> QED
        BY <2>5, <3>3, <3>4, <4>4 DEF T!CommitsTheAgreed, T!Agreed
    <3>7. CASE commit # Len(stable) /\ safe = common + 1 /\ h[common + 1] = Space
      <4>1. commit = common + 1
        BY <3>7
      <4>2. T!Last(stable') = Space
        BY <2>1, <3>2, <3>3, <3>7, <4>1 DEF T!Last
      <4> DEFINE f == T!Front(stable')
      <4>3. f \in Text /\ Len(f) = common /\ \A i \in 1 .. common : f[i] = stable'[i]
        <5>1. f = SubSeq(stable', 1, common)
          BY <2>1, <3>3, <4>1 DEF T!Front
        <5>2. common \in 0 .. Len(stable')
          BY <2>1, <3>3, <4>1
        <5> QED
          BY <3>3, <5>1, <5>2, PartsOfText
      <4> HIDE DEF f
      <4>4. \A i \in 1 .. common : f[i] = previous[i]
        BY <2>1, <3>2, <3>3, <4>1, <4>3
      <4>5. T!IsPrefix(f, previous)
        BY <2>1, <4>3, <4>4, PrefixMeans
      <4> QED
        BY <2>5, <3>3, <3>4, <4>2, <4>5 DEF T!CommitsTheAgreed, T!Agreed, f
    <3> QED
      BY <2>2, <3>5, <3>6, <3>7
  <2> QED
    BY <2>3, <2>4, <2>5
<1>4. CASE T!Finalize(h)
  <2>1. over' = TRUE /\ tentative' = <<>> /\ previous' = stable'
    BY <1>4 DEF T!Finalize
  <2>2. \/ T!IsPrefix(stable, h) /\ stable' = h
        \/ stable' = stable \o T!From(h, T!Common(stable, h))
    BY <1>4 DEF T!Finalize
  <2>3. T!From(h, T!Common(stable, h)) \in Text
    BY CommonEffect, PartsOfText
  <2>4. stable' \in Text /\ T!IsPrefix(stable, stable')
    BY <2>2, <2>3, ConcatText
  <2> QED
    BY <1>1, <2>1, <2>4 DEF T!CommitsTheAgreed
<1> QED
  BY <1>3, <1>4

LEMMA TextStep ==
  ASSUME TextTypes, T!Next \/ UNCHANGED TVars
  PROVE  TextTypes' /\ T!CommitsTheAgreed
<1>1. CASE T!Next
  BY <1>1, HypothesisIsText, TextSteps DEF T!Next
<1>2. CASE UNCHANGED TVars
  <2>1. stable' = stable /\ TextTypes'
    BY <1>2 DEF TVars, TextTypes
  <2>2. T!IsPrefix(stable, stable)
    <3>1. Len(stable) \in Nat
      BY DEF TextTypes, Text
    <3> QED
      BY <3>1, PrefixMeans DEF TextTypes
  <2> QED
    BY <2>1, <2>2 DEF T!CommitsTheAgreed
<1> QED
  BY <1>1, <1>2

(* However the recogniser changes its mind, for any letters and any length *)
(* of its hypotheses: committed text stays, and grows by no more than what *)
(* two hypotheses in a row have in common (TranscriptStabilizer).          *)
THEOREM CommittedTextStays == Spec => OnlyTheAgreedIsCommitted
<1>1. Init => TextTypes
  BY DEF Init, T!Init, TextTypes, Text
<1>2. TextTypes /\ [Next]_vars => TextTypes'
  BY StepOfOne, TextStep
<1>3. TextTypes /\ [Next]_vars => [T!CommitsTheAgreed]_vars
  BY StepOfOne, TextStep
<1> QED
  BY <1>1, <1>2, <1>3, PTL DEF Spec, OnlyTheAgreedIsCommitted

-----------------------------------------------------------------------------
(* The release evaluation.  Of the corpus and the prompts only what        *)
(* CorpusIs says is used: how many they are, how long the texts are and    *)
(* what is expected of them does not matter.                               *)
Speech == {Stop, HalfStop, Silence, ReadDocs, MisreadDocs, ChangeCode, ChangedCode}

LEMMA CorpusIs ==
  /\ Len(Corpus) \in Nat /\ DOMAIN Corpus = 1 .. Len(Corpus)
  /\ \A i \in DOMAIN Corpus : Corpus[i].heard \subseteq Seq(Speech)
  /\ Prompts \in Seq(Speech)
<1> USE DEF Speech
<1>1. Prompts \in Seq(Speech)
  BY DEF Prompts
<1>2. Len(Corpus) = 3 /\ DOMAIN Corpus = 1 .. 3
  BY DEF Corpus
<1>3. /\ Corpus[1].heard = {<<>>, <<Stop>>, <<HalfStop>>, <<HalfStop, Stop>>, <<Stop, HalfStop>>,
                             <<Silence, Stop>>}
      /\ Corpus[2].heard = {<<ReadDocs>>, <<MisreadDocs>>, <<ReadDocs, MisreadDocs>>}
      /\ Corpus[3].heard = {<<ChangeCode>>, <<ChangedCode>>}
  BY DEF Corpus
<1>4. /\ <<>> \in Seq(Speech) /\ <<Stop>> \in Seq(Speech) /\ <<HalfStop>> \in Seq(Speech)
      /\ <<HalfStop, Stop>> \in Seq(Speech) /\ <<Stop, HalfStop>> \in Seq(Speech)
      /\ <<Silence, Stop>> \in Seq(Speech)
      /\ <<ReadDocs>> \in Seq(Speech) /\ <<MisreadDocs>> \in Seq(Speech)
      /\ <<ReadDocs, MisreadDocs>> \in Seq(Speech)
      /\ <<ChangeCode>> \in Seq(Speech) /\ <<ChangedCode>> \in Seq(Speech)
  OBVIOUS
<1>5. \A i \in 1 .. 3 : i = 1 \/ i = 2 \/ i = 3
  OBVIOUS
<1> HIDE DEF Speech
<1>6. ASSUME NEW i \in DOMAIN Corpus PROVE Corpus[i].heard \subseteq Seq(Speech)
  BY <1>2, <1>3, <1>4, <1>5
<1> QED
  BY <1>1, <1>2, <1>6

Message ==
  [type: {"AGENT_MANIFEST", "AGENT_STATE", "STT_FINAL", "COMMAND_ACK", "TTS_END", "ERROR"},
   about: Speech \cup {"", "ACCEPTED", "COMPLETED", "FAILED", "INTERRUPTED", "idle"}]

(* Events of a kind are only at the end of a list.                         *)
AtEnd(s, X) == \A i \in DOMAIN s : s[i] \in X => i = Len(s)

Idles == {e \in Message : e = R!Idle}
Acks  == {e \in Message : e.type = "COMMAND_ACK"}

(* Nothing ends a turn.                                                    *)
Silent(s) == \A i \in DOMAIN s : s[i].type \notin {"TTS_END", "COMMAND_ACK"}

LEMMA Parts ==
  ASSUME NEW s \in Seq(Message), NEW v \in Seq(Message)
  PROVE  /\ s \o v \in Seq(Message) /\ Len(s \o v) = Len(s) + Len(v)
         /\ Len(s) \in Nat /\ Len(v) \in Nat /\ (v = <<>> <=> Len(v) = 0)
         /\ DOMAIN s = 1 .. Len(s) /\ DOMAIN v = 1 .. Len(v)
         /\ DOMAIN (s \o v) = 1 .. Len(s) + Len(v)
         /\ \A i \in DOMAIN s : (s \o v)[i] = s[i]
         /\ \A i \in DOMAIN v : (s \o v)[i + Len(s)] = v[i]
OBVIOUS

LEMMA EventsOf ==
  /\ \A x \in Speech : R!Final(x) \in Message \ (Idles \cup Acks) /\ R!Final(x).type = "STT_FINAL"
  /\ R!Ack \in Acks \ Idles /\ R!Ack \in Message /\ R!Idle \in Idles \ Acks /\ R!Idle \in Message
  /\ R!Failure \in Message \ (Idles \cup Acks) /\ R!Failure.type = "ERROR"
  /\ \A o \in {"COMPLETED", "FAILED", "INTERRUPTED"} : R!TtsEnd(o) \in Message \ (Idles \cup Acks)
BY DEF Message, Idles, Acks, R!Final, R!Ack, R!Idle, R!Failure, R!TtsEnd, R!Event

LEMMA AnswersEnd ==
  ASSUME NEW x, NEW a \in R!Answers(x)
  PROVE  a \in Seq(Message) /\ AtEnd(a, Idles) /\ AtEnd(a, Acks)
<1>1. ASSUME NEW e \in Message, a = <<e>> PROVE a \in Seq(Message) /\ \A X : AtEnd(a, X)
  BY <1>1 DEF AtEnd
<1>2. CASE a = <<>>
  BY <1>2 DEF AtEnd
<1>3. CASE a = <<R!TtsEnd("COMPLETED"), R!Idle>>
  BY <1>3, EventsOf DEF AtEnd
<1>4. CASE a = <<R!TtsEnd("FAILED"), R!Failure, R!Idle>>
  BY <1>4, EventsOf DEF AtEnd
<1>5. \/ a = <<>> \/ a = <<R!Ack>> \/ a = <<R!Failure>> \/ a = <<R!Idle>>
      \/ a = <<R!TtsEnd("COMPLETED"), R!Idle>> \/ a = <<R!TtsEnd("FAILED"), R!Failure, R!Idle>>
  BY DEF R!Answers
<1> QED
  BY <1>1, <1>2, <1>3, <1>4, <1>5, EventsOf

LEMMA PartsOfAnswers ==
  /\ \A x : R!Begun(x) \subseteq Seq(Message)
  /\ \A b : R!Cuts(b) \subseteq Seq(Message)
  /\ <<R!Failure>> \in Seq(Message)
<1>1. /\ <<>> \in Seq(Message) /\ <<R!TtsEnd("COMPLETED")>> \in Seq(Message)
      /\ <<R!TtsEnd("FAILED"), R!Failure>> \in Seq(Message) /\ <<R!Failure>> \in Seq(Message)
      /\ <<R!Ack>> \in Seq(Message) /\ <<R!TtsEnd("INTERRUPTED"), R!Ack>> \in Seq(Message)
  BY EventsOf
<1>2. ASSUME NEW x PROVE R!Begun(x) \subseteq Seq(Message)
  BY <1>1 DEF R!Begun
<1>3. ASSUME NEW b PROVE R!Cuts(b) \subseteq Seq(Message)
  BY <1>1 DEF R!Cuts
<1> QED
  BY <1>1, <1>2, <1>3

LEMMA FinalComesFirst ==
  ASSUME NEW x \in Speech, NEW a \in Seq(Message)
  PROVE  LET f == <<R!Final(x)>> \o a IN
         /\ f \in Seq(Message) /\ f # <<>> /\ f[1] = R!Final(x)
         /\ \A X \in {Idles, Acks} : AtEnd(a, X) => AtEnd(f, X)
<1> DEFINE g == <<R!Final(x)>>
           f == g \o a
<1>1. g \in Seq(Message) /\ Len(g) = 1 /\ g[1] = R!Final(x) /\ DOMAIN g = {1}
  BY EventsOf
<1> HIDE DEF g
<1> HIDE DEF f
<1>2. /\ f \in Seq(Message) /\ Len(f) = 1 + Len(a) /\ Len(a) \in Nat /\ DOMAIN f = 1 .. 1 + Len(a)
      /\ DOMAIN a = 1 .. Len(a) /\ f[1] = R!Final(x) /\ \A i \in DOMAIN a : f[i + 1] = a[i]
  <2>1. /\ f \in Seq(Message) /\ Len(f) = Len(g) + Len(a) /\ Len(a) \in Nat
        /\ DOMAIN f = 1 .. Len(g) + Len(a) /\ DOMAIN a = 1 .. Len(a)
        /\ \A i \in DOMAIN g : f[i] = g[i]
        /\ \A i \in DOMAIN a : f[i + Len(g)] = a[i]
    BY <1>1, Parts DEF f
  <2> QED
    BY <1>1, <2>1
<1>3. f # <<>>
  BY <1>2
<1>4. ASSUME NEW X \in {Idles, Acks}, AtEnd(a, X) PROVE AtEnd(f, X)
  <2>1. R!Final(x) \notin X
    BY EventsOf
  <2>2. ASSUME NEW i \in DOMAIN f, f[i] \in X PROVE i = Len(f)
    <3>1. PICK j \in DOMAIN a : i = j + 1
      <4>1. i # 1
        BY <1>2, <2>1, <2>2
      <4>2. i - 1 \in DOMAIN a /\ i = (i - 1) + 1
        BY <1>2, <4>1
      <4> QED
        BY <4>2
    <3>2. a[j] \in X
      BY <1>2, <2>2, <3>1
    <3> QED
      BY <1>2, <1>4, <3>1, <3>2 DEF AtEnd
  <2> QED
    BY <2>2 DEF AtEnd
<1> QED
  BY <1>2, <1>3, <1>4 DEF f, g

LEMMA SecondIsSent ==
  ASSUME NEW x \in Speech, NEW y \in Speech, NEW s \in R!Second(x, y)
  PROVE  s \in Seq(Message) \X Seq(Message)
<1>1. \A a \in R!Answers(x) \cup R!Answers(y) \cup R!Begun(x) \cup R!Begun(y) : a \in Seq(Message)
  BY AnswersEnd, PartsOfAnswers
<1>2. \A a \in Seq(Message) : <<R!Final(y)>> \o a \in Seq(Message)
  BY FinalComesFirst
<1>3. R!Ends(y) \subseteq Seq(Message)
  <2>1. \A e \in R!Ends(y) : e = <<R!Failure>> \/ \E a \in R!Answers(y) : e = <<R!Final(y)>> \o a
    BY DEF R!Ends
  <2> QED
    BY <1>1, <1>2, <2>1, PartsOfAnswers
<1>4. CASE \E a \in R!Answers(x) :
             \E e \in R!Ends(y) \cup {<<R!Final(y)>> \o b : b \in R!Begun(y)} : s = <<a, e>>
  <2>1. PICK a \in R!Answers(x), e \in R!Ends(y) \cup {<<R!Final(y)>> \o b : b \in R!Begun(y)} :
          s = <<a, e>>
    BY <1>4
  <2>2. e \in Seq(Message)
    BY <1>1, <1>2, <1>3, <2>1
  <2> QED
    BY <1>1, <2>1, <2>2
<1>5. CASE \E b \in R!Begun(x) : \E c \in R!Cuts(b) : \E e \in R!Ends(y) : s = <<b, c \o e>>
  <2>1. PICK b \in R!Begun(x), c \in Seq(Message), e \in Seq(Message) : s = <<b, c \o e>>
    BY <1>3, <1>5, PartsOfAnswers
  <2>2. c \o e \in Seq(Message)
    BY <2>1, Parts
  <2> QED
    BY <1>1, <2>1, <2>2
<1>6. CASE \E b \in R!Begun(x) : \E a \in R!Cuts(b) \cup R!Answers(y) :
             s = <<b, <<R!Final(y)>> \o a>>
  <2>1. PICK b \in R!Begun(x) : \E a \in R!Cuts(b) \cup R!Answers(y) :
          s = <<b, <<R!Final(y)>> \o a>>
    BY <1>6
  <2>2. PICK a \in R!Cuts(b) \cup R!Answers(y) : s = <<b, <<R!Final(y)>> \o a>>
    BY <2>1
  <2>3. <<R!Final(y)>> \o a \in Seq(Message)
    BY <1>1, <1>2, <2>2, PartsOfAnswers
  <2> QED
    BY <1>1, <2>1, <2>2, <2>3
<1>7. \/ \E a \in R!Answers(x) :
             \E e \in R!Ends(y) \cup {<<R!Final(y)>> \o b : b \in R!Begun(y)} : s = <<a, e>>
      \/ \E b \in R!Begun(x) : \E c \in R!Cuts(b) : \E e \in R!Ends(y) : s = <<b, c \o e>>
      \/ \E b \in R!Begun(x) : \E a \in R!Cuts(b) \cup R!Answers(y) :
             s = <<b, <<R!Final(y)>> \o a>>
  <2> DEFINE A == {<<a, e>> : a \in R!Answers(x),
                     e \in R!Ends(y) \cup {<<R!Final(y)>> \o d : d \in R!Begun(y)}}
             B(b) == {<<b, c \o e>> : c \in R!Cuts(b), e \in R!Ends(y)}
             later(b) == CASE y = R!Nothing -> {}
                           [] R!Recognize(y) = "STOP_SPEAKING" -> R!Cuts(b)
                           [] OTHER -> R!Answers(y)
             C(b) == {<<b, <<R!Final(y)>> \o a>> : a \in later(b)}
             U == {B(d) \cup C(d) : d \in R!Begun(x)}
  <2>1. R!Second(x, y) = A \cup UNION U
    BY DEF R!Second
  <2> HIDE DEF A, U, later
  <2>2. s \in A \/ \E u \in U : s \in u
    BY <2>1
  <2> HIDE DEF B, C
  <2>3. CASE s \in A
    BY <2>3 DEF A
  <2>4. CASE \E u \in U : s \in u
    <3>1. PICK b \in R!Begun(x) : s \in B(b) \/ s \in C(b)
      BY <2>4 DEF U
    <3>2. later(b) \subseteq R!Cuts(b) \cup R!Answers(y)
      BY DEF later
    <3>3. CASE s \in B(b)
      BY <3>3 DEF B
    <3>4. CASE s \in C(b)
      BY <3>2, <3>4 DEF C
    <3> QED
      BY <3>1, <3>3, <3>4
  <2> QED
    BY <2>2, <2>3, <2>4
<1> QED
  BY <1>4, <1>5, <1>6, <1>7

(* What the gateway sends of what was heard: the first final comes first,  *)
(* and of one speech alone what ends its turn comes last.                  *)
LEMMA TurnIsSent ==
  ASSUME NEW heard \in Seq(Speech), NEW w \in R!Turn(heard)
  PROVE  /\ w \in Seq(Message) \X Seq(Message)
         /\ heard = <<>> => Silent(w[1]) /\ w[2] = <<>>
         /\ heard # <<>> => w[1] # <<>> /\ w[1][1] = R!Final(heard[1])
         /\ Len(heard) = 1 => w[2] = <<>> /\ AtEnd(w[1], Idles) /\ AtEnd(w[1], Acks)
<1>1. /\ Len(heard) \in Nat /\ (heard = <<>> <=> Len(heard) = 0)
      /\ Len(heard) # 0 => heard[1] \in Speech
  OBVIOUS
<1>2. CASE Len(heard) = 0
  <2>1. w = <<<<>>, <<>>>> \/ w = <<<<R!Failure>>, <<>>>>
    BY <1>2 DEF R!Turn, R!NoneLeft
  <2>2. Silent(<<>>) /\ Silent(<<R!Failure>>)
    BY EventsOf DEF Silent
  <2>3. <<>> \in Seq(Message) /\ <<R!Failure>> \in Seq(Message)
    BY PartsOfAnswers
  <2>4. PICK v \in {<<>>, <<R!Failure>>} : w = <<v, <<>>>>
    BY <2>1
  <2>5. v \in Seq(Message) /\ Silent(v)
    BY <2>2, <2>3, <2>4
  <2> DEFINE none == <<>>
  <2>6. w = <<v, none>> /\ none \in Seq(Message)
    BY <2>3, <2>4
  <2> HIDE DEF none
  <2>7. w \in Seq(Message) \X Seq(Message) /\ w[1] = v /\ w[2] = none
    BY <2>5, <2>6
  <2> QED
    BY <1>1, <1>2, <2>5, <2>7 DEF none
<1>3. CASE Len(heard) = 1
  <2> DEFINE f == R!Final(heard[1])
  <2>1. PICK a \in R!Answers(heard[1]) : w = <<<<f>> \o a, <<>>>>
    BY <1>3 DEF R!Turn
  <2>2. a \in Seq(Message) /\ AtEnd(a, Idles) /\ AtEnd(a, Acks)
    BY AnswersEnd
  <2> DEFINE v == <<f>> \o a
  <2>3. /\ v \in Seq(Message) /\ v # <<>> /\ v[1] = f /\ AtEnd(v, Idles) /\ AtEnd(v, Acks)
    BY <1>1, <1>3, <2>2, FinalComesFirst
  <2>4. w = <<v, <<>>>>
    BY <2>1
  <2> HIDE DEF v
  <2> DEFINE none == <<>>
  <2>7. w = <<v, none>> /\ none \in Seq(Message)
    BY <2>4
  <2> HIDE DEF none
  <2>5. w \in Seq(Message) \X Seq(Message) /\ w[1] = v /\ w[2] = none
    BY <2>3, <2>7
  <2> HIDE DEF f
  <2>6. heard # <<>> /\ f = R!Final(heard[1])
    BY <1>1, <1>3 DEF f
  <2> QED
    BY <1>3, <2>3, <2>5, <2>6 DEF none
<1>4. CASE ~(Len(heard) = 0) /\ ~(Len(heard) = 1)
  <2> DEFINE x == heard[1]
             y == heard[2]
  <2>1. x \in Speech /\ y \in Speech
    <3>1. \A n \in Nat : ~(n = 0) /\ ~(n = 1) => 2 \in 1 .. n
      OBVIOUS
    <3>2. DOMAIN heard = 1 .. Len(heard)
      OBVIOUS
    <3> QED
      BY <1>1, <1>4, <3>1, <3>2
  <2>2. PICK s \in R!Second(x, y) : w = <<<<R!Final(x)>> \o s[1], s[2]>>
    <3> DEFINE A == {R!NoneLeft, <<<<R!Failure>>, <<>>>>}
               B == {<<<<R!Final(heard[1])>> \o a, <<>>>> : a \in R!Answers(heard[1])}
               C == {<<<<R!Final(x)>> \o s[1], s[2]>> : s \in R!Second(x, y)}
    <3>1. R!Turn(heard) = CASE Len(heard) = 0 -> A [] Len(heard) = 1 -> B [] OTHER -> C
      BY DEF R!Turn
    <3> HIDE DEF A, B, C
    <3>2. w \in C
      BY <1>4, <3>1
    <3> QED
      BY <3>2 DEF C
  <2> HIDE DEF x, y
  <2>3. s \in Seq(Message) \X Seq(Message)
    BY <2>1, SecondIsSent
  <2> DEFINE v == <<R!Final(x)>> \o s[1]
  <2>4. v \in Seq(Message) /\ v # <<>> /\ v[1] = R!Final(x)
    BY <2>1, <2>3, FinalComesFirst
  <2>5. w = <<v, s[2]>>
    BY <2>2
  <2> HIDE DEF v
  <2>6. w \in Seq(Message) \X Seq(Message) /\ w[1] = v
    BY <2>3, <2>4, <2>5
  <2>7. heard # <<>> /\ w[1] # <<>> /\ w[1][1] = R!Final(heard[1])
    BY <1>1, <1>4, <2>4, <2>6 DEF x
  <2> QED
    BY <1>4, <2>6, <2>7
<1> QED
  BY <1>2, <1>3, <1>4

(* The first event is read.                                                *)
LEMMA ReadMoves ==
  ASSUME NEW s \in Seq(Message), NEW v \in Seq(Message), v # <<>>
  PROVE  /\ Append(s, Head(v)) \in Seq(Message) /\ Tail(v) \in Seq(Message)
         /\ Len(Append(s, Head(v))) = Len(s) + 1 /\ Append(s, Head(v)) # <<>>
         /\ Append(s, Head(v)) \o Tail(v) = s \o v
         /\ Head(v) = v[1] /\ Len(s) \in Nat /\ Len(v) \in Nat
         /\ DOMAIN s = 1 .. Len(s) /\ DOMAIN v = 1 .. Len(v)
         /\ \A i \in DOMAIN s : Append(s, Head(v))[i] = s[i]
         /\ Append(s, Head(v))[Len(s) + 1] = v[1]
         /\ \A i \in DOMAIN Tail(v) : i + 1 \in DOMAIN v /\ Tail(v)[i] = v[i + 1]
OBVIOUS

(* What the client has seen of the connection of a case: it was greeted    *)
(* before its recording was answered.                                      *)
Greeted(seen) ==
  /\ Len(seen) >= 2
  /\ \A i \in 1 .. 2 : seen[i].type \in {"AGENT_MANIFEST", "AGENT_STATE"}

LEMMA HelloIs ==
  R!Hello \in Seq(Message) /\ Len(R!Hello) = 2 /\ Greeted(R!Hello) /\ Silent(R!Hello)
<1> DEFINE a == R!Event("AGENT_MANIFEST", "")
           b == R!Idle
           h == <<a, b>>
<1>1. a \in Message /\ a.type = "AGENT_MANIFEST"
  BY DEF R!Event, Message
<1>2. b \in Message /\ b.type = "AGENT_STATE"
  BY DEF R!Idle, R!Event, Message
<1>3. R!Hello = h
  BY DEF R!Hello
<1> HIDE DEF a, b
<1>4. h \in Seq(Message) /\ Len(h) = 2 /\ DOMAIN h = 1 .. 2 /\ h[1] = a /\ h[2] = b
  BY <1>1, <1>2
<1> HIDE DEF h
<1>5. \A i \in 1 .. 2 : h[i] = a \/ h[i] = b
  BY <1>4
<1> QED
  BY <1>1, <1>2, <1>3, <1>4, <1>5 DEF Greeted, Silent

(* What has come and what is on the way make one turn, that of a speech    *)
(* alone: what ends it comes last.                                         *)
OneTurn(t, z) ==
  /\ \A i \in DOMAIN z : i >= 3 /\ z[i] = R!Idle => i = Len(z)
  /\ t.clean = R!Clean(z)

(* What the client has judged of a case of which this is told.             *)
Judges(case, score, t) ==
  /\ t.heard # <<>>
  /\ score.command = R!Judged(case.command, R!Recognize(t.heard[1]))
  /\ score.route = R!Judged(case.route, R!Deterministic(t.heard[1], NoTarget).route)
  /\ score.terminal => t.clean \/ Len(t.heard) > 1 \/ case.command = "STOP_SPEAKING"

(* A case that is over is judged by its first final; and unless a command  *)
(* to stop was expected, nothing of a speech alone is left to read.        *)
LEMMA CaseIsJudged ==
  ASSUME NEW case, NEW t, NEW seen \in Seq(Message), NEW rest \in Seq(Message),
         t.heard \in Seq(Speech), t.heard # <<>>, Greeted(seen), Len(seen) >= 3,
         seen[3] = R!Final(t.heard[1]), R!CaseOver(case, seen),
         Len(t.heard) = 1 => OneTurn(t, seen \o rest)
  PROVE  Judges(case, R!CaseScore(case, seen), t)
<1> DEFINE z == seen \o rest
           x == t.heard[1]
           score == R!CaseScore(case, seen)
           finals == {i \in DOMAIN seen : seen[i].type = "STT_FINAL"}
<1>1. x \in Speech
  OBVIOUS
<1>2. ~(Len(t.heard) > 1) => Len(t.heard) = 1
  <2>1. Len(t.heard) \in Nat /\ Len(t.heard) # 0
    OBVIOUS
  <2>2. \A n \in Nat : n # 0 /\ ~(n > 1) => n = 1
    OBVIOUS
  <2> QED
    BY <2>1, <2>2
<1>3. /\ Len(z) = Len(seen) + Len(rest) /\ Len(seen) \in Nat /\ Len(rest) \in Nat
      /\ DOMAIN z = 1 .. Len(seen) + Len(rest) /\ DOMAIN seen = 1 .. Len(seen)
      /\ \A i \in DOMAIN seen : z[i] = seen[i]
  BY Parts
<1>4. 3 \in DOMAIN seen /\ seen[3].type = "STT_FINAL" /\ seen[3].about = x
  <2>1. R!Final(x).type = "STT_FINAL" /\ R!Final(x).about = x
    BY DEF R!Final, R!Event
  <2> HIDE DEF x
  <2>2. seen[3] = R!Final(x)
    BY DEF x
  <2> QED
    BY <1>3, <2>1, <2>2
<1> HIDE DEF z, x
<1>5. R!Min(finals) = 3 /\ finals # {}
  <2>1. 3 \in finals /\ finals \subseteq Nat
    BY <1>3, <1>4
  <2>2. ASSUME NEW i \in finals PROVE 3 <= i
    <3>1. i \in 1 .. Len(seen) /\ seen[i].type = "STT_FINAL"
      BY <1>3
    <3>2. i \notin 1 .. 2
      BY <3>1 DEF Greeted
    <3> QED
      BY <1>3, <3>1, <3>2
  <2> HIDE DEF finals
  <2>3. \A n \in finals : (\A y \in finals : n <= y) => n = 3
    <3> SUFFICES ASSUME NEW n \in finals, \A y \in finals : n <= y PROVE n = 3
      OBVIOUS
    <3>1. n <= 3 /\ 3 <= n /\ n \in Nat
      BY <2>1, <2>2
    <3> QED
      BY <3>1
  <2> QED
    BY <2>1, <2>2, <2>3 DEF R!Min
<1>6. /\ score.command = R!Judged(case.command, R!Recognize(x))
      /\ score.route = R!Judged(case.route, R!Deterministic(x, NoTarget).route)
      /\ score.terminal => ~R!Holds("ERROR", seen)
  BY <1>4, <1>5 DEF R!CaseScore, R!Score
<1> HIDE DEF score
<1>7. ASSUME score.terminal, case.command # "STOP_SPEAKING", Len(t.heard) = 1
      PROVE  t.clean
  <2>1. PICK i \in DOMAIN seen, j \in DOMAIN seen :
          i <= j /\ seen[i].type = "TTS_END" /\ seen[j] = R!Idle
    BY <1>7 DEF R!CaseOver
  <2>2. j \in Nat /\ j >= 3 /\ j <= Len(seen)
    <3>1. i \in 1 .. Len(seen) /\ j \in 1 .. Len(seen)
      BY <1>3, <2>1
    <3>2. i \notin 1 .. 2
      BY <2>1 DEF Greeted
    <3> QED
      BY <1>3, <2>1, <3>1, <3>2
  <2>3. OneTurn(t, z)
    BY <1>7 DEF z
  <2>4. j = Len(z)
    <3>1. j \in DOMAIN z /\ z[j] = R!Idle
      BY <1>3, <2>1, <2>2
    <3> QED
      BY <2>2, <2>3, <3>1 DEF OneTurn
  <2>5. DOMAIN z = DOMAIN seen
    <3>1. Len(z) <= Len(seen)
      BY <2>2, <2>4
    <3>2. Len(rest) = 0
      BY <1>3, <3>1
    <3> QED
      BY <1>3, <3>2
  <2>6. ~R!Holds("ERROR", z)
    BY <1>3, <1>6, <1>7, <2>5 DEF R!Holds
  <2> QED
    BY <2>3, <2>6 DEF OneTurn, R!Clean
<1> QED
  BY <1>2, <1>6, <1>7 DEF Judges, score, x

(* A prompt that is over has been read to its end.                         *)
LEMMA PromptIsRead ==
  ASSUME NEW s, AtEnd(s, Idles), AtEnd(s, Acks),
         NEW seen \in Seq(Message), NEW rest \in Seq(Message),
         seen \o rest = s, seen # <<>>, R!PromptOver(seen)
  PROVE  rest = <<>> /\ (R!Legal(seen) => R!Clean(s))
<1>1. /\ Len(seen) + Len(rest) = Len(s) /\ Len(seen) \in Nat /\ Len(rest) \in Nat
      /\ DOMAIN seen = 1 .. Len(seen) /\ DOMAIN s = 1 .. Len(seen) + Len(rest)
      /\ \A i \in DOMAIN seen : seen[i] = s[i]
      /\ rest = <<>> <=> Len(rest) = 0
      /\ seen = <<>> <=> Len(seen) = 0
  BY Parts
<1>2. PICK i \in DOMAIN seen : seen[i] \in Idles \cup Acks
  <2>1. CASE R!Holds("COMMAND_ACK", seen)
    <3>1. PICK i \in DOMAIN seen : seen[i].type = "COMMAND_ACK"
      BY <2>1 DEF R!Holds
    <3> QED
      BY <3>1 DEF Acks
  <2>2. CASE R!Last(seen) = R!Idle
    <3>1. Len(seen) \in DOMAIN seen /\ seen[Len(seen)] = R!Idle
      BY <1>1, <2>2 DEF R!Last
    <3> QED
      BY <3>1, EventsOf
  <2> QED
    BY <2>1, <2>2 DEF R!PromptOver
<1>3. i = Len(s)
  <2>1. i \in DOMAIN s /\ s[i] \in Idles \cup Acks
    BY <1>1, <1>2
  <2> QED
    BY <2>1 DEF AtEnd
<1>4. Len(seen) = Len(s) /\ rest = <<>>
  <2>1. i \in 1 .. Len(seen)
    BY <1>1, <1>2
  <2>2. Len(seen) + Len(rest) = Len(s) /\ Len(seen) \in Nat /\ Len(rest) \in Nat
    BY <1>1
  <2>3. Len(seen) = Len(s) /\ Len(rest) = 0
    BY <1>3, <2>1, <2>2
  <2> QED
    BY <1>1, <2>3
<1>5. R!Legal(seen) => R!Clean(s)
  <2>1. R!Holds("ERROR", s) => R!Holds("ERROR", seen)
    BY <1>1, <1>4 DEF R!Holds
  <2> QED
    BY <2>1 DEF R!Legal, R!Clean
<1> QED
  BY <1>4, <1>5

(* One list of what is on the way goes on.                                 *)
LEMMA WireMoves ==
  ASSUME NEW w \in Seq(Message) \X Seq(Message), NEW k \in {1, 2}, NEW r \in Seq(Message)
  PROVE  /\ [w EXCEPT ![k] = r] \in Seq(Message) \X Seq(Message)
         /\ [w EXCEPT ![k] = r][k] = r
         /\ k = 1 => [w EXCEPT ![k] = r][2] = w[2]
<1> DEFINE M == Seq(Message)
<1> HIDE DEF M
<1>1. w \in M \X M /\ r \in M
  BY DEF M
<1>2. /\ [w EXCEPT ![k] = r] \in M \X M
      /\ [w EXCEPT ![k] = r][k] = r
      /\ k = 1 => [w EXCEPT ![k] = r][2] = w[2]
  BY <1>1
<1> QED
  BY <1>2 DEF M

(* The scores that a case can have, and the types.                         *)
Scored == {R!CaseScore(Corpus[i], seen) : i \in DOMAIN Corpus, seen \in Seq(Message)}
Tellings == [heard : Seq(Speech), clean : BOOLEAN]

ReleaseTypes ==
  /\ stage \in {"voice", "text", "pass", "fail"} /\ reading \in BOOLEAN
  /\ wire \in Seq(Message) \X Seq(Message) /\ events \in Seq(Message)
  /\ told \in Seq(Tellings) /\ scores \in Seq(Scored) /\ legal \in Seq(BOOLEAN)

(* While a case is read of which this is told: the first final is the      *)
(* third event, whether it has come or not.                                *)
Awaits(t) ==
  /\ Greeted(events)
  /\ t.heard = <<>> => wire[2] = <<>> /\ Silent(events) /\ Silent(wire[1])
  /\ t.heard # <<>> =>
       \/ Len(events) = 2 /\ wire[1] # <<>> /\ wire[1][1] = R!Final(t.heard[1])
       \/ Len(events) >= 3 /\ events[3] = R!Final(t.heard[1])
  /\ Len(t.heard) = 1 => wire[2] = <<>> /\ OneTurn(t, events \o wire[1])

(* How far it is: the cases, whose turns may have been left before they    *)
(* were read to the end, but each on a connection of its own, ...          *)
Voice ==
  /\ legal = <<>> /\ Len(scores) = turn - 1 /\ turn \in 1 .. Len(Corpus) + 1
  /\ ~reading => Len(told) = turn - 1 /\ wire = R!NoneLeft
  /\ reading => turn \in DOMAIN Corpus /\ Len(told) = turn /\ Awaits(told[turn])

(* ... and the prompts, all on one: what is on the wire is of this turn.   *)
OnePrompt(t, z) == AtEnd(z, Idles) /\ AtEnd(z, Acks) /\ t.clean = R!Clean(z)

Typed ==
  /\ Len(scores) = Len(Corpus) /\ Len(legal) = turn - 1 /\ turn \in 1 .. Len(Prompts) + 1
  /\ ~reading => Len(told) = Len(Corpus) + turn - 1 /\ wire = R!NoneLeft
  /\ reading => /\ turn \in DOMAIN Prompts /\ Len(told) = Len(Corpus) + turn
                /\ wire[2] = <<>> /\ OnePrompt(told[Len(told)], events \o wire[1])

(* What was judged is right of what was sent.                              *)
Judged ==
  /\ \A i \in DOMAIN scores : Judges(Corpus[i], scores[i], told[i])
  /\ \A i \in DOMAIN legal : legal[i] => told[Len(Corpus) + i].clean

ReleaseInv ==
  /\ ReleaseTypes
  /\ stage = "voice" => Voice /\ Judged
  /\ stage = "text" => Typed /\ Judged
  /\ stage \in {"pass", "fail"} => ~reading
  /\ R!PassIsEarned

LEMMA SeqGrows ==
  ASSUME NEW S, NEW q \in Seq(S), NEW e \in S
  PROVE  /\ Append(q, e) \in Seq(S) /\ Len(Append(q, e)) = Len(q) + 1 /\ Len(q) \in Nat
         /\ DOMAIN Append(q, e) = 1 .. Len(q) + 1 /\ DOMAIN q = 1 .. Len(q)
         /\ \A i \in 1 .. Len(q) : Append(q, e)[i] = q[i]
         /\ Append(q, e)[Len(q) + 1] = e
OBVIOUS

LEMMA NoneLeftIs ==
  /\ R!NoneLeft \in Seq(Message) \X Seq(Message)
  /\ R!NoneLeft[1] = <<>> /\ R!NoneLeft[2] = <<>>
  /\ \A w \in Seq(Message) \X Seq(Message) : w[1] = <<>> /\ w[2] = <<>> => w = R!NoneLeft
<1> DEFINE none == <<>>
           M == Seq(Message)
<1>1. none \in M
  OBVIOUS
<1>2. R!NoneLeft = <<none, none>>
  BY DEF R!NoneLeft
<1> HIDE DEF none, M
<1>3. R!NoneLeft \in M \X M /\ R!NoneLeft[1] = none /\ R!NoneLeft[2] = none
  BY <1>1, <1>2
<1>4. \A w \in M \X M : w[1] = none /\ w[2] = none => w = R!NoneLeft
  BY <1>2
<1> QED
  BY <1>3, <1>4 DEF none, M

(* The judgements stay when another turn begins.                           *)
LEMMA BeginsJudged ==
  ASSUME ReleaseTypes, Judged, NEW t \in Tellings, told' = Append(told, t),
         Len(told) = Len(scores) + Len(legal), legal # <<>> => Len(scores) = Len(Corpus),
         UNCHANGED <<scores, legal>>
  PROVE  Judged'
<1>1. /\ DOMAIN scores = 1 .. Len(scores) /\ DOMAIN legal = 1 .. Len(legal)
      /\ Len(scores) \in Nat /\ Len(legal) \in Nat /\ (legal = <<>> => Len(legal) = 0)
  BY DEF ReleaseTypes
<1>2. \A i \in 1 .. Len(told) : told'[i] = told[i]
  BY SeqGrows DEF ReleaseTypes
<1>3. \A i \in DOMAIN scores : i \in 1 .. Len(told)
  BY <1>1
<1>4. \A i \in DOMAIN legal : Len(Corpus) + i \in 1 .. Len(told)
  <2>1. CASE legal = <<>>
    BY <1>1, <2>1
  <2>2. CASE legal # <<>>
    BY <1>1, <2>2
  <2> QED
    BY <2>1, <2>2
<1>5. ASSUME NEW i \in DOMAIN legal' PROVE legal'[i] => told'[Len(Corpus) + i].clean
  BY <1>2, <1>4 DEF Judged
<1>6. ASSUME NEW i \in DOMAIN scores' PROVE Judges(Corpus[i], scores'[i], told'[i])
  BY <1>2, <1>3 DEF Judged
<1> QED
  BY <1>5, <1>6 DEF Judged

(* A recording is sent: what comes of it follows the greeting.             *)
LEMMA AwaitsAnswer ==
  ASSUME NEW heard \in Seq(Speech), NEW w \in R!Turn(heard), wire' = w, events' = R!Hello
  PROVE  Awaits(R!Told(heard, w))'
<1> DEFINE t == R!Told(heard, w)
           h == R!Hello
           v == w[1]
           z == h \o v
<1>1. /\ w \in Seq(Message) \X Seq(Message) /\ v \in Seq(Message)
      /\ heard = <<>> => Silent(v) /\ w[2] = <<>>
      /\ heard # <<>> => v # <<>> /\ v[1] = R!Final(heard[1])
      /\ Len(heard) = 1 => w[2] = <<>> /\ AtEnd(v, Idles)
  BY TurnIsSent
<1>2. t.heard = heard /\ t.clean = (R!Clean(v) /\ R!Clean(w[2]))
  BY DEF R!Told
<1>3. h \in Seq(Message) /\ Len(h) = 2 /\ Greeted(h) /\ Silent(h)
  BY HelloIs
<1>4. ASSUME Len(heard) = 1 PROVE OneTurn(t, z)
  <2>1. /\ Len(z) = 2 + Len(v) /\ Len(v) \in Nat /\ DOMAIN z = 1 .. 2 + Len(v)
        /\ DOMAIN v = 1 .. Len(v) /\ \A i \in 1 .. 2 : z[i] = h[i]
        /\ \A i \in DOMAIN v : z[i + 2] = v[i]
    <3> HIDE DEF h, v, z
    <3>1. /\ Len(z) = Len(h) + Len(v) /\ Len(v) \in Nat /\ DOMAIN z = 1 .. Len(h) + Len(v)
          /\ DOMAIN v = 1 .. Len(v) /\ DOMAIN h = 1 .. Len(h) /\ \A i \in DOMAIN h : z[i] = h[i]
          /\ \A i \in DOMAIN v : z[i + Len(h)] = v[i]
      BY <1>1, <1>3, Parts DEF z
    <3> QED
      BY <1>3, <3>1
  <2> HIDE DEF h, v, z
  <2>2. \A i \in DOMAIN z : i >= 3 => \E j \in DOMAIN v : i = j + 2 /\ z[i] = v[j]
    <3> SUFFICES ASSUME NEW i \in DOMAIN z, i >= 3
                 PROVE  \E j \in DOMAIN v : i = j + 2 /\ z[i] = v[j]
      OBVIOUS
    <3>1. i - 2 \in DOMAIN v /\ i = (i - 2) + 2
      BY <2>1
    <3> QED
      BY <2>1, <3>1
  <2>3. \A i \in DOMAIN z : i >= 3 /\ z[i] = R!Idle => i = Len(z)
    BY <1>1, <1>4, <2>1, <2>2, EventsOf DEF AtEnd
  <2>4. R!Clean(z) <=> R!Clean(v)
    <3>1. ASSUME NEW i \in DOMAIN z, z[i].type = "ERROR"
          PROVE  \E j \in DOMAIN v : v[j].type = "ERROR"
      <4>1. i \notin 1 .. 2
        BY <1>3, <2>1, <3>1 DEF Greeted
      <4>2. i >= 3
        BY <2>1, <4>1
      <4> QED
        BY <2>2, <3>1, <4>2
    <3>2. ASSUME NEW j \in DOMAIN v, v[j].type = "ERROR"
          PROVE  \E i \in DOMAIN z : z[i].type = "ERROR"
      <4>1. j + 2 \in DOMAIN z
        BY <2>1
      <4> QED
        BY <2>1, <3>2, <4>1
    <3> QED
      BY <3>1, <3>2 DEF R!Clean, R!Holds
  <2>5. R!Clean(w[2])
    BY <1>1, <1>4 DEF R!Clean, R!Holds
  <2>6. R!Clean(z) \in BOOLEAN /\ R!Clean(v) \in BOOLEAN /\ R!Clean(w[2]) \in BOOLEAN
    BY DEF R!Clean
  <2>7. t.clean = R!Clean(z)
    BY <1>2, <2>4, <2>5, <2>6
  <2> QED
    BY <2>3, <2>7 DEF OneTurn
<1>5. wire' = w /\ events' = h /\ wire'[1] = v /\ events' \o wire'[1] = z
  OBVIOUS
<1> HIDE DEF t, h, v, z
<1>6. Awaits(t)'
  BY <1>1, <1>2, <1>3, <1>4, <1>5 DEF Awaits
<1> QED
  BY <1>6 DEF t

LEMMA OpensCase ==
  ASSUME ReleaseInv, R!OpenCase
  PROVE  ReleaseInv'
<1>1. /\ stage = "voice" /\ ~reading /\ turn \in DOMAIN Corpus /\ Voice /\ Judged /\ ReleaseTypes
      /\ reading' = TRUE /\ events' = R!Hello /\ UNCHANGED <<stage, turn, scores, legal>>
  BY DEF R!OpenCase, ReleaseInv
<1>2. PICK heard \in Corpus[turn].heard :
        \E sent \in R!Turn(heard) : wire' = sent /\ told' = Append(told, R!Told(heard, sent))
  BY DEF R!OpenCase
<1>3. PICK sent \in R!Turn(heard) : wire' = sent /\ told' = Append(told, R!Told(heard, sent))
  BY <1>2
<1> DEFINE t == R!Told(heard, sent)
<1>4. heard \in Seq(Speech)
  BY <1>1, <1>2, CorpusIs
<1>5. sent \in Seq(Message) \X Seq(Message) /\ t \in Tellings
  <2>1. sent \in Seq(Message) \X Seq(Message)
    BY <1>3, <1>4, TurnIsSent
  <2>2. R!Clean(sent[1]) \in BOOLEAN /\ R!Clean(sent[2]) \in BOOLEAN
    BY DEF R!Clean
  <2> QED
    BY <1>4, <2>1, <2>2 DEF R!Told, Tellings
<1>6. Awaits(t)'
  BY <1>1, <1>3, <1>4, AwaitsAnswer
<1>7. told' = Append(told, t)
  BY <1>3
<1> HIDE DEF t
<1>8. told' \in Seq(Tellings) /\ Len(told') = turn /\ told'[turn] = t
  <2>1. Len(told) = turn - 1 /\ turn \in Nat
    BY <1>1, CorpusIs DEF Voice
  <2>2. /\ told' \in Seq(Tellings) /\ Len(told') = Len(told) + 1 /\ Len(told) \in Nat
        /\ told'[Len(told) + 1] = t
    BY <1>1, <1>5, <1>7, SeqGrows DEF ReleaseTypes
  <2>3. turn = Len(told) + 1
    BY <2>1, <2>2
  <2> QED
    BY <2>2, <2>3
<1>9. ReleaseTypes'
  BY <1>1, <1>3, <1>5, <1>8, HelloIs DEF ReleaseTypes
<1>10. Voice'
  <2>1. Awaits(told[turn])'
    <3>1. told'[turn'] = t'
      BY <1>1, <1>8 DEF t
    <3> QED
      BY <1>6, <3>1 DEF Awaits
  <2> QED
    BY <1>1, <1>8, <2>1 DEF Voice
<1>11. Judged'
  <2>1. Len(told) = Len(scores) + Len(legal) /\ legal = <<>>
    BY <1>1, CorpusIs DEF Voice
  <2> QED
    BY <1>1, <1>5, <1>7, <2>1, BeginsJudged
<1> QED
  BY <1>1, <1>9, <1>10, <1>11 DEF ReleaseInv, R!PassIsEarned

(* An event of a case is read, the first final before all others.          *)
LEMMA ReadsEvent ==
  ASSUME ReleaseTypes, NEW t \in Tellings, Awaits(t), NEW k \in {1, 2}, R!Comes(k)
  PROVE  LET seen == Append(events, Head(wire[k]))
             rest == Tail(wire[k])
         IN  /\ seen \in Seq(Message) /\ rest \in Seq(Message)
             /\ Greeted(seen) /\ Len(seen) >= 3
             /\ t.heard = <<>> => k = 1 /\ Silent(seen) /\ Silent(rest)
             /\ t.heard # <<>> => seen[3] = R!Final(t.heard[1])
             /\ Len(t.heard) = 1 => k = 1 /\ seen \o rest = events \o wire[1]
<1> DEFINE v == wire[k]
           seen == Append(events, Head(v))
           rest == Tail(v)
<1>1. v \in Seq(Message) /\ events \in Seq(Message) /\ v # <<>>
  BY DEF ReleaseTypes, R!Comes
<1>2. k = 1 => v = wire[1]
  OBVIOUS
<1>3. wire[2] = <<>> => k = 1
  BY <1>1
<1>4. k = 2 /\ wire[1] # <<>> => Head(wire[1]).type # "STT_FINAL"
  BY DEF R!Comes
<1> HIDE DEF v, seen, rest
<1>5. /\ seen \in Seq(Message) /\ rest \in Seq(Message) /\ Len(seen) = Len(events) + 1
      /\ seen \o rest = events \o v
      /\ Len(events) \in Nat /\ Len(v) \in Nat /\ Len(seen) \in Nat
      /\ DOMAIN seen = 1 .. Len(seen) /\ DOMAIN v = 1 .. Len(v)
      /\ DOMAIN events = 1 .. Len(events) /\ 1 \in DOMAIN v
      /\ \A i \in DOMAIN events : seen[i] = events[i]
      /\ seen[Len(events) + 1] = v[1]
      /\ \A i \in DOMAIN rest : i + 1 \in DOMAIN v /\ rest[i] = v[i + 1]
  <2>1. /\ seen \in Seq(Message) /\ rest \in Seq(Message) /\ Len(seen) = Len(events) + 1
        /\ seen \o rest = events \o v
        /\ Len(events) \in Nat /\ Len(v) \in Nat
        /\ DOMAIN v = 1 .. Len(v) /\ DOMAIN events = 1 .. Len(events)
        /\ \A i \in DOMAIN events : seen[i] = events[i]
        /\ seen[Len(events) + 1] = v[1]
        /\ \A i \in DOMAIN rest : i + 1 \in DOMAIN v /\ rest[i] = v[i + 1]
    BY <1>1, ReadMoves DEF seen, rest
  <2>2. Len(seen) \in Nat /\ DOMAIN seen = 1 .. Len(seen)
    BY <2>1
  <2>3. 1 \in DOMAIN v
    BY <1>1
  <2> QED
    BY <2>1, <2>2, <2>3
<1>6. Greeted(seen) /\ Len(seen) >= 3
  <2>1. Len(events) >= 2 /\ \A i \in 1 .. 2 : events[i].type \in {"AGENT_MANIFEST", "AGENT_STATE"}
    BY DEF Awaits, Greeted
  <2>2. \A i \in 1 .. 2 : i \in DOMAIN events /\ seen[i] = events[i]
    BY <1>5, <2>1
  <2>3. Len(seen) >= 3
    BY <1>5, <2>1
  <2> QED
    BY <1>5, <2>1, <2>2, <2>3 DEF Greeted
<1>7. ASSUME t.heard = <<>> PROVE k = 1 /\ Silent(seen) /\ Silent(rest)
  <2>1. k = 1 /\ Silent(events) /\ Silent(v)
    BY <1>2, <1>3, <1>7 DEF Awaits
  <2>2. \A i \in DOMAIN seen : i \in DOMAIN events \/ i = Len(events) + 1
    BY <1>5
  <2> QED
    BY <1>5, <2>1, <2>2 DEF Silent
<1>8. ASSUME t.heard # <<>> PROVE seen[3] = R!Final(t.heard[1])
  <2> DEFINE f == R!Final(t.heard[1])
  <2>1. f.type = "STT_FINAL"
    BY DEF R!Final, R!Event
  <2>2. \/ Len(events) = 2 /\ wire[1] # <<>> /\ wire[1][1] = f
        \/ Len(events) >= 3 /\ events[3] = f
    BY <1>8 DEF Awaits
  <2> HIDE DEF f
  <2>3. CASE Len(events) = 2 /\ wire[1] # <<>> /\ wire[1][1] = f
    <3>1. wire[1] \in Seq(Message)
      BY DEF ReleaseTypes
    <3>2. Head(wire[1]) = wire[1][1]
      BY <2>3, <3>1
    <3>3. k = 1
      BY <1>4, <2>1, <2>3, <3>2
    <3> QED
      BY <1>2, <1>5, <2>3, <3>3 DEF f
  <2>4. CASE Len(events) >= 3 /\ events[3] = f
    <3>1. 3 \in DOMAIN events
      BY <1>5, <2>4
    <3> QED
      BY <1>5, <2>4, <3>1 DEF f
  <2> QED
    BY <2>2, <2>3, <2>4
<1>9. ASSUME Len(t.heard) = 1 PROVE k = 1 /\ seen \o rest = events \o wire[1]
  BY <1>2, <1>3, <1>5, <1>9 DEF Awaits
<1> QED
  BY <1>5, <1>6, <1>7, <1>8, <1>9 DEF v, seen, rest

(* The turn at hand is the newest one that was begun.                      *)
LEMMA ReadsCase ==
  ASSUME ReleaseInv, R!ReadCase
  PROVE  ReleaseInv'
<1>1. /\ stage = "voice" /\ reading /\ Voice /\ Judged /\ ReleaseTypes
      /\ UNCHANGED <<stage, legal, told>>
  BY DEF R!ReadCase, ReleaseInv
<1>2. PICK k \in {1, 2} :
        /\ R!Comes(k)
        /\ LET seen == Append(events, Head(wire[k]))
               ends == R!CaseOver(Corpus[turn], seen)
           IN  /\ reading' = ~ends
               /\ wire' = IF ends THEN R!NoneLeft ELSE [wire EXCEPT ![k] = Tail(@)]
               /\ events' = IF ends THEN <<>> ELSE seen
               /\ scores' = IF ends THEN Append(scores, R!CaseScore(Corpus[turn], seen)) ELSE scores
               /\ turn' = IF ends THEN turn + 1 ELSE turn
  BY DEF R!ReadCase
<1> DEFINE case == Corpus[turn]
           t == told[turn]
           seen == Append(events, Head(wire[k]))
           rest == Tail(wire[k])
           score == R!CaseScore(case, seen)
<1>3. /\ R!CaseOver(case, seen) =>
           /\ reading' = FALSE /\ wire' = R!NoneLeft /\ events' = <<>>
           /\ scores' = Append(scores, score) /\ turn' = turn + 1
      /\ ~R!CaseOver(case, seen) =>
           /\ reading' = TRUE /\ wire' = [wire EXCEPT ![k] = rest] /\ events' = seen
           /\ scores' = scores /\ turn' = turn
  BY <1>2
<1>4. /\ turn \in DOMAIN Corpus /\ turn \in 1 .. Len(Corpus) /\ Len(Corpus) \in Nat
      /\ Len(told) = turn /\ Len(scores) = turn - 1 /\ legal = <<>> /\ Awaits(t)
  BY <1>1, CorpusIs DEF Voice
<1>5. t \in Tellings
  <2>1. turn \in DOMAIN told
    BY <1>1, <1>4 DEF ReleaseTypes
  <2> QED
    BY <1>1, <2>1 DEF ReleaseTypes
<1>6. /\ seen \in Seq(Message) /\ rest \in Seq(Message) /\ Greeted(seen) /\ Len(seen) >= 3
      /\ t.heard = <<>> => k = 1 /\ Silent(seen) /\ Silent(rest)
      /\ t.heard # <<>> => seen[3] = R!Final(t.heard[1])
      /\ Len(t.heard) = 1 => k = 1 /\ seen \o rest = events \o wire[1]
  BY <1>1, <1>2, <1>4, <1>5, ReadsEvent
<1>7. score \in Scored
  <2>1. \A i \in DOMAIN Corpus, s \in Seq(Message) : R!CaseScore(Corpus[i], s) \in Scored
    BY DEF Scored
  <2> QED
    BY <1>4, <1>6, <2>1
<1>8. t.heard \in Seq(Speech)
  BY <1>5 DEF Tellings
<1>9. Len(t.heard) = 1 => wire[2] = <<>> /\ OneTurn(t, events \o wire[1])
  BY <1>4 DEF Awaits
<1>10. t.heard = <<>> => wire[2] = <<>>
  BY <1>4 DEF Awaits
<1> HIDE DEF case, t, seen, rest, score
<1>11. CASE ~R!CaseOver(case, seen)
  <2>1. /\ wire' \in Seq(Message) \X Seq(Message) /\ wire'[k] = rest
        /\ k = 1 => wire'[2] = wire[2]
    <3>1. wire \in Seq(Message) \X Seq(Message)
      BY <1>1 DEF ReleaseTypes
    <3> DEFINE w == wire
               u == [w EXCEPT ![k] = rest]
    <3>2. wire' = u
      BY <1>3, <1>11
    <3>3. w \in Seq(Message) \X Seq(Message)
      BY <3>1
    <3>5. rest \in Seq(Message)
      BY <1>6
    <3> HIDE DEF w
    <3>4. u \in Seq(Message) \X Seq(Message) /\ u[k] = rest /\ (k = 1 => u[2] = w[2])
      BY <3>3, <3>5, WireMoves
    <3> HIDE DEF u
    <3> QED
      BY <3>2, <3>4 DEF w
  <2>2. ReleaseTypes'
    BY <1>1, <1>3, <1>6, <1>11, <2>1 DEF ReleaseTypes
  <2>3. Voice'
    <3>1. reading' = TRUE /\ turn' = turn /\ scores' = scores /\ events' = seen
      BY <1>3, <1>11
    <3>2. told'[turn'] = t
      BY <1>1, <3>1 DEF t
    <3>3. Len(t.heard) = 1 => wire'[2] = <<>> /\ OneTurn(t, seen \o wire'[1])
      BY <1>6, <1>9, <2>1
    <3>4. t.heard = <<>> => wire'[2] = <<>> /\ Silent(seen) /\ Silent(wire'[1])
      BY <1>6, <1>10, <2>1
    <3>5. t.heard # <<>> => Len(seen) >= 3 /\ seen[3] = R!Final(t.heard[1])
      BY <1>6
    <3>6. Awaits(told[turn])'
      BY <1>6, <3>1, <3>2, <3>3, <3>4, <3>5 DEF Awaits
    <3> QED
      BY <1>1, <1>4, <3>1, <3>6 DEF Voice
  <2>4. Judged'
    BY <1>1, <1>3, <1>11 DEF Judged
  <2> QED
    BY <1>1, <2>2, <2>3, <2>4 DEF ReleaseInv, R!PassIsEarned
<1>12. CASE R!CaseOver(case, seen)
  <2>1. t.heard # <<>>
    <3>1. ~Silent(seen)
      BY <1>12 DEF Silent, R!CaseOver, R!Holds
    <3> QED
      BY <1>6, <3>1
  <2>2. Judges(case, score, t)
    <3>1. Len(t.heard) = 1 => OneTurn(t, seen \o rest)
      BY <1>6, <1>9
    <3> QED
      BY <1>6, <1>8, <1>12, <2>1, <3>1, CaseIsJudged DEF score
  <2>3. /\ scores' \in Seq(Scored) /\ Len(scores') = turn /\ DOMAIN scores' = 1 .. turn
        /\ \A i \in 1 .. turn - 1 : scores'[i] = scores[i]
        /\ scores'[turn] = score /\ DOMAIN scores = 1 .. turn - 1
    <3>1. turn - 1 + 1 = turn
      BY <1>4
    <3>2. scores' = Append(scores, score)
      BY <1>3, <1>12
    <3>3. scores \in Seq(Scored)
      BY <1>1 DEF ReleaseTypes
    <3> HIDE DEF Scored
    <3> QED
      BY <1>4, <1>7, <3>1, <3>2, <3>3, SeqGrows
  <2>4. ReleaseTypes'
    BY <1>1, <1>3, <1>12, <2>3, NoneLeftIs DEF ReleaseTypes
  <2>5. Voice'
    <3>1. turn + 1 \in 1 .. Len(Corpus) + 1 /\ turn + 1 - 1 = turn
      BY <1>4
    <3>2. /\ reading' = FALSE /\ turn' = turn + 1 /\ legal' = legal /\ told' = told
          /\ wire' = R!NoneLeft
      BY <1>1, <1>3, <1>12
    <3> QED
      BY <1>4, <2>3, <3>1, <3>2 DEF Voice
  <2>6. Judged'
    <3>1. ASSUME NEW i \in DOMAIN scores' PROVE Judges(Corpus[i], scores'[i], told'[i])
      <4>1. i \in 1 .. turn - 1 \/ i = turn
        BY <1>4, <2>3
      <4>2. CASE i \in 1 .. turn - 1
        BY <1>1, <2>3, <4>2 DEF Judged
      <4>3. CASE i = turn
        BY <1>1, <2>2, <2>3, <4>3 DEF case, t
      <4> QED
        BY <4>1, <4>2, <4>3
    <3>2. DOMAIN legal' = {}
      BY <1>1, <1>4
    <3> QED
      BY <3>1, <3>2 DEF Judged
  <2> QED
    BY <1>1, <2>4, <2>5, <2>6 DEF ReleaseInv, R!PassIsEarned
<1> QED
  BY <1>11, <1>12

LEMMA StartsPrompts ==
  ASSUME ReleaseInv, R!StartPrompts
  PROVE  ReleaseInv'
<1>1. /\ stage = "voice" /\ turn > Len(Corpus) /\ Voice /\ Judged /\ ReleaseTypes
      /\ stage' = "text" /\ turn' = 1
      /\ UNCHANGED <<reading, wire, events, scores, legal, told>>
  BY DEF R!StartPrompts, ReleaseInv
<1>2. ~reading /\ wire = R!NoneLeft /\ Len(told) = turn - 1 /\ turn = Len(Corpus) + 1
  BY <1>1, CorpusIs DEF Voice
<1>3. ReleaseTypes' /\ Judged'
  BY <1>1 DEF ReleaseTypes, Judged
<1>4. Typed'
  <2>1. Len(Prompts) \in Nat /\ Len(legal) = 0 /\ Len(Corpus) \in Nat
    BY <1>1, CorpusIs DEF Voice
  <2>2. /\ turn' - 1 = 0 /\ turn' \in 1 .. Len(Prompts) + 1
        /\ Len(Corpus) + turn' - 1 = Len(Corpus) /\ turn - 1 = Len(Corpus)
    BY <1>1, <1>2, <2>1
  <2> QED
    BY <1>1, <1>2, <2>1, <2>2 DEF Voice, Typed
<1> QED
  BY <1>1, <1>2, <1>3, <1>4 DEF ReleaseInv, R!PassIsEarned

LEMMA SendsPrompt ==
  ASSUME ReleaseInv, R!SendPrompt
  PROVE  ReleaseInv'
<1>1. /\ stage = "text" /\ ~reading /\ turn \in DOMAIN Prompts /\ Typed /\ Judged /\ ReleaseTypes
      /\ reading' = TRUE /\ events' = <<>> /\ UNCHANGED <<stage, turn, scores, legal>>
  BY DEF R!SendPrompt, ReleaseInv
<1> DEFINE heard == <<Prompts[turn]>>
           n == Len(Corpus) + turn
<1>2. PICK sent \in R!Turn(heard) :
        wire' = [wire EXCEPT ![1] = @ \o sent[1]] /\ told' = Append(told, R!Told(heard, sent))
  BY DEF R!SendPrompt
<1> DEFINE t == R!Told(heard, sent)
           v == sent[1]
<1>3. /\ Len(told) = n - 1 /\ n \in Nat /\ wire = R!NoneLeft /\ Len(legal) = turn - 1
      /\ Len(scores) = Len(Corpus) /\ Len(Corpus) \in Nat /\ turn \in Nat
  <2>1. turn \in Nat /\ Len(Corpus) \in Nat
    BY <1>1, CorpusIs
  <2>2. Len(told) = n - 1
    BY <1>1, <2>1 DEF Typed
  <2> QED
    BY <1>1, <2>1, <2>2 DEF Typed
<1>4. /\ v \in Seq(Message) /\ t \in Tellings /\ OnePrompt(t, v)
  <2>1. heard \in Seq(Speech) /\ Len(heard) = 1
    BY <1>1, CorpusIs
  <2> HIDE DEF heard
  <2>2. /\ sent \in Seq(Message) \X Seq(Message) /\ sent[2] = <<>>
        /\ AtEnd(v, Idles) /\ AtEnd(v, Acks)
    BY <1>2, <2>1, TurnIsSent
  <2>3. R!Clean(sent[2]) /\ R!Clean(v) \in BOOLEAN
    BY <2>2 DEF R!Clean, R!Holds
  <2>4. t.heard = heard /\ t.clean = R!Clean(v) /\ t \in Tellings
    BY <2>1, <2>3 DEF R!Told, Tellings
  <2> QED
    BY <2>2, <2>4 DEF OnePrompt
<1>5. wire' \in Seq(Message) \X Seq(Message) /\ wire'[1] = v /\ wire'[2] = <<>>
  <2> DEFINE w == wire
  <2>1. w \in Seq(Message) \X Seq(Message) /\ w[1] = <<>> /\ w[2] = <<>>
    BY <1>3, NoneLeftIs
  <2>2. w[1] \o v = v
    BY <1>4, <2>1
  <2>3. wire' = [w EXCEPT ![1] = w[1] \o v]
    BY <1>2
  <2> HIDE DEF w, v
  <2>4. wire' = [w EXCEPT ![1] = v]
    BY <2>2, <2>3
  <2> QED
    BY <1>4, <2>1, <2>4, WireMoves
<1> HIDE DEF heard, t, v
<1>6. told' = Append(told, t)
  BY <1>2 DEF t
<1>7. told' \in Seq(Tellings) /\ Len(told') = n /\ told'[n] = t
  <2>1. n - 1 + 1 = n
    BY <1>3
  <2>2. /\ told' \in Seq(Tellings) /\ Len(told') = Len(told) + 1 /\ Len(told) \in Nat
        /\ told'[Len(told) + 1] = t
    BY <1>1, <1>4, <1>6, SeqGrows DEF ReleaseTypes
  <2> QED
    BY <1>3, <2>1, <2>2
<1>8. ReleaseTypes'
  BY <1>1, <1>5, <1>7 DEF ReleaseTypes
<1>9. Typed'
  <2>1. events' \o wire'[1] = v
    BY <1>1, <1>4, <1>5
  <2>2. OnePrompt(told'[Len(told')], events' \o wire'[1])
    BY <1>4, <1>7, <2>1
  <2> QED
    BY <1>1, <1>5, <1>7, <2>2 DEF Typed, n
<1>10. Judged'
  <2>1. Len(told) = Len(scores) + Len(legal)
    BY <1>3 DEF n
  <2> QED
    BY <1>1, <1>3, <1>4, <1>6, <2>1, BeginsJudged
<1> QED
  BY <1>1, <1>8, <1>9, <1>10 DEF ReleaseInv, R!PassIsEarned

LEMMA ReadsPrompt ==
  ASSUME ReleaseInv, R!ReadPrompt
  PROVE  ReleaseInv'
<1> DEFINE n == Len(Corpus) + turn
           t == told[Len(told)]
           v == wire[1]
           z == events \o v
           seen == Append(events, Head(v))
           rest == Tail(v)
<1>1. /\ stage = "text" /\ reading /\ v # <<>> /\ Typed /\ Judged /\ ReleaseTypes
      /\ wire' = [wire EXCEPT ![1] = rest] /\ UNCHANGED <<stage, scores, told>>
  BY DEF R!ReadPrompt, ReleaseInv
<1>2. /\ reading' = ~R!PromptOver(seen)
      /\ R!PromptOver(seen) =>
           events' = <<>> /\ legal' = Append(legal, R!Legal(seen)) /\ turn' = turn + 1
      /\ ~R!PromptOver(seen) => events' = seen /\ legal' = legal /\ turn' = turn
  BY DEF R!ReadPrompt
<1>3. /\ seen \in Seq(Message) /\ rest \in Seq(Message) /\ seen \o rest = z /\ seen # <<>>
  <2>1. events \in Seq(Message) /\ v \in Seq(Message)
    BY <1>1 DEF ReleaseTypes
  <2> HIDE DEF seen, rest
  <2>2. \A s, q \in Seq(Message) : q # <<>> =>
          /\ Append(s, Head(q)) \in Seq(Message) /\ Tail(q) \in Seq(Message)
          /\ Append(s, Head(q)) # <<>> /\ Append(s, Head(q)) \o Tail(q) = s \o q
    BY ReadMoves
  <2> HIDE DEF v
  <2> QED
    BY <1>1, <2>1, <2>2, Zenon DEF seen, rest, z
<1> HIDE DEF seen, rest
<1>4. /\ turn \in DOMAIN Prompts /\ turn \in 1 .. Len(Prompts) /\ Len(Prompts) \in Nat
      /\ Len(Corpus) \in Nat /\ Len(told) = n /\ Len(legal) = turn - 1
      /\ Len(scores) = Len(Corpus) /\ wire[2] = <<>> /\ OnePrompt(t, z)
  BY <1>1, CorpusIs DEF Typed
<1>5. /\ wire' \in Seq(Message) \X Seq(Message) /\ wire'[1] = rest /\ wire'[2] = <<>>
  <2> DEFINE w == wire
             u == [w EXCEPT ![1] = rest]
  <2>1. w \in Seq(Message) \X Seq(Message) /\ wire' = u /\ w[2] = <<>>
    BY <1>1, <1>4 DEF ReleaseTypes
  <2> HIDE DEF w
  <2>2. u \in Seq(Message) \X Seq(Message) /\ u[1] = rest /\ u[2] = w[2]
    BY <1>3, <2>1, WireMoves
  <2> HIDE DEF u
  <2> QED
    BY <2>1, <2>2
<1>6. R!Legal(seen) \in BOOLEAN
  BY DEF R!Legal
<1> DEFINE ok == R!Legal(seen)
<1> HIDE DEF v, z, seen, rest, t, n, ok
<1>7. CASE ~R!PromptOver(seen)
  <2>1. ReleaseTypes'
    BY <1>1, <1>2, <1>3, <1>5, <1>7 DEF ReleaseTypes
  <2>2. Typed'
    <3>1. events' \o wire'[1] = z /\ told'[Len(told')] = t
      BY <1>1, <1>2, <1>3, <1>5, <1>7 DEF t
    <3> QED
      BY <1>1, <1>2, <1>4, <1>5, <1>7, <3>1 DEF Typed, n
  <2>3. Judged'
    BY <1>1, <1>2, <1>7 DEF Judged
  <2> QED
    BY <1>1, <1>2, <1>7, <2>1, <2>2, <2>3 DEF ReleaseInv, R!PassIsEarned
<1>8. CASE R!PromptOver(seen)
  <2>1. rest = <<>> /\ (ok => t.clean)
    <3>1. AtEnd(z, Idles) /\ AtEnd(z, Acks) /\ t.clean = R!Clean(z)
      BY <1>4 DEF OnePrompt
    <3> QED
      BY <1>3, <1>8, <3>1, PromptIsRead DEF ok
  <2>2. /\ legal' \in Seq(BOOLEAN) /\ Len(legal') = turn /\ DOMAIN legal' = 1 .. turn
        /\ \A i \in 1 .. turn - 1 : legal'[i] = legal[i]
        /\ legal'[turn] = ok /\ DOMAIN legal = 1 .. turn - 1
    <3>1. turn - 1 + 1 = turn
      BY <1>4
    <3>2. legal' = Append(legal, ok) /\ ok \in BOOLEAN
      BY <1>2, <1>6, <1>8 DEF ok
    <3>3. legal \in Seq(BOOLEAN)
      BY <1>1 DEF ReleaseTypes
    <3> QED
      BY <1>4, <3>1, <3>2, <3>3, SeqGrows
  <2>3. wire' = R!NoneLeft
    BY <1>5, <2>1, NoneLeftIs
  <2>4. ReleaseTypes'
    BY <1>1, <1>2, <1>5, <1>8, <2>2 DEF ReleaseTypes
  <2>5. Typed'
    <3>1. /\ turn + 1 \in 1 .. Len(Prompts) + 1 /\ turn + 1 - 1 = turn
          /\ Len(Corpus) + (turn + 1) - 1 = Len(Corpus) + turn
      BY <1>4
    <3>2. /\ reading' = FALSE /\ turn' = turn + 1 /\ told' = told /\ scores' = scores
      BY <1>1, <1>2, <1>8
    <3> QED
      BY <1>4, <2>2, <2>3, <3>1, <3>2 DEF Typed, n
  <2>6. Judged'
    <3>1. ASSUME NEW i \in DOMAIN legal' PROVE legal'[i] => told'[Len(Corpus) + i].clean
      <4>1. i \in 1 .. turn - 1 \/ i = turn
        BY <1>4, <2>2
      <4>2. CASE i \in 1 .. turn - 1
        BY <1>1, <2>2, <4>2 DEF Judged
      <4>3. CASE i = turn
        BY <1>1, <1>4, <2>1, <2>2, <4>3 DEF t, n
      <4> QED
        BY <4>1, <4>2, <4>3
    <3> QED
      BY <1>1, <3>1 DEF Judged
  <2> QED
    BY <1>1, <1>2, <1>8, <2>3, <2>4, <2>5, <2>6 DEF ReleaseInv, R!PassIsEarned
<1> QED
  BY <1>7, <1>8

LEMMA GivesUp ==
  ASSUME ReleaseInv, R!GiveUp
  PROVE  ReleaseInv'
<1>1. /\ stage' = "fail" /\ reading' = FALSE /\ events' = <<>>
      /\ UNCHANGED <<turn, wire, scores, legal, told>> /\ ReleaseTypes
  BY DEF ReleaseInv, R!GiveUp
<1>2. events' \in Seq(Message)
  BY <1>1
<1>3. ReleaseTypes'
  BY <1>1, <1>2 DEF ReleaseTypes
<1> QED
  BY <1>1, <1>3 DEF ReleaseInv, R!PassIsEarned

JudgedAs == {"any", "yes", "no"}

(* What passes was judged right, every part of it.                         *)
LEMMA RightIsExpected ==
  ASSUME ReleaseTypes, NEW answers \in [DOMAIN scores -> JudgedAs],
         R!AllRight(answers)
  PROVE  \A i \in DOMAIN scores : answers[i] # "no"
<1>1. DOMAIN answers = 1 .. Len(scores) /\ Len(scores) \in Nat
  BY DEF ReleaseTypes
<1>2. answers \in Seq(JudgedAs) /\ Len(answers) = Len(scores)
  BY <1>1
<1> QED
  BY <1>1, <1>2 DEF R!AllRight, R!Contains

LEMMA Decides ==
  ASSUME ReleaseInv, R!Decide
  PROVE  ReleaseInv'
<1>1. /\ stage = "text" /\ turn > Len(Prompts) /\ Typed /\ Judged /\ ReleaseTypes
      /\ UNCHANGED <<turn, reading, wire, events, scores, legal, told>>
  BY DEF R!Decide, ReleaseInv
<1>2. /\ stage' = "fail" \/ stage' = "pass"
      /\ stage' = "pass" =>
           /\ R!ReleaseThresholds(scores)
           /\ \A i \in DOMAIN scores : scores[i].terminal
           /\ \A i \in DOMAIN legal : legal[i]
  BY DEF R!Decide
<1>3. /\ Len(Corpus) \in Nat /\ Len(Prompts) \in Nat /\ turn = Len(Prompts) + 1 /\ ~reading
      /\ Len(legal) = Len(Prompts) /\ Len(scores) = Len(Corpus)
      /\ Len(told) = Len(Corpus) + Len(Prompts)
      /\ DOMAIN Corpus = 1 .. Len(Corpus) /\ DOMAIN scores = DOMAIN Corpus
      /\ DOMAIN legal = 1 .. Len(Prompts) /\ DOMAIN told = 1 .. Len(Corpus) + Len(Prompts)
  <2>1. /\ Len(Corpus) \in Nat /\ DOMAIN Corpus = 1 .. Len(Corpus)
        /\ Len(Prompts) \in Nat /\ DOMAIN Prompts = 1 .. Len(Prompts)
    BY CorpusIs
  <2>2. turn = Len(Prompts) + 1 /\ ~reading
    BY <1>1, <2>1 DEF Typed
  <2>3. /\ Len(legal) = Len(Prompts) /\ Len(scores) = Len(Corpus)
        /\ Len(told) = Len(Corpus) + Len(Prompts)
    BY <1>1, <2>1, <2>2 DEF Typed
  <2> QED
    BY <1>1, <2>1, <2>2, <2>3 DEF ReleaseTypes
<1>4. ReleaseTypes'
  BY <1>1, <1>2 DEF ReleaseTypes
<1>5. ASSUME stage' = "pass", NEW i \in DOMAIN Corpus
      PROVE  LET x == told[i].heard[1] IN
             /\ told[i].heard # <<>>
             /\ Corpus[i].command \in {"none", R!Recognize(x)}
             /\ Corpus[i].route \in {"none", R!Deterministic(x, NoTarget).route}
             /\ \/ told[i].clean
                \/ Len(told[i].heard) > 1
                \/ Corpus[i].command = "STOP_SPEAKING"
  <2>1. Judges(Corpus[i], scores[i], told[i]) /\ scores[i].terminal
    BY <1>1, <1>2, <1>3, <1>5 DEF Judged
  <2> DEFINE commands == [j \in DOMAIN scores |-> scores[j].command]
             routes == [j \in DOMAIN scores |-> scores[j].route]
  <2>2. R!AllRight(commands) /\ R!AllRight(routes)
    BY <1>2, <1>5 DEF R!ReleaseThresholds
  <2>3. \A j \in DOMAIN scores : scores[j].command \in JudgedAs /\ scores[j].route \in JudgedAs
    <3>1. ASSUME NEW x, NEW y PROVE R!Judged(x, y) \in JudgedAs
      BY DEF R!Judged, JudgedAs
    <3> QED
      BY <1>1, <3>1 DEF Judged, Judges
  <2>4. commands \in [DOMAIN scores -> JudgedAs] /\ routes \in [DOMAIN scores -> JudgedAs]
    BY <2>3
  <2>5. i \in DOMAIN scores /\ commands[i] = scores[i].command /\ routes[i] = scores[i].route
    BY <1>3, <1>5
  <2> HIDE DEF commands, routes
  <2>6. scores[i].command # "no" /\ scores[i].route # "no"
    BY <1>1, <2>2, <2>4, <2>5, RightIsExpected
  <2> QED
    BY <2>1, <2>6 DEF Judges, R!Judged
<1>6. ASSUME stage' = "pass", NEW i \in DOMAIN told \ DOMAIN Corpus
      PROVE  told[i].clean
  <2>1. PICK k \in DOMAIN legal : i = Len(Corpus) + k
    <3>1. i - Len(Corpus) \in 1 .. Len(Prompts) /\ i = Len(Corpus) + (i - Len(Corpus))
      BY <1>3, <1>6
    <3> QED
      BY <1>3, <3>1
  <2> QED
    BY <1>1, <1>2, <1>6, <2>1 DEF Judged
<1>7. (R!PassIsEarned)'
  BY <1>1, <1>2, <1>5, <1>6 DEF R!PassIsEarned
<1> QED
  BY <1>1, <1>2, <1>3, <1>4, <1>7 DEF ReleaseInv

LEMMA ReleaseStays ==
  ASSUME ReleaseInv, UNCHANGED RVars
  PROVE  ReleaseInv'
<1> USE DEF RVars
<1>1. ReleaseTypes' /\ (Judged <=> Judged')
  BY DEF ReleaseInv, ReleaseTypes, Judged
<1>2. (Voice <=> Voice') /\ (Typed <=> Typed')
  BY DEF Voice, Awaits, Typed
<1>3. (R!PassIsEarned)'
  BY DEF ReleaseInv, R!PassIsEarned
<1> QED
  BY <1>1, <1>2, <1>3 DEF ReleaseInv

(* Of the recordings and their texts any, however the turns end and in     *)
(* whatever order their events come: a release passes only when each case  *)
(* was judged by its own first final as what it stands for, and each       *)
(* prompt by its own answer, of which nothing is left when the next one is *)
(* written (scripts/evaluate-release.py).                                  *)
THEOREM PassesAreEarned == Spec => []PassIsEarned
<1>1. Init => ReleaseInv
  <2>1. SUFFICES ASSUME Init PROVE ReleaseInv
    OBVIOUS
  <2>2. /\ stage = "voice" /\ turn = 1 /\ ~reading /\ reading \in BOOLEAN
        /\ wire = R!NoneLeft /\ events = <<>> /\ scores = <<>> /\ legal = <<>> /\ told = <<>>
    BY <2>1 DEF Init, R!Init
  <2>3. ReleaseTypes /\ Judged
    BY <2>2, NoneLeftIs DEF ReleaseTypes, Judged
  <2>4. Voice
    <3>1. Len(told) = 0 /\ Len(scores) = 0 /\ Len(Corpus) \in Nat /\ turn - 1 = 0
      BY <2>2, CorpusIs
    <3> QED
      BY <2>2, <3>1 DEF Voice
  <2> QED
    BY <2>2, <2>3, <2>4 DEF ReleaseInv, R!PassIsEarned
<1>2. ReleaseInv /\ [Next]_vars => ReleaseInv'
  BY StepOfOne, OpensCase, ReadsCase, StartsPrompts, SendsPrompt, ReadsPrompt, GivesUp, Decides,
     ReleaseStays DEF R!Next
<1>3. ReleaseInv => PassIsEarned
  BY DEF ReleaseInv, PassIsEarned
<1> QED
  BY <1>1, <1>2, <1>3, PTL DEF Spec
=============================================================================
