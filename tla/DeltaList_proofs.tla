-------------------------- MODULE DeltaList_proofs --------------------------
(***************************************************************************)
(* Proofs about DeltaList, for every set of timers and every width of a    *)
(* systime_t: the list keeps the promise of VirtualTimers.                 *)
(*                                                                         *)
(* That the differences agree with the promised times is not inductive by  *)
(* itself.  It needs that no timer is in the list twice, that the times    *)
(* are sorted (so that a sum of two differences is below the largest delay *)
(* and nothing wraps around), that the header holds the largest delay (so  *)
(* that the search ends there), and what the search has found so far.      *)
(***************************************************************************)
EXTENDS DeltaList, SequenceTheorems, TLAPS

-----------------------------------------------------------------------------
(* Lemmas about sequences.                                                 *)

(* An insertion shifts what follows.                                       *)
LEMMA InsertAtIs ==
  ASSUME NEW S, NEW s \in Seq(S), NEW p \in 1 .. Len(s) + 1, NEW e \in S
  PROVE  /\ InsertAt(s, p, e) \in Seq(S)
         /\ Len(InsertAt(s, p, e)) = Len(s) + 1
         /\ \A i \in 1 .. Len(s) + 1 :
              InsertAt(s, p, e)[i] = IF i < p THEN s[i]
                                     ELSE IF i = p THEN e ELSE s[i - 1]
<1> DEFINE before == SubSeq(s, 1, p - 1)
           after == SubSeq(s, p, Len(s))
<1>0. Len(s) \in Nat /\ \A i \in 1 .. Len(s) : s[i] \in S
  OBVIOUS
<1>1. /\ before \in Seq(S) /\ Len(before) = p - 1
      /\ \A i \in 1 .. p - 1 : before[i] = s[i]
  BY <1>0, SubSeqProperties
<1>2. /\ after \in Seq(S) /\ Len(after) = Len(s) - p + 1
      /\ \A i \in 1 .. Len(s) - p + 1 : after[i] = s[p + i - 1]
  BY <1>0, SubSeqProperties
<1>3. <<e>> \in Seq(S) /\ Len(<<e>>) = 1 /\ <<e>>[1] = e
  OBVIOUS
<1> HIDE DEF before, after
<1> DEFINE front == before \o <<e>>
<1>4. /\ front \in Seq(S) /\ Len(front) = p
      /\ \A i \in 1 .. p : front[i] = IF i < p THEN s[i] ELSE e
  <2>1. Len(before) + Len(<<e>>) = p
    BY <1>1, <1>3
  <2> QED
    BY <1>1, <1>3, <2>1, ConcatProperties
<1>5. InsertAt(s, p, e) = front \o after
  BY DEF InsertAt, before, after
<1> HIDE DEF front
<1>6. Len(front) + Len(after) = Len(s) + 1
  BY <1>0, <1>2, <1>4
<1>7. /\ front \o after \in Seq(S)
      /\ Len(front \o after) = Len(s) + 1
      /\ \A i \in 1 .. Len(s) + 1 :
           (front \o after)[i] = IF i <= p THEN front[i] ELSE after[i - p]
  <2>1. /\ front \o after \in Seq(S)
        /\ Len(front \o after) = Len(front) + Len(after)
        /\ \A i \in 1 .. Len(front) + Len(after) :
             (front \o after)[i] = IF i <= Len(front) THEN front[i]
                                   ELSE after[i - Len(front)]
    BY <1>2, <1>4, ConcatProperties
  <2> QED
    BY <1>4, <1>6, <2>1
<1>8. \A i \in 1 .. Len(s) + 1 : i > p => after[i - p] = s[i - 1]
  BY <1>0, <1>2
<1> QED
  BY <1>0, <1>4, <1>5, <1>7, <1>8

(* A removal shifts what follows back.                                     *)
LEMMA RemoveAtIs ==
  ASSUME NEW S, NEW s \in Seq(S), NEW p \in 1 .. Len(s)
  PROVE  /\ RemoveAt(s, p) \in Seq(S)
         /\ Len(RemoveAt(s, p)) = Len(s) - 1
         /\ \A i \in 1 .. Len(s) - 1 :
              RemoveAt(s, p)[i] = IF i < p THEN s[i] ELSE s[i + 1]
<1> DEFINE before == SubSeq(s, 1, p - 1)
           after == SubSeq(s, p + 1, Len(s))
<1>0. Len(s) \in Nat /\ \A i \in 1 .. Len(s) : s[i] \in S
  OBVIOUS
<1>1. /\ before \in Seq(S) /\ Len(before) = p - 1
      /\ \A i \in 1 .. p - 1 : before[i] = s[i]
  BY <1>0, SubSeqProperties
<1>2. /\ after \in Seq(S) /\ Len(after) = Len(s) - p
      /\ \A i \in 1 .. Len(s) - p : after[i] = s[p + i]
  BY <1>0, SubSeqProperties
<1> HIDE DEF before, after
<1>3. RemoveAt(s, p) = before \o after
  BY DEF RemoveAt, before, after
<1>4. Len(before) + Len(after) = Len(s) - 1
  BY <1>0, <1>1, <1>2
<1> QED
  BY <1>0, <1>1, <1>2, <1>3, <1>4, ConcatProperties

-----------------------------------------------------------------------------
(* The inductive invariant.                                                *)

Sorted == \A i, j \in DOMAIN list : i <= j => left[list[i]] <= left[list[j]]

Searching ==
  IF setting = Nobody
  THEN pos = 1
  ELSE /\ ~InList(setting)
       /\ rest >= 1
       /\ asked = LeftAt(pos - 1) + rest

Inv ==
  /\ TypeOK
  /\ DeltasAgree
  /\ NoneOverdue
  /\ Sorted
  /\ Searching
  /\ delta[Header] = Forever

(* What every proof needs of the list.                                     *)
LEMMA ListFacts ==
  ASSUME TypeOK
  PROVE  /\ Len(list) \in Nat
         /\ DOMAIN list = 1 .. Len(list)
         /\ \A i \in 1 .. Len(list) : list[i] \in Timers
         /\ Forever \in Nat /\ Forever >= 1
         /\ Header \notin Timers /\ Nobody \notin Timers
BY ForeverAssumption, NodesAssumption DEF TypeOK

(* A timer in the list is armed, and is due after its predecessors.        *)
LEMMA LeftFacts ==
  ASSUME Inv, NEW i \in 0 .. Len(list)
  PROVE  /\ LeftAt(i) \in 0 .. Forever
         /\ \A j \in i .. Len(list) : LeftAt(i) <= LeftAt(j)
<1>1. \A j \in 1 .. Len(list) : left[list[j]] \in 0 .. Forever
  BY ListFacts DEF Inv, TypeOK, NoneOverdue, InList, Unarmed
<1> QED
  BY <1>1, ListFacts DEF Inv, Sorted, LeftAt

(* The initial states satisfy the invariant.                               *)
LEMMA InitInv == Init => Inv
<1> SUFFICES ASSUME Init PROVE Inv
  OBVIOUS
<1>1. list \in Seq(Timers) /\ Len(list) = 0 /\ DOMAIN list = {}
  BY DEF Init
<1>2. delta \in [Nodes -> 0 .. Forever] /\ delta[Header] = Forever
  BY ForeverAssumption DEF Init, Nodes
<1>3. /\ left \in [Timers -> Unarmed .. Forever]
      /\ \A t \in Timers : left[t] = Unarmed
  BY ForeverAssumption DEF Init, Unarmed
<1>0. setting = Nobody /\ rest = 0 /\ pos = 1 /\ serving = FALSE /\ asked = 0
  BY DEF Init
<1>4. TypeOK
  <2>1. pos \in 1 .. Len(list) + 1
    BY <1>0, <1>1
  <2>2. rest \in 0 .. Forever /\ asked \in 0 .. Forever
    BY <1>0, ForeverAssumption
  <2>3. setting \in Timers \union {Nobody} /\ serving \in BOOLEAN
    BY <1>0
  <2> QED
    BY <1>1, <1>2, <1>3, <2>1, <2>2, <2>3 DEF TypeOK
<1> QED
  BY <1>0, <1>1, <1>2, <1>3, <1>4
  DEF Inv, DeltasAgree, NoneOverdue, InList, Sorted, Searching, Unarmed

-----------------------------------------------------------------------------
(* What the removal of a timer keeps.                                      *)
LEMMA UnlinkKeeps ==
  ASSUME Inv, NEW i \in DOMAIN list, Unlink(i)
  PROVE  /\ list' \in Seq(Timers)
         /\ Len(list') = Len(list) - 1
         /\ delta' \in [Nodes -> 0 .. Forever]
         /\ delta'[Header] = Forever
         /\ left' \in [Timers -> Unarmed .. Forever]
         /\ left'[list[i]] = Unarmed
         /\ \A t \in Timers \ {list[i]} : left'[t] = left[t]
         /\ \A t \in Timers : left'[t] # Unarmed <=> InList(t)'
         /\ \A j, k \in DOMAIN list' : list'[j] = list'[k] => j = k
         /\ DeltasAgree'
         /\ Sorted'
<1> DEFINE n == Len(list)
           Old(j) == IF j < i THEN j ELSE j + 1
<1>0. /\ n \in Nat /\ DOMAIN list = 1 .. n /\ i \in 1 .. n
      /\ \A j \in 1 .. n : list[j] \in Timers
      /\ list \in Seq(Timers)
      /\ Forever \in Nat /\ Header \notin Timers
  BY ListFacts DEF Inv, TypeOK
<1>1. /\ list' \in Seq(Timers) /\ Len(list') = n - 1
      /\ DOMAIN list' = 1 .. n - 1
      /\ \A j \in 1 .. n - 1 : list'[j] = list[Old(j)]
  <2>1. list' = RemoveAt(list, i)
    BY DEF Unlink
  <2>2. /\ list' \in Seq(Timers) /\ Len(list') = n - 1
        /\ \A j \in 1 .. n - 1 : list'[j] = IF j < i THEN list[j] ELSE list[j + 1]
    BY <1>0, <2>1, RemoveAtIs
  <2> QED
    BY <1>0, <2>2
<1>2. \A j, k \in 1 .. n : list[j] = list[k] => j = k
  BY <1>0 DEF Inv, NoneOverdue
<1>3. /\ left' \in [Timers -> Unarmed .. Forever]
      /\ left'[list[i]] = Unarmed
      /\ \A t \in Timers \ {list[i]} : left'[t] = left[t]
  <2>1. left' = [left EXCEPT ![list[i]] = Unarmed]
    BY DEF Unlink
  <2>2. left \in [Timers -> Unarmed .. Forever] /\ list[i] \in Timers
    BY <1>0 DEF Inv, TypeOK
  <2>3. Unarmed \in Unarmed .. Forever
    BY <1>0 DEF Unarmed
  <2> QED
    BY <2>1, <2>2, <2>3
<1>4. \A j \in 1 .. n - 1 : Old(j) \in 1 .. n /\ Old(j) # i
  BY <1>0
<1>5. \A j \in 1 .. n - 1 : left'[list'[j]] = left[list[Old(j)]]
  BY <1>0, <1>1, <1>2, <1>3, <1>4
<1>6. ASSUME i < n
      PROVE  /\ NodeAt(i + 1) = list[i + 1]
             /\ delta[list[i + 1]] + delta[list[i]] \in 0 .. Forever
             /\ delta[list[i + 1]] + delta[list[i]]
                  = LeftAt(i + 1) - LeftAt(i - 1)
  <2>1. i + 1 \in 1 .. n /\ i - 1 \in 0 .. n
    BY <1>0, <1>6
  <2>2. /\ LeftAt(i) = LeftAt(i - 1) + delta[list[i]]
        /\ LeftAt(i + 1) = LeftAt(i) + delta[list[i + 1]]
    BY <1>0, <2>1 DEF Inv, DeltasAgree
  <2>3. /\ LeftAt(i + 1) \in 0 .. Forever /\ LeftAt(i - 1) \in 0 .. Forever
        /\ LeftAt(i) \in 0 .. Forever /\ LeftAt(i - 1) <= LeftAt(i + 1)
    BY <1>0, <2>1, LeftFacts
  <2>4. delta[list[i]] \in Int /\ delta[list[i + 1]] \in Int
    BY <1>0, <2>1 DEF Inv, TypeOK, Nodes
  <2>5. NodeAt(i + 1) = list[i + 1]
    BY <1>0, <2>1 DEF NodeAt
  <2>6. Forever \in Nat
    BY <1>0
  <2> QED
    BY <2>2, <2>3, <2>4, <2>5, <2>6
<1>7. /\ delta' \in [Nodes -> 0 .. Forever]
      /\ delta'[Header] = Forever
      /\ i < n => delta'[list[i + 1]] = LeftAt(i + 1) - LeftAt(i - 1)
      /\ \A j \in 1 .. n : j # i + 1 => delta'[list[j]] = delta[list[j]]
  <2> DEFINE New(x) ==
               IF x = Header THEN Forever
               ELSE IF i < n /\ x = list[i + 1]
               THEN delta[list[i + 1]] + delta[list[i]]
               ELSE delta[x]
  <2>1. delta \in [Nodes -> 0 .. Forever]
    BY DEF Inv, TypeOK
  <2>2. delta' = [x \in Nodes |->
                    IF x = Header THEN Forever
                    ELSE IF x = NodeAt(i + 1) THEN Wrap(delta[x] + delta[list[i]])
                    ELSE delta[x]]
    BY DEF Unlink
  <2>3. i = n => NodeAt(i + 1) = Header
    BY <1>0 DEF NodeAt
  <2>4. i < n => Wrap(delta[list[i + 1]] + delta[list[i]])
                   = delta[list[i + 1]] + delta[list[i]]
    BY <1>0, <1>6 DEF Wrap
  <2>5. delta' = [x \in Nodes |-> New(x)]
    <3>1. CASE i < n
      BY <1>6, <2>2, <2>4, <3>1
    <3>2. CASE i = n
      BY <1>0, <2>2, <2>3, <3>2
    <3> QED
      BY <1>0, <3>1, <3>2
  <2>6. \A x \in Nodes : New(x) \in 0 .. Forever
    BY <1>0, <1>6, <2>1
  <2>7. Header \in Nodes /\ \A j \in 1 .. n : list[j] \in Nodes /\ list[j] # Header
    BY <1>0 DEF Nodes
  <2>8. delta' \in [Nodes -> 0 .. Forever]
    BY <2>5, <2>6
  <2>9. \A x \in Nodes : delta'[x] = New(x)
    BY <2>5
  <2> QED
    BY <1>0, <1>2, <1>6, <2>7, <2>8, <2>9
<1>8. \A j \in 0 .. n - 1 : LeftAt(j)' = IF j = 0 THEN 0 ELSE LeftAt(Old(j))
  BY <1>0, <1>5 DEF LeftAt
<1>9. DeltasAgree'
  <2> SUFFICES ASSUME NEW j \in 1 .. n - 1
               PROVE  LeftAt(j)' = LeftAt(j - 1)' + delta'[list'[j]]
    BY <1>1 DEF DeltasAgree
  <2>1. \A k \in 1 .. n : LeftAt(k) = LeftAt(k - 1) + delta[list[k]]
    BY <1>0 DEF Inv, DeltasAgree
  <2>2. \A k \in 0 .. n : LeftAt(k) \in Int
    BY <1>0, LeftFacts
  <2>3. LeftAt(0) = 0
    BY DEF LeftAt
  <2>4. CASE j < i
    <3>1. Old(j) = j /\ Old(j - 1) = j - 1 /\ j # i + 1
      BY <1>0, <2>4
    <3>2. LeftAt(j)' = LeftAt(j) /\ LeftAt(j - 1)' = LeftAt(j - 1)
      BY <1>0, <1>8, <2>3, <3>1
    <3>3. delta'[list'[j]] = delta[list[j]]
      BY <1>0, <1>1, <1>7, <3>1
    <3> QED
      BY <1>0, <2>1, <3>2, <3>3
  <2>5. CASE j = i
    <3>1. Old(j) = j + 1 /\ i < n /\ j - 1 \in 0 .. n - 1
      BY <1>0, <2>5
    <3>2. LeftAt(j)' = LeftAt(j + 1)
      BY <1>0, <1>8, <3>1
    <3>3. LeftAt(j - 1)' = LeftAt(j - 1)
      BY <1>0, <1>8, <2>3, <2>5, <3>1
    <3>4. list'[j] = list[j + 1]
      BY <1>1, <3>1
    <3>5. delta'[list[j + 1]] = LeftAt(j + 1) - LeftAt(j - 1)
      BY <1>7, <2>5, <3>1
    <3>6. LeftAt(j + 1) \in Int /\ LeftAt(j - 1) \in Int
      BY <1>0, <2>2, <2>5, <3>1
    <3> QED
      BY <3>2, <3>3, <3>4, <3>5, <3>6
  <2>6. CASE j > i
    <3>1. /\ Old(j) = j + 1 /\ j + 1 \in 1 .. n /\ j + 1 # i + 1
          /\ j - 1 # 0 /\ Old(j - 1) = j /\ j - 1 \in 0 .. n - 1
      BY <1>0, <2>6
    <3>2. LeftAt(j)' = LeftAt(j + 1) /\ LeftAt(j - 1)' = LeftAt(j)
      BY <1>0, <1>8, <3>1
    <3>3. list'[j] = list[j + 1]
      BY <1>1, <3>1
    <3>4. delta'[list[j + 1]] = delta[list[j + 1]]
      BY <1>7, <3>1
    <3>5. LeftAt(j + 1) = LeftAt(j) + delta[list[j + 1]]
      BY <2>1, <3>1
    <3> QED
      BY <3>2, <3>3, <3>4, <3>5
  <2> QED
    BY <1>0, <2>4, <2>5, <2>6
<1>10. Sorted'
  <2> SUFFICES ASSUME NEW j \in 1 .. n - 1, NEW k \in 1 .. n - 1, j <= k
               PROVE  left'[list'[j]] <= left'[list'[k]]
    BY <1>1 DEF Sorted
  <2>1. Old(j) <= Old(k)
    BY <1>0
  <2> QED
    BY <1>0, <1>4, <1>5, <2>1 DEF Inv, Sorted
<1>11. \A j, k \in DOMAIN list' : list'[j] = list'[k] => j = k
  BY <1>0, <1>1, <1>2, <1>4
<1>12. \A t \in Timers : left'[t] # Unarmed <=> InList(t)'
  <2> SUFFICES ASSUME NEW t \in Timers
               PROVE  left'[t] # Unarmed <=> \E j \in 1 .. n - 1 : list'[j] = t
    BY <1>1 DEF InList
  <2>1. left[t] # Unarmed <=> \E j \in 1 .. n : list[j] = t
    BY <1>0 DEF Inv, NoneOverdue, InList
  <2>2. CASE t = list[i]
    <3>1. \A j \in 1 .. n - 1 : list[Old(j)] # list[i]
      BY <1>0, <1>2, <1>4
    <3> QED
      BY <1>1, <1>3, <2>2, <3>1
  <2>3. CASE t # list[i]
    <3>1. ASSUME NEW k \in 1 .. n, list[k] = t
          PROVE  \E j \in 1 .. n - 1 : list'[j] = t
      <4>1. CASE k < i
        BY <1>0, <1>1, <3>1, <4>1
      <4>2. CASE k > i
        <5>1. k - 1 \in 1 .. n - 1 /\ Old(k - 1) = k
          BY <1>0, <4>2
        <5> QED
          BY <1>1, <3>1, <5>1
      <4> QED
        BY <1>0, <2>3, <3>1, <4>1, <4>2
    <3> QED
      BY <1>1, <1>3, <1>4, <2>1, <2>3, <3>1
  <2> QED
    BY <2>2, <2>3
<1> QED
  BY <1>1, <1>3, <1>7, <1>9, <1>10, <1>11, <1>12

(* A removal leaves the promised times of the other timers alone.          *)
LEMMA UnlinkNoneOverdue ==
  ASSUME Inv, NEW i \in DOMAIN list, Unlink(i), UNCHANGED serving
  PROVE  NoneOverdue'
<1>0. /\ left'[list[i]] = Unarmed
      /\ \A t \in Timers \ {list[i]} : left'[t] = left[t]
  BY UnlinkKeeps
<1>1. ~serving => \A t \in Timers : left'[t] # 0
  BY <1>0 DEF Inv, NoneOverdue, Unarmed
<1>2. /\ \A t \in Timers : left'[t] # Unarmed <=> InList(t)'
      /\ \A j, k \in DOMAIN list' : list'[j] = list'[k] => j = k
  BY UnlinkKeeps
<1> QED
  BY <1>1, <1>2 DEF NoneOverdue

(* chVTResetI.                                                             *)
LEMMA ResetInv ==
  ASSUME Inv, NEW t \in Timers, Reset(t)
  PROVE  Inv'
<1>1. PICK i \in DOMAIN list : Unlink(i)
  BY DEF Reset
<1>2. UNCHANGED <<setting, rest, pos, serving, asked>> /\ setting = Nobody
  BY DEF Reset
<1>3. pos = 1
  BY <1>2 DEF Inv, Searching
<1>4. Len(list') \in Nat
  BY <1>1, UnlinkKeeps
<1>5. TypeOK'
  BY <1>1, <1>2, <1>3, <1>4, UnlinkKeeps DEF Inv, TypeOK
<1>6. Searching'
  BY <1>2, <1>3 DEF Searching
<1> QED
  BY <1>1, <1>2, <1>5, <1>6, UnlinkKeeps, UnlinkNoneOverdue DEF Inv

(* chVTSetI up to the search.                                              *)
LEMMA SetInv ==
  ASSUME Inv, NEW t \in Timers, NEW delay \in 1 .. Forever, Set(t, delay)
  PROVE  Inv'
<1>1. /\ setting' = t /\ rest' = delay /\ pos' = 1 /\ asked' = delay
      /\ UNCHANGED serving
  BY DEF Set
<1>2. t # Nobody /\ Forever \in Nat
  BY ListFacts DEF Inv
<1>3. CASE InList(t)
  <2>1. PICK i \in DOMAIN list : list[i] = t /\ Unlink(i)
    BY <1>3 DEF Set
  <2>2. /\ list' \in Seq(Timers)
        /\ delta' \in [Nodes -> 0 .. Forever]
        /\ left' \in [Timers -> Unarmed .. Forever]
    BY <2>1, UnlinkKeeps
  <2>3. TypeOK'
    <3>1. pos' \in 1 .. Len(list') + 1
      BY <1>1, <2>2
    <3>2. rest' \in 0 .. Forever /\ asked' \in 0 .. Forever
      BY <1>1, <1>2
    <3> QED
      BY <1>1, <2>2, <3>1, <3>2 DEF Inv, TypeOK
  <2>4. ~InList(t)'
    BY <2>1, UnlinkKeeps
  <2>5. Searching'
    BY <1>1, <1>2, <2>4 DEF Searching, LeftAt, InList
  <2> QED
    BY <1>1, <2>1, <2>3, <2>5, UnlinkKeeps, UnlinkNoneOverdue DEF Inv
<1>4. CASE ~InList(t)
  <2>1. UNCHANGED <<list, delta, left>>
    BY <1>4 DEF Set
  <2>2. Len(list) \in Nat
    BY ListFacts DEF Inv
  <2>3. TypeOK'
    BY <1>1, <1>2, <2>1, <2>2 DEF Inv, TypeOK
  <2>4. Searching'
    BY <1>1, <1>2, <1>4, <2>1 DEF Searching, LeftAt, InList
  <2> QED
    BY <1>1, <2>1, <2>3, <2>4
    DEF Inv, DeltasAgree, LeftAt, NoneOverdue, InList, Sorted
<1> QED
  BY <1>3, <1>4

(* The search keeps what it has passed in the account.                     *)
LEMMA SearchInv ==
  ASSUME Inv, Search
  PROVE  Inv'
<1>1. /\ setting # Nobody /\ delta[NodeAt(pos)] < rest
      /\ rest' = Wrap(rest - delta[NodeAt(pos)]) /\ pos' = pos + 1
      /\ UNCHANGED <<list, delta, setting, serving, asked, left>>
  BY DEF Search
<1>2. /\ Len(list) \in Nat /\ DOMAIN list = 1 .. Len(list)
      /\ \A i \in 1 .. Len(list) : list[i] \in Timers
      /\ Forever \in Nat /\ pos \in 1 .. Len(list) + 1
      /\ rest \in 0 .. Forever
  BY ListFacts DEF Inv, TypeOK
<1>3. pos \in 1 .. Len(list)
  <2>1. pos = Len(list) + 1 => NodeAt(pos) = Header
    BY <1>2 DEF NodeAt
  <2> QED
    BY <1>1, <1>2, <2>1 DEF Inv
<1>4. NodeAt(pos) = list[pos] /\ delta[list[pos]] \in 0 .. Forever
  BY <1>2, <1>3 DEF NodeAt, Inv, TypeOK, Nodes
<1>5. rest' = rest - delta[list[pos]] /\ rest' \in 1 .. Forever
  BY <1>1, <1>2, <1>4 DEF Wrap
<1>6. TypeOK'
  BY <1>1, <1>2, <1>3, <1>5 DEF Inv, TypeOK
<1>7. /\ LeftAt(pos) = LeftAt(pos - 1) + delta[list[pos]]
      /\ LeftAt(pos - 1) \in 0 .. Forever
  BY <1>2, <1>3, LeftFacts DEF Inv, DeltasAgree
<1>8. asked = LeftAt(pos - 1) + rest /\ ~InList(setting)
  BY <1>1 DEF Inv, Searching
<1>9. asked = LeftAt(pos) + rest'
  BY <1>2, <1>4, <1>5, <1>7, <1>8
<1>10. pos' - 1 = pos
  BY <1>1, <1>3
<1>11. Searching'
  BY <1>1, <1>5, <1>8, <1>9, <1>10 DEF Searching, LeftAt, InList
<1> QED
  BY <1>1, <1>6, <1>11
  DEF Inv, DeltasAgree, LeftAt, NoneOverdue, InList, Sorted

(* The insertion: the new timer stands between one that is due no later    *)
(* and one that is due no earlier, and takes over ticks of the latter.     *)
LEMMA InsertInv ==
  ASSUME Inv, Insert
  PROVE  Inv'
<1> DEFINE n == Len(list)
           Old(j) == IF j < pos THEN j ELSE j - 1
<1>0. /\ n \in Nat /\ DOMAIN list = 1 .. n /\ pos \in 1 .. n + 1
      /\ \A j \in 1 .. n : list[j] \in Timers /\ list[j] # Header
      /\ list \in Seq(Timers)
      /\ Forever \in Nat /\ Header \notin Timers /\ Nobody \notin Timers
      /\ rest \in 0 .. Forever
      /\ delta \in [Nodes -> 0 .. Forever]
      /\ left \in [Timers -> Unarmed .. Forever]
  BY ListFacts DEF Inv, TypeOK
<1>1. /\ setting # Nobody /\ ~(delta[NodeAt(pos)] < rest)
      /\ list' = InsertAt(list, pos, setting)
      /\ delta' = [x \in Nodes |->
                     IF x = Header THEN Forever
                     ELSE IF x = setting THEN rest
                     ELSE IF x = NodeAt(pos) THEN Wrap(delta[x] - rest)
                     ELSE delta[x]]
      /\ left' = [left EXCEPT ![setting] = asked]
      /\ setting' = Nobody /\ rest' = 0 /\ pos' = 1
      /\ UNCHANGED <<serving, asked>>
  BY DEF Insert
<1>2. /\ setting \in Timers /\ ~InList(setting)
      /\ rest >= 1 /\ asked = LeftAt(pos - 1) + rest
      /\ asked \in 1 .. Forever
  <2>1. setting \in Timers /\ asked \in 0 .. Forever
    BY <1>1 DEF Inv, TypeOK
  <2>2. ~InList(setting) /\ rest >= 1 /\ asked = LeftAt(pos - 1) + rest
    BY <1>1 DEF Inv, Searching
  <2>3. LeftAt(pos - 1) \in 0 .. Forever
    BY <1>0, LeftFacts
  <2> QED
    BY <1>0, <2>1, <2>2, <2>3
<1>3. /\ list' \in Seq(Timers) /\ Len(list') = n + 1
      /\ DOMAIN list' = 1 .. n + 1
      /\ \A j \in 1 .. n + 1 :
           list'[j] = IF j < pos THEN list[j]
                      ELSE IF j = pos THEN setting ELSE list[j - 1]
  <2>1. /\ list' \in Seq(Timers) /\ Len(list') = n + 1
        /\ \A j \in 1 .. n + 1 :
             list'[j] = IF j < pos THEN list[j]
                        ELSE IF j = pos THEN setting ELSE list[j - 1]
    <3>1. list' = InsertAt(list, pos, setting)
      BY <1>1
    <3> QED
      <4>1. list \in Seq(Timers) /\ pos \in 1 .. Len(list) + 1 /\ setting \in Timers
        BY <1>0, <1>2
      <4> QED
        BY <3>1, <4>1, InsertAtIs
  <2> QED
    BY <1>0, <2>1
<1>4. \A j, k \in 1 .. n : list[j] = list[k] => j = k
  BY <1>0 DEF Inv, NoneOverdue
<1>5. \A j \in 1 .. n : list[j] # setting
  BY <1>0, <1>2 DEF InList
<1>6. /\ left' \in [Timers -> Unarmed .. Forever]
      /\ left'[setting] = asked
      /\ \A t \in Timers \ {setting} : left'[t] = left[t]
  <2>1. asked \in Unarmed .. Forever
    BY <1>0, <1>2 DEF Unarmed
  <2> QED
    BY <1>0, <1>1, <1>2, <2>1
<1>7. \A j \in 0 .. n + 1 :
        LeftAt(j)' = IF j = pos THEN asked ELSE LeftAt(Old(j))
  <2> SUFFICES ASSUME NEW j \in 0 .. n + 1
               PROVE  LeftAt(j)' = IF j = pos THEN asked ELSE LeftAt(Old(j))
    OBVIOUS
  <2>1. CASE j = 0
    BY <1>0, <2>1 DEF LeftAt
  <2>2. CASE j \in 1 .. n + 1 /\ j < pos
    <3>1. j \in 1 .. n /\ j # 0 /\ j # pos /\ Old(j) = j
      BY <1>0, <2>2
    <3>2. list'[j] = list[j]
      BY <1>3, <2>2
    <3>3. left'[list[j]] = left[list[j]]
      BY <1>0, <1>5, <1>6, <3>1
    <3>4. LeftAt(j)' = left[list[j]] /\ LeftAt(j) = left[list[j]]
      BY <3>1, <3>2, <3>3 DEF LeftAt
    <3> QED
      BY <3>1, <3>4
  <2>3. CASE j = pos
    BY <1>0, <1>3, <1>6, <2>3 DEF LeftAt
  <2>4. CASE j > pos
    <3>1. j - 1 \in 1 .. n /\ list'[j] = list[j - 1]
      BY <1>0, <1>3, <2>4
    <3>2. LeftAt(j)' = left[list[j - 1]]
      <4>1. list[j - 1] \in Timers \ {setting}
        BY <1>0, <1>5, <3>1
      <4> QED
        BY <1>0, <1>6, <2>4, <3>1, <4>1 DEF LeftAt
    <3> QED
      BY <1>0, <2>4, <3>1, <3>2 DEF LeftAt
  <2> QED
    BY <1>0, <2>1, <2>2, <2>3, <2>4
<1>8. /\ \A j \in 1 .. n : LeftAt(j) = LeftAt(j - 1) + delta[list[j]]
      /\ \A j \in 0 .. n : LeftAt(j) \in 0 .. Forever
      /\ \A j, k \in 0 .. n : j <= k => LeftAt(j) <= LeftAt(k)
      /\ LeftAt(0) = 0
  <2>1. \A j \in 1 .. n : LeftAt(j) = LeftAt(j - 1) + delta[list[j]]
    BY <1>0 DEF Inv, DeltasAgree
  <2>2. \A j \in 0 .. n : LeftAt(j) \in 0 .. Forever
    BY LeftFacts
  <2>3. \A j \in 0 .. n : \A k \in j .. n : LeftAt(j) <= LeftAt(k)
    BY LeftFacts
  <2>4. LeftAt(0) = 0
    BY DEF LeftAt
  <2> QED
    BY <1>0, <2>1, <2>2, <2>3, <2>4
<1>9. pos <= n => /\ NodeAt(pos) = list[pos]
                  /\ delta[list[pos]] \in rest .. Forever
                  /\ asked <= LeftAt(pos)
  <2> SUFFICES ASSUME pos <= n
               PROVE  /\ NodeAt(pos) = list[pos]
                      /\ delta[list[pos]] \in rest .. Forever
                      /\ asked <= LeftAt(pos)
    OBVIOUS
  <2>1. NodeAt(pos) = list[pos]
    BY <1>0 DEF NodeAt
  <2>2. delta[list[pos]] \in rest .. Forever
    BY <1>0, <1>1, <2>1 DEF Nodes
  <2>3. LeftAt(pos) = LeftAt(pos - 1) + delta[list[pos]]
    BY <1>0, <1>8
  <2>4. LeftAt(pos - 1) \in 0 .. Forever
    BY <1>0, <1>8
  <2> QED
    BY <1>0, <1>2, <2>1, <2>2, <2>3, <2>4
<1>10. /\ delta' \in [Nodes -> 0 .. Forever]
       /\ delta'[Header] = Forever
       /\ delta'[setting] = rest
       /\ pos <= n => delta'[list[pos]] = delta[list[pos]] - rest
       /\ \A j \in 1 .. n : j # pos => delta'[list[j]] = delta[list[j]]
  <2> DEFINE New(x) ==
               IF x = Header THEN Forever
               ELSE IF x = setting THEN rest
               ELSE IF pos <= n /\ x = list[pos] THEN delta[x] - rest
               ELSE delta[x]
  <2>1. pos = n + 1 => NodeAt(pos) = Header
    BY <1>0 DEF NodeAt
  <2>2. pos <= n => Wrap(delta[list[pos]] - rest) = delta[list[pos]] - rest
    BY <1>0, <1>9 DEF Wrap
  <2>3. delta' = [x \in Nodes |-> New(x)]
    <3>1. CASE pos <= n
      BY <1>1, <1>9, <2>2, <3>1
    <3>2. CASE pos = n + 1
      BY <1>0, <1>1, <2>1, <3>2
    <3> QED
      BY <1>0, <3>1, <3>2
  <2>4. \A x \in Nodes : New(x) \in 0 .. Forever
    BY <1>0, <1>9
  <2>5. /\ Header \in Nodes /\ setting \in Nodes /\ setting # Header
        /\ \A j \in 1 .. n : list[j] \in Nodes
    BY <1>0, <1>2 DEF Nodes
  <2>6. delta' \in [Nodes -> 0 .. Forever] /\ \A x \in Nodes : delta'[x] = New(x)
    BY <2>3, <2>4
  <2> QED
    BY <1>0, <1>4, <1>5, <2>5, <2>6
<1>11. TypeOK'
  BY <1>0, <1>1, <1>3, <1>6, <1>10 DEF Inv, TypeOK
<1>12. DeltasAgree'
  <2> SUFFICES ASSUME NEW j \in 1 .. n + 1
               PROVE  LeftAt(j)' = LeftAt(j - 1)' + delta'[list'[j]]
    BY <1>3 DEF DeltasAgree
  <2>1. CASE j < pos
    <3>0. /\ j \in 0 .. n + 1 /\ j # pos /\ Old(j) = j
          /\ j - 1 \in 0 .. n + 1 /\ j - 1 # pos /\ Old(j - 1) = j - 1
      BY <1>0, <2>1
    <3>1. LeftAt(j)' = LeftAt(j) /\ LeftAt(j - 1)' = LeftAt(j - 1)
      BY <1>7, <3>0
    <3>2. delta'[list'[j]] = delta[list[j]]
      BY <1>0, <1>3, <1>10, <2>1
    <3> QED
      BY <1>0, <1>8, <2>1, <3>1, <3>2
  <2>2. CASE j = pos
    <3>1. LeftAt(j)' = asked /\ LeftAt(j - 1)' = LeftAt(pos - 1)
      BY <1>0, <1>7, <2>2
    <3> QED
      BY <1>2, <1>3, <1>10, <2>2, <3>1
  <2>3. CASE j = pos + 1
    <3>1. LeftAt(j)' = LeftAt(pos) /\ LeftAt(j - 1)' = asked
      BY <1>0, <1>7, <2>3
    <3>2. pos <= n /\ list'[j] = list[pos]
      BY <1>0, <1>3, <2>3
    <3>4. delta'[list'[j]] = delta[list[pos]] - rest
      BY <1>10, <3>2
    <3>3. /\ LeftAt(pos) = LeftAt(pos - 1) + delta[list[pos]]
          /\ delta[list[pos]] \in rest .. Forever
          /\ LeftAt(pos - 1) \in 0 .. Forever
      BY <1>0, <1>8, <1>9, <2>3
    <3> QED
      BY <1>0, <1>2, <3>1, <3>3, <3>4
  <2>4. CASE j > pos + 1
    <3>0. /\ j \in 0 .. n + 1 /\ j # pos /\ Old(j) = j - 1
          /\ j - 1 \in 0 .. n + 1 /\ j - 1 # pos /\ Old(j - 1) = j - 2
          /\ j - 1 \in 1 .. n /\ (j - 1) - 1 = j - 2
      BY <1>0, <2>4
    <3>1. LeftAt(j)' = LeftAt(j - 1) /\ LeftAt(j - 1)' = LeftAt(j - 2)
      BY <1>7, <3>0
    <3>2. delta'[list'[j]] = delta[list[j - 1]]
      <4>1. j - 1 \in 1 .. n /\ j - 1 # pos /\ list'[j] = list[j - 1]
        <5>1. j - 1 \in 1 .. n /\ j - 1 # pos /\ ~(j < pos) /\ j # pos
          BY <1>0, <2>4
        <5> QED
          BY <1>3, <5>1
      <4> QED
        BY <1>10, <4>1
    <3>3. LeftAt(j - 1) = LeftAt(j - 2) + delta[list[j - 1]]
      BY <1>8, <3>0
    <3> QED
      BY <3>1, <3>2, <3>3
  <2> QED
    BY <1>0, <2>1, <2>2, <2>3, <2>4
<1>13. Sorted'
  <2> SUFFICES ASSUME NEW j \in 1 .. n + 1, NEW k \in 1 .. n + 1, j <= k
               PROVE  LeftAt(j)' <= LeftAt(k)'
    BY <1>3 DEF Sorted, LeftAt
  <2>1. CASE j # pos /\ k # pos
    <3>1. Old(j) <= Old(k) /\ Old(j) \in 0 .. n /\ Old(k) \in 0 .. n
      BY <1>0, <2>1
    <3>2. LeftAt(j)' = LeftAt(Old(j)) /\ LeftAt(k)' = LeftAt(Old(k))
      <4>1. j \in 0 .. n + 1 /\ k \in 0 .. n + 1
        BY <1>0
      <4> QED
        BY <1>7, <2>1, <4>1
    <3>3. LeftAt(Old(j)) <= LeftAt(Old(k))
      BY <1>8, <3>1
    <3> QED
      BY <3>2, <3>3
  <2>2. CASE j = pos /\ k = pos
    BY <1>2, <1>7, <2>2
  <2>3. CASE j < pos /\ k = pos
    <3>1. LeftAt(j)' = LeftAt(j) /\ LeftAt(k)' = asked
      BY <1>0, <1>7, <2>3
    <3>2. LeftAt(j) <= LeftAt(pos - 1)
      <4>1. j \in 0 .. n /\ pos - 1 \in 0 .. n /\ j <= pos - 1
        BY <1>0, <2>3
      <4> QED
        BY <1>8, <4>1
    <3>3. LeftAt(j) \in 0 .. Forever /\ LeftAt(pos - 1) \in 0 .. Forever
      BY <1>0, <1>8, <2>3
    <3> QED
      BY <1>0, <1>2, <3>1, <3>2, <3>3
  <2>4. CASE j = pos /\ k > pos
    <3>1. LeftAt(j)' = asked /\ LeftAt(k)' = LeftAt(k - 1)
      BY <1>0, <1>7, <2>4
    <3>2. LeftAt(pos) <= LeftAt(k - 1) /\ asked <= LeftAt(pos)
      BY <1>0, <1>8, <1>9, <2>4
    <3>3. LeftAt(pos) \in 0 .. Forever /\ LeftAt(k - 1) \in 0 .. Forever
      BY <1>0, <1>8, <2>4
    <3> QED
      BY <1>0, <1>2, <3>1, <3>2, <3>3
  <2> QED
    BY <1>0, <2>1, <2>2, <2>3, <2>4
<1>14. NoneOverdue'
  <2>1. \A j, k \in DOMAIN list' : list'[j] = list'[k] => j = k
    <3>1. \A j \in 1 .. n + 1 : j # pos =>
             Old(j) \in 1 .. n /\ list'[j] = list[Old(j)]
      BY <1>0, <1>3
    <3>2. list'[pos] = setting
      BY <1>0, <1>3
    <3> SUFFICES ASSUME NEW j \in 1 .. n + 1, NEW k \in 1 .. n + 1,
                        list'[j] = list'[k]
                 PROVE  j = k
      BY <1>3
    <3>3. CASE j = pos \/ k = pos
      BY <1>5, <3>1, <3>2, <3>3
    <3>4. CASE j # pos /\ k # pos
      <4>1. Old(j) = Old(k)
        BY <1>4, <3>1, <3>4
      <4> QED
        BY <1>0, <3>4, <4>1
    <3> QED
      BY <3>3, <3>4
  <2>2. ~serving' => \A t \in Timers : left'[t] # 0
    BY <1>1, <1>2, <1>6 DEF Inv, NoneOverdue
  <2>3. ASSUME NEW t \in Timers
        PROVE  left'[t] # Unarmed <=> InList(t)'
    <3>1. left[t] # Unarmed <=> \E j \in 1 .. n : list[j] = t
      BY <1>0 DEF Inv, NoneOverdue, InList
    <3>2. InList(t)' <=> \E j \in 1 .. n + 1 : list'[j] = t
      BY <1>3 DEF InList
    <3>3. CASE t = setting
      <4>1. pos \in 1 .. n + 1 /\ list'[pos] = t
        BY <1>0, <1>3, <3>3
      <4> QED
        BY <1>2, <1>6, <3>2, <3>3, <4>1 DEF Unarmed
    <3>4. CASE t # setting
      <4>1. ASSUME NEW j \in 1 .. n, list[j] = t
            PROVE  \E k \in 1 .. n + 1 : list'[k] = t
        <5>1. CASE j < pos
          <6>1. j \in 1 .. n + 1 /\ list'[j] = list[j]
            BY <1>0, <1>3, <5>1
          <6> QED
            BY <4>1, <6>1
        <5>2. CASE j >= pos
          <6>0. /\ j + 1 \in 1 .. n + 1 /\ ~(j + 1 < pos) /\ j + 1 # pos
                /\ (j + 1) - 1 = j
            BY <1>0, <5>2
          <6>1. j + 1 \in 1 .. n + 1 /\ list'[j + 1] = list[j]
            BY <1>3, <6>0
          <6> QED
            BY <4>1, <6>1
        <5> QED
          BY <1>0, <5>1, <5>2
      <4>2. ASSUME NEW j \in 1 .. n + 1, list'[j] = t
            PROVE  \E k \in 1 .. n : list[k] = t
        <5>1. j # pos /\ Old(j) \in 1 .. n /\ list'[j] = list[Old(j)]
          BY <1>0, <1>3, <3>4, <4>2
        <5> QED
          BY <4>2, <5>1
      <4> QED
        BY <1>6, <3>1, <3>2, <3>4, <4>1, <4>2
    <3> QED
      BY <3>3, <3>4
  <2> QED
    BY <2>1, <2>2, <2>3 DEF NoneOverdue
<1>15. Searching'
  BY <1>1 DEF Searching
<1> QED
  BY <1>10, <1>11, <1>12, <1>13, <1>14, <1>15 DEF Inv
-----------------------------------------------------------------------------
(* The tick.  The first timer is not due yet, so that its ticks can be     *)
(* decremented, and with it everything behind it is due one tick earlier.  *)
LEMMA TickInv ==
  ASSUME Inv, Tick
  PROVE  Inv'
<1> DEFINE n == Len(list)
<1>0. /\ n \in Nat /\ DOMAIN list = 1 .. n /\ 1 \in 1 .. n
      /\ \A j \in 1 .. n : list[j] \in Timers /\ list[j] # Header
      /\ Forever \in Nat /\ Header \notin Timers
  <2>1. list # <<>> /\ list \in Seq(Timers)
    BY DEF Tick, Inv, TypeOK
  <2> QED
    BY <2>1, ListFacts DEF Inv
<1>1. /\ setting = Nobody /\ serving = FALSE
      /\ delta' = [delta EXCEPT ![list[1]] = Wrap(@ - 1)]
      /\ serving' = TRUE
      /\ left' = [t \in Timers |-> CountOne(left[t])]
      /\ UNCHANGED <<list, setting, rest, pos, asked>>
  BY DEF Tick, Inv, TypeOK
<1>2. /\ delta \in [Nodes -> 0 .. Forever]
      /\ left \in [Timers -> Unarmed .. Forever]
      /\ \A t \in Timers : left[t] # 0
  BY <1>1 DEF Inv, TypeOK, NoneOverdue
<1>3. \A t \in Timers :
        /\ left'[t] \in Unarmed .. Forever
        /\ left'[t] # Unarmed <=> left[t] # Unarmed
        /\ left[t] # Unarmed => left'[t] = left[t] - 1
  <2> SUFFICES ASSUME NEW t \in Timers
               PROVE  /\ left'[t] \in Unarmed .. Forever
                      /\ left'[t] # Unarmed <=> left[t] # Unarmed
                      /\ left[t] # Unarmed => left'[t] = left[t] - 1
    OBVIOUS
  <2>1. left'[t] = CountOne(left[t])
    BY <1>1
  <2>2. left[t] \in Unarmed .. Forever /\ left[t] # 0 /\ Forever \in Nat
    BY <1>0, <1>2
  <2> QED
    BY <2>1, <2>2 DEF CountOne, Unarmed
<1>4. \A j \in 1 .. n :
        /\ left[list[j]] \in 1 .. Forever
        /\ left'[list[j]] = left[list[j]] - 1
  <2> SUFFICES ASSUME NEW j \in 1 .. n
               PROVE  /\ left[list[j]] \in 1 .. Forever
                      /\ left'[list[j]] = left[list[j]] - 1
    OBVIOUS
  <2>1. list[j] \in Timers /\ InList(list[j])
    BY <1>0 DEF InList
  <2>2. left[list[j]] # Unarmed
    BY <2>1 DEF Inv, NoneOverdue
  <2>3. left'[list[j]] = left[list[j]] - 1
    BY <1>3, <2>1, <2>2
  <2>4. left[list[j]] \in Unarmed .. Forever /\ left[list[j]] # 0
    BY <1>2, <2>1
  <2>5. Forever \in Nat
    BY <1>0
  <2> QED
    BY <2>2, <2>3, <2>4, <2>5 DEF Unarmed
<1>5. delta[list[1]] \in 1 .. Forever
  <2>1. left[list[1]] = LeftAt(0) + delta[list[1]]
    BY <1>0 DEF Inv, DeltasAgree, LeftAt
  <2>2. delta[list[1]] \in 0 .. Forever
    BY <1>0, <1>2 DEF Nodes
  <2> QED
    BY <1>0, <1>4, <2>1, <2>2 DEF LeftAt
<1>6. /\ delta' \in [Nodes -> 0 .. Forever]
      /\ delta'[list[1]] = delta[list[1]] - 1
      /\ \A x \in Nodes \ {list[1]} : delta'[x] = delta[x]
  <2>1. Wrap(delta[list[1]] - 1) = delta[list[1]] - 1
    BY <1>0, <1>5 DEF Wrap
  <2>2. list[1] \in Nodes
    BY <1>0 DEF Nodes
  <2> QED
    BY <1>0, <1>1, <1>2, <1>5, <2>1, <2>2
<1>7. TypeOK'
  <2>1. left' = [t \in Timers |-> left'[t]]
    BY <1>1
  <2>2. left' \in [Timers -> Unarmed .. Forever]
    BY <1>3, <2>1
  <2> QED
    BY <1>1, <1>6, <2>2 DEF Inv, TypeOK
<1>8. DeltasAgree'
  <2> SUFFICES ASSUME NEW j \in 1 .. n
               PROVE  LeftAt(j)' = LeftAt(j - 1)' + delta'[list[j]]
    BY <1>0, <1>1 DEF DeltasAgree
  <2>1. LeftAt(j) = LeftAt(j - 1) + delta[list[j]]
    BY <1>0 DEF Inv, DeltasAgree
  <2>2. LeftAt(j)' = left[list[j]] - 1
    <3>1. j # 0 /\ list' = list
      BY <1>0, <1>1
    <3>2. LeftAt(j)' = left'[list[j]]
      BY <3>1 DEF LeftAt
    <3> QED
      BY <1>4, <3>2
  <2>3. CASE j = 1
    BY <1>0, <1>1, <1>4, <1>5, <1>6, <2>1, <2>2, <2>3 DEF LeftAt
  <2>4. CASE j > 1
    <3>1. j - 1 \in 1 .. n /\ list[j] # list[1] /\ list[j] \in Nodes
      BY <1>0, <2>4 DEF Inv, NoneOverdue, Nodes
    <3>2. LeftAt(j - 1)' = left[list[j - 1]] - 1
      <4>1. j - 1 # 0 /\ list' = list
        BY <1>1, <3>1
      <4>2. LeftAt(j - 1)' = left'[list[j - 1]]
        BY <4>1 DEF LeftAt
      <4> QED
        BY <1>4, <3>1, <4>2
    <3>3. delta'[list[j]] = delta[list[j]] /\ delta[list[j]] \in 0 .. Forever
      BY <1>2, <1>6, <3>1
    <3>4. left[list[j]] = left[list[j - 1]] + delta[list[j]]
      BY <2>1, <2>4, <3>1 DEF LeftAt
    <3> QED
      BY <1>0, <1>4, <2>2, <3>1, <3>2, <3>3, <3>4
  <2> QED
    BY <2>3, <2>4
<1>9. NoneOverdue'
  <2>1. list' = list /\ serving' = TRUE
    BY <1>1
  <2>2. \A t \in Timers : left'[t] # Unarmed <=> InList(t)
    BY <1>3 DEF Inv, NoneOverdue
  <2>3. \A t \in Timers : InList(t)' <=> InList(t)
    BY <2>1 DEF InList
  <2>4. \A i, j \in DOMAIN list' : list'[i] = list'[j] => i = j
    BY <2>1 DEF Inv, NoneOverdue
  <2> QED
    BY <2>1, <2>2, <2>3, <2>4 DEF NoneOverdue
<1>10. Sorted'
  <2> SUFFICES ASSUME NEW j \in 1 .. n, NEW k \in 1 .. n, j <= k
               PROVE  left'[list[j]] <= left'[list[k]]
    BY <1>0, <1>1 DEF Sorted
  <2>1. left[list[j]] <= left[list[k]]
    BY <1>0 DEF Inv, Sorted
  <2> QED
    BY <1>0, <1>4, <2>1
<1>11. Searching'
  BY <1>1 DEF Inv, Searching
<1>12. delta'[Header] = Forever
  BY <1>0, <1>6 DEF Inv, Nodes
<1> QED
  BY <1>7, <1>8, <1>9, <1>10, <1>11, <1>12 DEF Inv

(* A timer that is called is due.                                          *)
LEMMA FireFacts ==
  ASSUME Inv, Fire
  PROVE  /\ 1 \in DOMAIN list
         /\ list[1] \in Timers
         /\ delta[list[1]] = 0
         /\ left[list[1]] = 0
<1>1. delta[NodeAt(1)] = 0
  BY DEF Fire
<1>2. 1 \in DOMAIN list
  BY <1>1, ListFacts DEF Inv, NodeAt
<1>3. list[1] \in Timers /\ delta[list[1]] = 0
  BY <1>1, <1>2, ListFacts DEF Inv, NodeAt
<1>4. left[list[1]] = LeftAt(0) + delta[list[1]]
  BY <1>2, ListFacts DEF Inv, DeltasAgree, LeftAt
<1> QED
  BY <1>2, <1>3, <1>4 DEF LeftAt

(* Calling the first timer.                                                *)
LEMMA FireInv ==
  ASSUME Inv, Fire
  PROVE  Inv'
<1> DEFINE n == Len(list)
<1>0. /\ n \in Nat /\ DOMAIN list = 1 .. n /\ 1 \in 1 .. n
      /\ \A j \in 1 .. n : list[j] \in Timers
      /\ Forever \in Nat
  BY FireFacts, ListFacts DEF Inv
<1>1. /\ setting = Nobody /\ serving /\ list' = Tail(list)
      /\ left' = [left EXCEPT ![list[1]] = Unarmed]
      /\ UNCHANGED <<delta, setting, rest, pos, serving, asked>>
  BY DEF Fire
<1>2. /\ list' \in Seq(Timers) /\ Len(list') = n - 1
      /\ DOMAIN list' = 1 .. n - 1
      /\ \A j \in 1 .. n - 1 : list'[j] = list[j + 1]
  <2>1. list \in Seq(Timers) /\ list # <<>>
    BY <1>0 DEF Inv, TypeOK
  <2>2. /\ Tail(list) \in Seq(Timers) /\ Len(Tail(list)) = n - 1
        /\ \A j \in 1 .. Len(Tail(list)) : Tail(list)[j] = list[j + 1]
    BY <2>1, HeadTailProperties
  <2> QED
    BY <1>0, <1>1, <2>2
<1>3. /\ left' \in [Timers -> Unarmed .. Forever]
      /\ left'[list[1]] = Unarmed
      /\ \A t \in Timers \ {list[1]} : left'[t] = left[t]
  <2>1. left \in [Timers -> Unarmed .. Forever] /\ list[1] \in Timers
    BY <1>0 DEF Inv, TypeOK
  <2>2. Unarmed \in Unarmed .. Forever
    BY <1>0 DEF Unarmed
  <2> QED
    BY <1>1, <2>1, <2>2
<1>4. \A j, k \in 1 .. n : list[j] = list[k] => j = k
  BY <1>0 DEF Inv, NoneOverdue
<1>5. \A j \in 2 .. n : left'[list[j]] = left[list[j]]
  BY <1>0, <1>3, <1>4
<1>6. TypeOK'
  <2>1. pos' \in 1 .. Len(list') + 1
    BY <1>0, <1>1, <1>2 DEF Inv, Searching
  <2> QED
    BY <1>1, <1>2, <1>3, <2>1 DEF Inv, TypeOK
<1>7. DeltasAgree'
  <2> SUFFICES ASSUME NEW j \in 1 .. n - 1
               PROVE  LeftAt(j)' = LeftAt(j - 1)' + delta[list[j + 1]]
    BY <1>1, <1>2 DEF DeltasAgree
  <2>1. j + 1 \in 2 .. n /\ (j + 1) - 1 = j /\ j \in 1 .. n
    BY <1>0
  <2>2. left[list[j + 1]] = left[list[j]] + delta[list[j + 1]]
    BY <1>0, <2>1 DEF Inv, DeltasAgree, LeftAt
  <2>3. LeftAt(j)' = left[list[j + 1]]
    BY <1>2, <1>5, <2>1 DEF LeftAt
  <2>4. CASE j = 1
    BY <2>2, <2>3, <2>4, FireFacts DEF LeftAt
  <2>5. CASE j > 1
    <3>1. j - 1 \in 1 .. n - 1 /\ (j - 1) + 1 = j /\ j \in 2 .. n
      BY <1>0, <2>5
    <3>2. LeftAt(j - 1)' = left[list[j]]
      <4>1. j - 1 # 0
        BY <3>1
      <4>2. LeftAt(j - 1)' = left'[list'[j - 1]]
        BY <4>1 DEF LeftAt
      <4> QED
        BY <1>2, <1>5, <3>1, <4>2
    <3> QED
      BY <2>2, <2>3, <3>2
  <2> QED
    BY <2>4, <2>5
<1>8. Sorted'
  <2> SUFFICES ASSUME NEW j \in 1 .. n - 1, NEW k \in 1 .. n - 1, j <= k
               PROVE  left'[list[j + 1]] <= left'[list[k + 1]]
    BY <1>2 DEF Sorted
  <2>1. j + 1 \in 2 .. n /\ k + 1 \in 2 .. n /\ j + 1 <= k + 1
    BY <1>0
  <2> QED
    BY <1>0, <1>5, <2>1 DEF Inv, Sorted
<1>9. NoneOverdue'
  <2>1. \A j, k \in DOMAIN list' : list'[j] = list'[k] => j = k
    BY <1>0, <1>2, <1>4
  <2>2. ASSUME NEW t \in Timers
        PROVE  left'[t] # Unarmed <=> InList(t)'
    <3>1. left[t] # Unarmed <=> \E j \in 1 .. n : list[j] = t
      BY <1>0 DEF Inv, NoneOverdue, InList
    <3>2. InList(t)' <=> \E j \in 1 .. n - 1 : list[j + 1] = t
      BY <1>2 DEF InList
    <3>3. CASE t = list[1]
      BY <1>0, <1>3, <1>4, <3>2, <3>3
    <3>4. CASE t # list[1]
      <4>1. ASSUME NEW j \in 1 .. n, list[j] = t
            PROVE  j - 1 \in 1 .. n - 1 /\ list[(j - 1) + 1] = t
        BY <1>0, <3>4, <4>1
      <4> QED
        BY <1>0, <1>3, <3>1, <3>2, <3>4, <4>1
    <3> QED
      BY <3>3, <3>4
  <2> QED
    BY <1>1, <2>1, <2>2 DEF NoneOverdue
<1>10. Searching'
  BY <1>1 DEF Inv, Searching
<1> QED
  BY <1>1, <1>6, <1>7, <1>8, <1>9, <1>10 DEF Inv

(* The loop of the tick ends when the first timer is not due; as the list  *)
(* is sorted, no other is.                                                 *)
LEMMA EndTickInv ==
  ASSUME Inv, EndTick
  PROVE  Inv'
<1>1. /\ setting = Nobody /\ delta[NodeAt(1)] # 0 /\ serving' = FALSE
      /\ UNCHANGED <<list, delta, setting, rest, pos, asked, left>>
  BY DEF EndTick
<1>2. ASSUME NEW t \in Timers, left[t] = 0
      PROVE  FALSE
  <2>1. InList(t)
    BY <1>2 DEF Inv, NoneOverdue, Unarmed
  <2>2. PICK j \in 1 .. Len(list) : list[j] = t
    BY <2>1, ListFacts DEF Inv, InList
  <2>3. 1 \in 1 .. Len(list) /\ 1 <= j
    BY <2>2, ListFacts DEF Inv
  <2>4. NodeAt(1) = list[1] /\ list[1] \in Timers
    BY <2>3, ListFacts DEF Inv, NodeAt
  <2>5. left[list[1]] = LeftAt(0) + delta[list[1]]
    BY <2>3, ListFacts DEF Inv, DeltasAgree, LeftAt
  <2>6. delta[list[1]] \in 1 .. Forever
    BY <1>1, <2>4, ListFacts DEF Inv, TypeOK, Nodes
  <2>7. left[list[1]] <= left[t]
    BY <2>2, <2>3, ListFacts DEF Inv, Sorted
  <2> QED
    BY <1>2, <2>5, <2>6, <2>7, ListFacts DEF Inv, LeftAt
<1>3. TypeOK'
  BY <1>1 DEF Inv, TypeOK
<1> QED
  BY <1>1, <1>2, <1>3
  DEF Inv, DeltasAgree, LeftAt, NoneOverdue, InList, Sorted, Searching

-----------------------------------------------------------------------------
(* The invariant is inductive.                                             *)
LEMMA InvInductive == Inv /\ [Next]_vars => Inv'
<1> SUFFICES ASSUME Inv, [Next]_vars PROVE Inv'
  OBVIOUS
<1>1. CASE UNCHANGED vars
  BY <1>1
  DEF Inv, TypeOK, DeltasAgree, LeftAt, NoneOverdue, InList, Sorted,
      Searching, vars
<1>2. CASE Next
  BY <1>2, ResetInv, SetInv, SearchInv, InsertInv, TickInv, FireInv,
     EndTickInv
  DEF Next
<1> QED
  BY <1>1, <1>2

(* The variables of chvt.c keep their types: nothing wraps around, and the *)
(* search for the place of a timer never runs past the header of the list. *)
THEOREM TypeCorrect == Spec => []TypeOK
<1>1. Inv => TypeOK
  BY DEF Inv
<1> QED
  BY <1>1, InitInv, InvInductive, PTL DEF Spec

(* The differences in the list always agree with the promised times.       *)
THEOREM DeltasAlwaysAgree == Spec => []DeltasAgree
<1>1. Inv => DeltasAgree
  BY DEF Inv
<1> QED
  BY <1>1, InitInv, InvInductive, PTL DEF Spec

(* Each armed timer is in the list once, and none is overdue at a tick.    *)
THEOREM NeverOverdue == Spec => []NoneOverdue
<1>1. Inv => NoneOverdue
  BY DEF Inv
<1> QED
  BY <1>1, InitInv, InvInductive, PTL DEF Spec

-----------------------------------------------------------------------------
(* Each step of the list is one of the promised timers, or none.           *)
LEMMA StepRefines ==
  ASSUME Inv, [Next]_vars
  PROVE  [Promise!Next]_left
<1>0. /\ Forever \in Nat /\ DOMAIN list = 1 .. Len(list)
      /\ \A i \in 1 .. Len(list) : list[i] \in Timers
  BY ListFacts DEF Inv
<1>1. ASSUME NEW i \in DOMAIN list, Unlink(i)
      PROVE  Promise!Next
  <2>1. list[i] \in Timers
    BY <1>0
  <2>2. Promise!Disarm(list[i])
    BY <1>1 DEF Unlink, Unarmed, Promise!Disarm, Promise!Unarmed
  <2> QED
    BY <2>1, <2>2 DEF Promise!Next
<1>2. CASE UNCHANGED vars
  BY <1>2 DEF vars
<1>3. ASSUME NEW t \in Timers, Reset(t)
      PROVE  Promise!Next
  BY <1>1, <1>3 DEF Reset
<1>4. ASSUME NEW t \in Timers, NEW delay \in 1 .. Forever, Set(t, delay)
      PROVE  [Promise!Next]_left
  BY <1>1, <1>4 DEF Set
<1>5. CASE Search
  BY <1>5 DEF Search
<1>6. CASE Insert
  <2>1. /\ setting \in Timers
        /\ left' = [left EXCEPT ![setting] = asked]
    BY <1>6 DEF Insert, Inv, TypeOK
  <2>2. asked \in 1 .. Forever
    <3>1. pos \in 1 .. Len(list) + 1 /\ rest \in Nat
      BY <1>0 DEF Inv, TypeOK
    <3>2. pos - 1 \in 0 .. Len(list)
      BY <3>1, ListFacts DEF Inv
    <3>3. LeftAt(pos - 1) \in 0 .. Forever
      BY <3>2, LeftFacts
    <3>4. rest >= 1 /\ asked = LeftAt(pos - 1) + rest
      BY <1>6 DEF Insert, Inv, Searching
    <3>5. asked \in 0 .. Forever
      BY DEF Inv, TypeOK
    <3> QED
      BY <1>0, <3>1, <3>3, <3>4, <3>5
  <2>3. Promise!Set(setting, asked)
    BY <2>1 DEF Promise!Set
  <2> QED
    BY <2>1, <2>2, <2>3 DEF Promise!Next
<1>7. CASE Tick
  <2>1. \A t \in Timers : left[t] # 0
    BY <1>7 DEF Tick, Inv, NoneOverdue
  <2>2. Promise!Tick
    BY <1>7, <2>1
    DEF Tick, CountOne, Unarmed, Promise!Tick, Promise!Unarmed
  <2> QED
    BY <2>2 DEF Promise!Next
<1>8. CASE Fire
  <2>1. list[1] \in Timers /\ left[list[1]] = 0
    BY <1>8, FireFacts
  <2>2. Promise!Fire(list[1])
    BY <1>8, <2>1
    DEF Fire, Unarmed, Promise!Fire, Promise!Disarm, Promise!Unarmed
  <2> QED
    BY <2>1, <2>2 DEF Promise!Next
<1>9. CASE EndTick
  BY <1>9 DEF EndTick
<1> QED
  BY <1>2, <1>3, <1>4, <1>5, <1>6, <1>7, <1>8, <1>9 DEF Next

(* The list keeps the promise of the timers: each is called at the tick    *)
(* that it was set to, unless it is set again or reset before.  That it is *)
(* eventually called is the part of KeepsPromise that TLC checks.          *)
THEOREM CalledOnTime == Spec => Promise!Spec
<1>1. Init => Promise!Init
  BY DEF Init, Promise!Init, Unarmed, Promise!Unarmed
<1>2. Inv /\ [Next]_vars => [Promise!Next]_left
  BY StepRefines
<1> QED
  BY <1>1, <1>2, InitInv, InvInductive, PTL DEF Spec, Promise!Spec

=============================================================================
