------------------------------ MODULE MixProofs ------------------------------
(***************************************************************************)
(* What the operators of module Mix compute, for ranges of any number.      *)
(*                                                                          *)
(* They are folds and recursive functions, so their facts go by induction.  *)
(* The induction theorems of the library quantify over an operator, which   *)
(* no prover here can instantiate; over a SET of numbers the same can be    *)
(* said without one, and follows from the well-foundedness of strict        *)
(* inclusion among finite sets.                                             *)
(***************************************************************************)
EXTENDS Mix, FiniteSetTheorems, SequenceTheorems, TLAPS

(* A set of numbers that holds 0 and, below n, the successor of each of     *)
(* its members holds 0..n.                                                  *)
THEOREM IntervalInduction ==
  ASSUME NEW n \in Nat, NEW K, 0 \in K,
         \A k \in 0..n - 1 : k \in K => k + 1 \in K
  PROVE  \A k \in 0..n : k \in K
<1> SUFFICES ASSUME NEW m \in 0..n, m \notin K PROVE FALSE
  OBVIOUS
<1> DEFINE I == SUBSET (0..n)
           Bad == {0..k : k \in {k \in 0..n : k \notin K}}
           R == StrictSubsetOrdering(0..n)
<1>1. IsWellFoundedOn(R, I)
  <2>1. IsFiniteSet(0..n)
    BY FS_Interval
  <2> QED
    BY <2>1, FS_StrictSubsetOrderingWellFounded, FS_FiniteSubsetsOfFinite
<1>2. Bad \subseteq I /\ Bad # {}
  OBVIOUS
<1>3. PICK T \in Bad : \A U \in Bad : <<U, T>> \notin R
  <2> HIDE DEF R, Bad, I
  <2> QED
    BY <1>1, <1>2, WFMin
<1>4. PICK k \in 0..n : k \notin K /\ T = 0..k
  BY <1>3
<1>5. k # 0 /\ k - 1 \in 0..n - 1 /\ (k - 1) + 1 = k
  BY <1>4
<1>6. k - 1 \notin K
  BY <1>4, <1>5
<1>7. 0..(k - 1) \in Bad
  BY <1>5, <1>6
<1>8. <<0..(k - 1), 0..k>> \in R
  <2>1. 0..(k - 1) \subseteq 0..k /\ k \in 0..k /\ k \notin 0..(k - 1)
    BY <1>5
  <2>2. 0..k \in I /\ 0..(k - 1) \in I
    BY <1>5
  <2> QED
    BY <2>1, <2>2 DEF StrictSubsetOrdering
<1> QED
  BY <1>3, <1>4, <1>7, <1>8

-----------------------------------------------------------------------------

LEMMA MaxOfInterval ==
  ASSUME NEW n \in Nat, NEW T \in SUBSET (1..n), n \in T
  PROVE  Max(T) = n
<1>1. \E x \in T : \A y \in T : x >= y
  OBVIOUS
<1>2. Max(T) \in T /\ \A y \in T : Max(T) >= y
  BY <1>1 DEF Max
<1>3. Max(T) >= n /\ Max(T) \in 1..n
  BY <1>2
<1>4. \A x \in 1..n : x >= n => x = n
  OBVIOUS
<1> HIDE DEF Max
<1> QED
  BY <1>3, <1>4

(* The iteration behind FoldLeft has a solution: `it` is folded along every *)
(* set of indices, the greatest last.                                       *)
IsFoldOf(it, n, b, G) ==
  it = [T \in SUBSET (1..n) |->
         IF T = {} THEN b ELSE G[<<it[T \ {Max(T)}], Max(T)>>]]

LEMMA FoldExists ==
  ASSUME NEW n \in Nat, NEW D, NEW b \in D, NEW G \in [D \X (1..n) -> D]
  PROVE  \E it \in [SUBSET (1..n) -> D] :
           IsFoldOf(it, n, b, G) /\ \A T \in SUBSET (1..n) : T # {} => Max(T) \in 1..n
<1> DEFINE Good(it, k) ==
             /\ it \in [SUBSET (1..k) -> D]
             /\ IsFoldOf(it, k, b, G)
             /\ \A T \in SUBSET (1..k) : T # {} => Max(T) \in 1..k
           K == {k \in 0..n : \E it : Good(it, k)}
<1>1. 0 \in K
  <2> DEFINE it == [T \in SUBSET (1..0) |-> b]
  <2>1. \A T \in SUBSET (1..0) : T = {}
    OBVIOUS
  <2>2. Good(it, 0)
    BY <2>1 DEF IsFoldOf
  <2> QED
    BY <2>2
<1>2. ASSUME NEW k \in 0..n - 1, k \in K PROVE k + 1 \in K
  <2>1. PICK it : Good(it, k)
    BY <1>2
  <2> DEFINE m == k + 1
             ut == [T \in SUBSET (1..m) |->
                     IF m \in T THEN G[<<it[T \ {m}], m>>] ELSE it[T]]
  <2>2. m \in 1..n /\ k \in Nat
    OBVIOUS
  <2>3. \A T \in SUBSET (1..m) : m \in T => Max(T) = m /\ T \ {m} \in SUBSET (1..k) /\ m \notin T \ {m}
    BY MaxOfInterval
  <2>4. \A T \in SUBSET (1..m) : m \notin T => T \in SUBSET (1..k)
    OBVIOUS
  <2>5. ut \in [SUBSET (1..m) -> D]
    <3> SUFFICES ASSUME NEW T \in SUBSET (1..m) PROVE ut[T] \in D
      OBVIOUS
    <3>1. CASE m \in T
      BY <2>1, <2>2, <2>3, <3>1
    <3>2. CASE m \notin T
      BY <2>1, <2>4, <3>2
    <3> QED
      BY <3>1, <3>2
  <2>6. ASSUME NEW T \in SUBSET (1..m)
        PROVE  /\ ut[T] = IF T = {} THEN b ELSE G[<<ut[T \ {Max(T)}], Max(T)>>]
               /\ T # {} => Max(T) \in 1..m
    <3>1. CASE m \in T
      <4>1. Max(T) = m /\ T \ {m} \in SUBSET (1..m) /\ m \notin T \ {m}
        BY <2>3, <3>1
      <4>2. ut[T \ {m}] = it[T \ {m}]
        BY <4>1
      <4> QED
        BY <3>1, <4>1, <4>2
    <3>2. CASE m \notin T
      <4>1. T \in SUBSET (1..k) /\ ut[T] = it[T]
        BY <2>4, <3>2
      <4>2. /\ it[T] = IF T = {} THEN b ELSE G[<<it[T \ {Max(T)}], Max(T)>>]
            /\ T # {} => Max(T) \in 1..k
        BY <2>1, <4>1 DEF IsFoldOf
      <4>3. ut[T \ {Max(T)}] = it[T \ {Max(T)}]
        BY <3>2, <4>1
      <4> QED
        BY <4>1, <4>2, <4>3
    <3> QED
      BY <3>1, <3>2
  <2>7. IsFoldOf(ut, m, b, G)
    <3> HIDE DEF m
    <3>1. ut = [T \in SUBSET (1..m) |-> ut[T]]
      OBVIOUS
    <3> HIDE DEF ut
    <3> QED
      BY <2>6, <3>1 DEF IsFoldOf
  <2>8. Good(ut, m)
    <3> HIDE DEF ut, m
    <3> QED
      BY <2>5, <2>6, <2>7
  <2> QED
    <3> HIDE DEF Good
    <3> QED
      BY <2>2, <2>8
<1>3. n \in K
  <2> HIDE DEF K
  <2> QED
    BY <1>1, <1>2, IntervalInduction
<1> QED
  BY <1>3

(* What is folded, step by step: c stands for the function FoldLeft chooses *)
(* and G for its step.                                                      *)
FoldsBy(c, n, D, b, G) ==
  /\ c[{}] = b
  /\ \A T \in SUBSET (1..n) :
       T # {} /\ c[T \ {Max(T)}] \in D => c[T] = G[<<c[T \ {Max(T)}], Max(T)>>]

StepsOf(F, n, D, b, G, v) ==
  /\ F \in [0..n -> D]
  /\ F[0] = b /\ F[n] = v
  /\ \A k \in 1..n : F[k] = G[<<F[k - 1], k>>]

LEMMA FoldSteps ==
  ASSUME NEW n \in Nat, NEW D, NEW b \in D, NEW G \in [D \X (1..n) -> D], NEW c,
         FoldsBy(c, n, D, b, G)
  PROVE  \E F : StepsOf(F, n, D, b, G, c[1..n])
<1> DEFINE F == [k \in 0..n |-> c[1..k]]
           K == {k \in 0..n : F[k] \in D}
<1>1. F[0] = b /\ c[1..n] = F[n]
  <2>1. 1..0 = {} /\ 0 \in 0..n /\ n \in 0..n
    OBVIOUS
  <2> QED
    BY <2>1 DEF FoldsBy
<1>2. ASSUME NEW k \in 1..n, F[k - 1] \in D
      PROVE  F[k] = G[<<F[k - 1], k>>] /\ F[k] \in D
  <2>1. 1..k \in SUBSET (1..n) /\ 1..k \in SUBSET (1..k) /\ k \in 1..k /\ 1..k # {}
    OBVIOUS
  <2>2. Max(1..k) = k
    BY <2>1, MaxOfInterval
  <2>3. (1..k) \ {k} = 1..(k - 1)
    OBVIOUS
  <2>4. k - 1 \in 0..n /\ k \in 0..n
    OBVIOUS
  <2>5. c[1..(k - 1)] \in D
    BY <1>2, <2>4
  <2>6. c[1..k] = G[<<c[1..(k - 1)], k>>]
    <3> HIDE DEF F
    <3> QED
      BY <2>1, <2>2, <2>3, <2>5 DEF FoldsBy
  <2>7. F[k] = G[<<F[k - 1], k>>]
    BY <2>4, <2>6
  <2> QED
    BY <1>2, <2>7
<1>3. \A k \in 0..n : k \in K
  <2>1. 0 \in K
    BY <1>1
  <2>2. ASSUME NEW k \in 0..n - 1, k \in K PROVE k + 1 \in K
    <3>1. k + 1 \in 1..n /\ (k + 1) - 1 = k /\ k + 1 \in 0..n
      OBVIOUS
    <3>2. F[(k + 1) - 1] \in D
      BY <2>2, <3>1
    <3> HIDE DEF F
    <3> QED
      BY <1>2, <3>1, <3>2
  <2> HIDE DEF K
  <2> QED
    BY <2>1, <2>2, IntervalInduction
<1>4. F \in [0..n -> D]
  BY <1>3
<1>5. \A k \in 1..n : F[k] = G[<<F[k - 1], k>>]
  <2> SUFFICES ASSUME NEW k \in 1..n PROVE F[k] = G[<<F[k - 1], k>>]
    OBVIOUS
  <2>1. k - 1 \in 0..n
    OBVIOUS
  <2>2. F[k - 1] \in D
    BY <1>3, <2>1
  <2> HIDE DEF F
  <2> QED
    BY <1>2, <2>2
<1> QED
  BY <1>1, <1>4, <1>5 DEF StepsOf

(* The steps of a fold over fewer elements are its first steps.             *)
SameSteps(G, H, D, m) == \A p \in D \X (1..m) : G[p] = H[p]

LEMMA FoldPrefix ==
  ASSUME NEW n \in Nat, NEW m \in 0..n, NEW D, NEW b, NEW G, NEW H, NEW F, NEW E, NEW v, NEW w,
         StepsOf(F, n, D, b, G, v), StepsOf(E, m, D, b, H, w),
         SameSteps(G, H, D, m)
  PROVE  (\A k \in 0..m : E[k] = F[k]) /\ w = F[m]
<1> DEFINE K == {k \in 0..m : E[k] = F[k]}
<1>1. 0 \in K
  BY DEF StepsOf
<1>2. ASSUME NEW k \in 0..m - 1, k \in K PROVE k + 1 \in K
  <2>1. k + 1 \in 1..m /\ k + 1 \in 1..n /\ (k + 1) - 1 = k /\ k \in 0..m /\ k + 1 \in 0..m
    OBVIOUS
  <2>2. E[k] \in D /\ F[k] = E[k]
    BY <1>2, <2>1 DEF StepsOf
  <2>3. E[k + 1] = H[<<E[k], k + 1>>] /\ F[k + 1] = G[<<F[k], k + 1>>]
    BY <2>1 DEF StepsOf
  <2> QED
    BY <2>1, <2>2, <2>3 DEF SameSteps
<1>3. \A k \in 0..m : k \in K
  <2> HIDE DEF K
  <2> QED
    BY <1>1, <1>2, IntervalInduction
<1> QED
  BY <1>3 DEF StepsOf

LEMMA StepsExist ==
  ASSUME NEW n \in Nat, NEW D, NEW b \in D, NEW G \in [D \X (1..n) -> D]
  PROVE  \E F : \E v : StepsOf(F, n, D, b, G, v)
<1>1. PICK it \in [SUBSET (1..n) -> D] :
        IsFoldOf(it, n, b, G) /\ \A T \in SUBSET (1..n) : T # {} => Max(T) \in 1..n
  BY FoldExists
<1>2. FoldsBy(it, n, D, b, G)
  BY <1>1 DEF IsFoldOf, FoldsBy
<1> QED
  BY <1>2, FoldSteps

-----------------------------------------------------------------------------

(* The elements of a longer sequence.                                       *)
LEMMA AppendToSet ==
  ASSUME NEW A, NEW s \in Seq(A), NEW x
  PROVE  ToSet(Append(s, x)) = ToSet(s) \cup {x}
<1>1. /\ DOMAIN Append(s, x) = DOMAIN s \cup {Len(s) + 1}
      /\ Append(s, x)[Len(s) + 1] = x /\ Len(s) + 1 \notin DOMAIN s
      /\ \A i \in DOMAIN s : Append(s, x)[i] = s[i]
  OBVIOUS
<1> QED
  BY <1>1 DEF ToSet

KeepStep(s, S, A) ==
  [p \in Seq(A) \X (1..Len(s)) |-> IF s[p[2]] \in S THEN Append(p[1], s[p[2]]) ELSE p[1]]

LEMMA KeepSteps ==
  ASSUME NEW A, NEW s \in Seq(A), NEW S
  PROVE  \E F : StepsOf(F, Len(s), Seq(A), << >>, KeepStep(s, S, A), Keep(s, S))
<1> DEFINE n == Len(s)
           Solves(it) == it = [T \in SUBSET DOMAIN s |-> IF T = {} THEN << >>
                                 ELSE IF s[Max(T)] \in S THEN Append(it[T \ {Max(T)}], s[Max(T)]) ELSE it[T \ {Max(T)}]]
           c == CHOOSE it : Solves(it)
<1>1. n \in Nat /\ DOMAIN s = 1..n /\ \A i \in 1..n : s[i] \in A
  OBVIOUS
<1>2. Keep(s, S) = c[1..n]
  BY <1>1 DEF Keep, FoldLeft, MapThenFoldSet
<1>3. << >> \in Seq(A) /\ KeepStep(s, S, A) \in [Seq(A) \X (1..n) -> Seq(A)]
  BY <1>1 DEF KeepStep
<1>4. PICK it \in [SUBSET (1..n) -> Seq(A)] :
        IsFoldOf(it, n, << >>, KeepStep(s, S, A)) /\ \A T \in SUBSET (1..n) : T # {} => Max(T) \in 1..n
  <2> HIDE DEF n
  <2> QED
    BY <1>1, <1>3, FoldExists
<1>5. Solves(it)
  BY <1>1, <1>4 DEF IsFoldOf, KeepStep
<1>6. Solves(c)
  <2> HIDE DEF Solves
  <2> QED
    BY <1>5
<1>7. FoldsBy(c, n, Seq(A), << >>, KeepStep(s, S, A))
  <2> HIDE DEF c
  <2> QED
    BY <1>1, <1>4, <1>6 DEF FoldsBy, KeepStep
<1>8. \E F : StepsOf(F, n, Seq(A), << >>, KeepStep(s, S, A), c[1..n])
  <2> HIDE DEF n, c
  <2> QED
    BY <1>1, <1>3, <1>7, FoldSteps
<1> HIDE DEF c
<1> QED
  BY <1>2, <1>8

(* Keep takes the elements that are in S, in their order.                   *)
LEMMA KeepFacts ==
  ASSUME NEW A, NEW s \in Seq(A), NEW S
  PROVE  /\ Keep(s, S) \in Seq(A)
         /\ ToSet(Keep(s, S)) = ToSet(s) \cap S
         /\ ToSet(s) \subseteq S => Keep(s, S) = s
         /\ ToSet(s) \cap S = {} => Keep(s, S) = << >>
<1> DEFINE n == Len(s)
<1>1. n \in Nat /\ DOMAIN s = 1..n /\ \A i \in 1..n : s[i] \in A
  OBVIOUS
<1>2. PICK F : StepsOf(F, n, Seq(A), << >>, KeepStep(s, S, A), Keep(s, S))
  BY KeepSteps
<1> HIDE DEF n
<1>3. F \in [0..n -> Seq(A)] /\ F[0] = << >> /\ F[n] = Keep(s, S)
  BY <1>2 DEF StepsOf
<1>4. ASSUME NEW k \in 0..n - 1
      PROVE  F[k + 1] = IF s[k + 1] \in S THEN Append(F[k], s[k + 1]) ELSE F[k]
  <2>1. k + 1 \in 1..n /\ (k + 1) - 1 = k /\ k \in 0..n
    BY <1>1
  <2>2. F[k + 1] = KeepStep(s, S, A)[<<F[k], k + 1>>] /\ F[k] \in Seq(A)
    BY <2>1, <1>2, <1>3 DEF StepsOf
  <2> QED
    BY <2>1, <2>2 DEF KeepStep, n
<1> DEFINE Upto(k) == {s[i] : i \in 1..k}
           K == {k \in 0..n :
                  /\ ToSet(F[k]) = Upto(k) \cap S
                  /\ Upto(k) \subseteq S => F[k] = SubSeq(s, 1, k)
                  /\ Upto(k) \cap S = {} => F[k] = << >>}
<1>5. 0 \in K
  BY <1>1, <1>3 DEF ToSet
<1>6. ASSUME NEW k \in 0..n - 1, k \in K PROVE k + 1 \in K
  <2>1. /\ k \in 0..n /\ k + 1 \in 1..n /\ k + 1 \in 0..n
        /\ F[k] \in Seq(A) /\ F[k + 1] \in Seq(A) /\ s[k + 1] \in A
    <3>1. k \in 0..n /\ k + 1 \in 1..n /\ k + 1 \in 0..n
      BY <1>1
    <3> QED
      BY <3>1, <1>1, <1>3
  <2>2. Upto(k + 1) = Upto(k) \cup {s[k + 1]}
    BY <2>1
  <2>3. ToSet(Append(F[k], s[k + 1])) = ToSet(F[k]) \cup {s[k + 1]}
    BY <2>1, AppendToSet
  <2>4. SubSeq(s, 1, k + 1) = Append(SubSeq(s, 1, k), s[k + 1])
    BY <2>1 DEF n
  <2>5. /\ ToSet(F[k]) = Upto(k) \cap S
        /\ Upto(k) \subseteq S => F[k] = SubSeq(s, 1, k)
        /\ Upto(k) \cap S = {} => F[k] = << >>
    BY <1>6
  <2>6. F[k + 1] = IF s[k + 1] \in S THEN Append(F[k], s[k + 1]) ELSE F[k]
    BY <1>4
  <2> HIDE DEF Upto
  <2>7. CASE s[k + 1] \in S
    BY <2>1, <2>2, <2>3, <2>4, <2>5, <2>6, <2>7
  <2>8. CASE s[k + 1] \notin S
    BY <2>1, <2>2, <2>5, <2>6, <2>8
  <2> QED
    BY <2>7, <2>8
<1>7. \A k \in 0..n : k \in K
  <2> HIDE DEF K
  <2> QED
    BY <1>1, <1>5, <1>6, IntervalInduction
<1>8. n \in 0..n /\ ToSet(s) = Upto(n) /\ SubSeq(s, 1, n) = s
  BY <1>1 DEF n, ToSet
<1>9. /\ ToSet(F[n]) = Upto(n) \cap S
      /\ Upto(n) \subseteq S => F[n] = SubSeq(s, 1, n)
      /\ Upto(n) \cap S = {} => F[n] = << >>
  BY <1>7, <1>8
<1> HIDE DEF Upto
<1> QED
  BY <1>3, <1>8, <1>9

-----------------------------------------------------------------------------

(* Ranges of at least one slot, as the decoders let them through.           *)
RangesOver(G, M) == {r \in [group : G, lo : 0..M, hi : 0..M] : r.lo <= r.hi}

TotalStep(rs) == [p \in Nat \X (1..Len(rs)) |-> p[1] + Count(rs[p[2]])]

LEMMA TotalSteps ==
  ASSUME NEW G, NEW M \in Nat, NEW rs \in Seq(RangesOver(G, M))
  PROVE  \E F : StepsOf(F, Len(rs), Nat, 0, TotalStep(rs), Total(rs))
<1> DEFINE n == Len(rs)
           Solves(it) == it = [T \in SUBSET DOMAIN rs |-> IF T = {} THEN 0
                                 ELSE it[T \ {Max(T)}] + Count(rs[Max(T)])]
           c == CHOOSE it : Solves(it)
<1>1. n \in Nat /\ DOMAIN rs = 1..n /\ \A i \in 1..n : rs[i] \in RangesOver(G, M)
  OBVIOUS
<1>2. Total(rs) = c[1..n]
  BY <1>1 DEF Total, FoldLeft, MapThenFoldSet
<1>3. 0 \in Nat /\ TotalStep(rs) \in [Nat \X (1..n) -> Nat]
  BY <1>1 DEF TotalStep, Count, RangesOver
<1>4. PICK it \in [SUBSET (1..n) -> Nat] :
        IsFoldOf(it, n, 0, TotalStep(rs)) /\ \A T \in SUBSET (1..n) : T # {} => Max(T) \in 1..n
  <2> HIDE DEF n
  <2> QED
    BY <1>1, <1>3, FoldExists
<1>5. Solves(it)
  BY <1>1, <1>4 DEF IsFoldOf, TotalStep
<1>6. Solves(c)
  <2> HIDE DEF Solves
  <2> QED
    BY <1>5
<1>7. FoldsBy(c, n, Nat, 0, TotalStep(rs))
  <2> HIDE DEF c
  <2> QED
    BY <1>1, <1>4, <1>6 DEF FoldsBy, TotalStep
<1>8. \E F : StepsOf(F, n, Nat, 0, TotalStep(rs), c[1..n])
  <2> HIDE DEF n, c
  <2> QED
    BY <1>1, <1>3, <1>7, FoldSteps
<1> HIDE DEF c
<1> QED
  BY <1>2, <1>8

(* The segments of the inputs lie one after the other, from 0 to the total. *)
LEMMA IndexStarts ==
  ASSUME NEW G, NEW M \in Nat, NEW rs \in Seq(RangesOver(G, M))
  PROVE  /\ Total(rs) \in Nat
         /\ \A i \in 1..Len(rs) + 1 : IndexStart(rs, i) \in Nat
         /\ IndexStart(rs, 1) = 0
         /\ IndexStart(rs, Len(rs) + 1) = Total(rs)
         /\ \A i \in 1..Len(rs) :
              /\ Count(rs[i]) \in Nat \ {0}
              /\ IndexStart(rs, i + 1) = IndexStart(rs, i) + Count(rs[i])
<1> DEFINE n == Len(rs)
<1>1. n \in Nat /\ DOMAIN rs = 1..n /\ \A i \in 1..n : rs[i] \in RangesOver(G, M)
  OBVIOUS
<1>2. PICK F : StepsOf(F, Len(rs), Nat, 0, TotalStep(rs), Total(rs))
  BY TotalSteps
<1>3. F \in [0..n -> Nat] /\ F[0] = 0 /\ F[n] = Total(rs)
  BY <1>2 DEF StepsOf
<1>4. ASSUME NEW i \in 1..n + 1 PROVE IndexStart(rs, i) = F[i - 1]
  <2> DEFINE m == i - 1
             us == SubSeq(rs, 1, m)
  <2>1. m \in 0..n /\ us \in Seq(RangesOver(G, M)) /\ Len(us) = m /\ \A j \in 1..m : us[j] = rs[j]
    <3>1. m \in 0..n
      BY <1>1
    <3> HIDE DEF m
    <3> QED
      BY <3>1, <1>1, SubSeqProperties
  <2> HIDE DEF m
  <2>2. PICK E : StepsOf(E, m, Nat, 0, TotalStep(us), Total(us))
    BY <2>1, TotalSteps
  <2>3. SameSteps(TotalStep(rs), TotalStep(us), Nat, m)
    <3> SUFFICES ASSUME NEW p \in Nat \X (1..m) PROVE TotalStep(rs)[p] = TotalStep(us)[p]
      BY DEF SameSteps
    <3>1. p[2] \in 1..m /\ p[2] \in 1..n /\ p[1] \in Nat
      BY <1>1, <2>1
    <3>2. TotalStep(rs)[p] = p[1] + Count(rs[p[2]])
      BY <3>1 DEF TotalStep
    <3>3. TotalStep(us)[p] = p[1] + Count(us[p[2]])
      BY <2>1, <3>1 DEF TotalStep
    <3> QED
      BY <2>1, <3>1, <3>2, <3>3
  <2>4. Total(us) = F[m]
    <3> HIDE DEF us
    <3> QED
      BY <1>1, <1>2, <2>1, <2>2, <2>3, FoldPrefix
  <2> QED
    BY <2>4 DEF IndexStart, m
<1>5. ASSUME NEW i \in 1..n
      PROVE  Count(rs[i]) \in Nat \ {0} /\ F[i] = F[i - 1] + Count(rs[i])
  <2>1. rs[i] \in RangesOver(G, M) /\ i - 1 \in 0..n
    BY <1>1
  <2>2. Count(rs[i]) \in Nat \ {0}
    BY <2>1 DEF RangesOver, Count
  <2>3. F[i] = TotalStep(rs)[<<F[i - 1], i>>] /\ F[i - 1] \in Nat
    BY <2>1, <1>2, <1>3 DEF StepsOf
  <2>4. <<F[i - 1], i>> \in Nat \X (1..n)
    BY <2>3
  <2> QED
    BY <2>2, <2>3, <2>4 DEF TotalStep
<1>6. ASSUME NEW i \in 1..n + 1 PROVE F[i - 1] \in Nat
  BY <1>1, <1>3
<1>7. IndexStart(rs, 1) = 0 /\ IndexStart(rs, n + 1) = Total(rs)
  <2>1. 1 \in 1..n + 1 /\ n + 1 \in 1..n + 1 /\ 1 - 1 = 0 /\ (n + 1) - 1 = n
    BY <1>1
  <2> HIDE DEF n
  <2> QED
    BY <1>3, <1>4, <2>1
<1>8. ASSUME NEW i \in 1..n PROVE IndexStart(rs, i + 1) = F[i] /\ IndexStart(rs, i) = F[i - 1]
  <2>1. i \in 1..n + 1 /\ i + 1 \in 1..n + 1 /\ (i + 1) - 1 = i
    BY <1>1
  <2> HIDE DEF n
  <2> QED
    BY <1>4, <2>1
<1>9. Total(rs) \in Nat
  BY <1>1, <1>3
<1> HIDE DEF n
<1>10. \A i \in 1..n + 1 : IndexStart(rs, i) \in Nat
  BY <1>4, <1>6
<1>11. \A i \in 1..n :
         /\ Count(rs[i]) \in Nat \ {0}
         /\ IndexStart(rs, i + 1) = IndexStart(rs, i) + Count(rs[i])
  BY <1>5, <1>8
<1> QED
  BY <1>7, <1>9, <1>10, <1>11 DEF n

(* Every index is in one of them.                                           *)
LEMMA SegmentOfIndex ==
  ASSUME NEW G, NEW M \in Nat, NEW rs \in Seq(RangesOver(G, M)), NEW c \in 0..Total(rs) - 1
  PROVE  \E i \in 1..Len(rs) : IndexStart(rs, i) <= c /\ c < IndexStart(rs, i + 1)
<1> DEFINE n == Len(rs)
           Has(k) == \E i \in 1..k : IndexStart(rs, i) <= c /\ c < IndexStart(rs, i + 1)
           K == {k \in 0..n : c < IndexStart(rs, k + 1) => Has(k)}
<1>1. /\ n \in Nat /\ c \in Nat /\ c < Total(rs)
      /\ IndexStart(rs, 1) = 0 /\ IndexStart(rs, n + 1) = Total(rs)
      /\ \A i \in 1..n + 1 : IndexStart(rs, i) \in Nat
  BY IndexStarts
<1> HIDE DEF n
<1>2. 0 \in K
  BY <1>1
<1>3. ASSUME NEW k \in 0..n - 1, k \in K PROVE k + 1 \in K
  <2>1. k + 1 \in 0..n /\ k + 1 \in 1..n + 1 /\ (k + 1) + 1 \in 1..n + 1
    BY <1>1
  <2>2. IndexStart(rs, k + 1) \in Nat /\ IndexStart(rs, (k + 1) + 1) \in Nat
    BY <1>1, <2>1
  <2>3. SUFFICES ASSUME c < IndexStart(rs, (k + 1) + 1) PROVE Has(k + 1)
    BY <2>1
  <2>4. CASE c < IndexStart(rs, k + 1)
    BY <1>3, <2>4
  <2>5. CASE ~(c < IndexStart(rs, k + 1))
    <3>1. IndexStart(rs, k + 1) <= c
      BY <1>1, <2>2, <2>5
    <3>2. k + 1 \in 1..(k + 1)
      BY <2>1
    <3> QED
      BY <2>3, <3>1, <3>2
  <2> QED
    BY <2>4, <2>5
<1>4. \A k \in 0..n : k \in K
  <2> HIDE DEF K
  <2> QED
    BY <1>1, <1>2, <1>3, IntervalInduction
<1>5. n \in K
  BY <1>1, <1>4
<1> QED
  BY <1>1, <1>5 DEF n

LEMMA ConcatToSet ==
  ASSUME NEW A, NEW s \in Seq(A), NEW u \in Seq(A)
  PROVE  ToSet(s \o u) = ToSet(s) \cup ToSet(u)
<1>1. /\ s \o u \in Seq(A) /\ Len(s \o u) = Len(s) + Len(u)
      /\ \A i \in 1..Len(s) : (s \o u)[i] = s[i]
      /\ \A j \in 1..Len(u) : (s \o u)[Len(s) + j] = u[j]
  BY ConcatProperties
<1>2. /\ Len(s) \in Nat /\ Len(u) \in Nat /\ DOMAIN s = 1..Len(s) /\ DOMAIN u = 1..Len(u)
      /\ DOMAIN (s \o u) = 1..Len(s) + Len(u)
  BY <1>1
<1>3. ASSUME NEW x \in ToSet(s \o u) PROVE x \in ToSet(s) \cup ToSet(u)
  <2>1. PICK i \in 1..Len(s) + Len(u) : x = (s \o u)[i]
    BY <1>2 DEF ToSet
  <2>2. CASE i <= Len(s)
    BY <1>1, <1>2, <2>1, <2>2 DEF ToSet
  <2>3. CASE ~(i <= Len(s))
    <3>1. i - Len(s) \in 1..Len(u) /\ Len(s) + (i - Len(s)) = i
      BY <1>2, <2>3
    <3>2. x = u[i - Len(s)]
      BY <1>1, <2>1, <3>1
    <3> QED
      BY <1>2, <3>1, <3>2 DEF ToSet
  <2> QED
    BY <2>2, <2>3
<1>4. ASSUME NEW x \in ToSet(s) \cup ToSet(u) PROVE x \in ToSet(s \o u)
  <2>1. CASE x \in ToSet(s)
    <3>1. PICK i \in 1..Len(s) : x = s[i]
      BY <1>2, <2>1 DEF ToSet
    <3>2. i \in 1..Len(s) + Len(u)
      BY <1>2
    <3> QED
      BY <1>1, <1>2, <3>1, <3>2 DEF ToSet
  <2>2. CASE x \in ToSet(u)
    <3>1. PICK j \in 1..Len(u) : x = u[j]
      BY <1>2, <2>2 DEF ToSet
    <3>2. Len(s) + j \in 1..Len(s) + Len(u)
      BY <1>2
    <3> QED
      BY <1>1, <1>2, <3>1, <3>2 DEF ToSet
  <2> QED
    BY <2>1, <2>2
<1> QED
  BY <1>3, <1>4

-----------------------------------------------------------------------------

FlattenStep(ss, A) == [p \in Seq(A) \X (1..Len(ss)) |-> p[1] \o ss[p[2]]]

LEMMA FlattenSteps ==
  ASSUME NEW A, NEW ss \in Seq(Seq(A))
  PROVE  \E F : StepsOf(F, Len(ss), Seq(A), << >>, FlattenStep(ss, A), FlattenSeq(ss))
<1> DEFINE n == Len(ss)
<1>1. n \in Nat /\ DOMAIN ss = 1..n /\ \A i \in 1..n : ss[i] \in Seq(A)
  OBVIOUS
<1>2. << >> \in Seq(A) /\ FlattenStep(ss, A) \in [Seq(A) \X (1..n) -> Seq(A)]
  BY <1>1 DEF FlattenStep
<1>3. PICK F : \E v : StepsOf(F, n, Seq(A), << >>, FlattenStep(ss, A), v)
  <2> HIDE DEF n
  <2> QED
    BY <1>1, <1>2, StepsExist
<1>4. /\ F \in [0..n -> Seq(A)] /\ F[0] = << >>
      /\ \A k \in 1..n : F[k] = FlattenStep(ss, A)[<<F[k - 1], k>>]
  BY <1>3 DEF StepsOf
<1>5. \A k \in 1..n : F[k] = F[k - 1] \o ss[k] /\ F[k - 1] \in Seq(A)
  <2> SUFFICES ASSUME NEW k \in 1..n PROVE F[k] = F[k - 1] \o ss[k] /\ F[k - 1] \in Seq(A)
    OBVIOUS
  <2>1. k - 1 \in 0..n
    BY <1>1
  <2>2. F[k - 1] \in Seq(A) /\ F[k] = FlattenStep(ss, A)[<<F[k - 1], k>>]
    BY <1>4, <2>1
  <2> QED
    BY <2>2 DEF FlattenStep
<1>6. FlattenSeq(ss) = F[n]
  <2>1. CASE n = 0
    <3>1. FlattenSeq(ss) = ss /\ ss = << >>
      BY <2>1, <1>1 DEF FlattenSeq
    <3> QED
      BY <2>1, <3>1, <1>4
  <2>2. CASE n # 0
    <3> DEFINE Solves(f) == f = [i \in 1..n |-> IF i = 1 THEN ss[i] ELSE f[i - 1] \o ss[i]]
               f == CHOOSE f : Solves(f)
               f0 == [i \in 1..n |-> F[i]]
    <3>1. FlattenSeq(ss) = f[n]
      BY <2>2 DEF FlattenSeq
    <3>2. Solves(f0)
      <4> SUFFICES ASSUME NEW i \in 1..n
                   PROVE  F[i] = IF i = 1 THEN ss[i] ELSE f0[i - 1] \o ss[i]
        OBVIOUS
      <4>1. CASE i = 1
        <5>1. i - 1 = 0 /\ F[i - 1] = << >> /\ ss[i] \in Seq(A)
          BY <4>1, <1>1, <1>4
        <5>2. << >> \o ss[i] = ss[i]
          BY <5>1, ConcatEmptySeq
        <5>3. F[i] = F[i - 1] \o ss[i]
          BY <1>5
        <5> QED
          BY <4>1, <5>1, <5>2, <5>3
      <4>2. CASE i # 1
        <5>1. i - 1 \in 1..n
          BY <1>1, <4>2
        <5>2. f0[i - 1] = F[i - 1]
          BY <5>1
        <5> QED
          BY <4>2, <5>2, <1>5
      <4> QED
        BY <4>1, <4>2
    <3>3. Solves(f)
      <4> HIDE DEF Solves
      <4> QED
        BY <3>2
    <3> HIDE DEF f, n
    <3> DEFINE K == {k \in 0..n : k # 0 => f[k] = F[k]}
    <3>4. 0 \in K
      BY <1>1
    <3>5. ASSUME NEW k \in 0..n - 1, k \in K PROVE k + 1 \in K
      <4>1. k + 1 \in 1..n /\ k + 1 \in 0..n /\ (k + 1) - 1 = k
        BY <1>1
      <4>2. f[k + 1] = IF k + 1 = 1 THEN ss[k + 1] ELSE f[k] \o ss[k + 1]
        BY <3>3, <4>1
      <4>3. F[k + 1] = F[k] \o ss[k + 1]
        BY <1>5, <4>1
      <4>4. CASE k = 0
        BY <4>1, <4>2, <4>3, <4>4, <1>1, <1>4, ConcatEmptySeq
      <4>5. CASE k # 0
        <5>1. k + 1 # 1
          BY <4>5
        <5>2. f[k] = F[k]
          BY <3>5, <4>5
        <5> QED
          BY <5>1, <5>2, <4>1, <4>2, <4>3
      <4> QED
        BY <4>4, <4>5
    <3>6. \A k \in 0..n : k \in K
      <4> HIDE DEF K
      <4> QED
        BY <1>1, <3>4, <3>5, IntervalInduction
    <3>7. f[n] = F[n]
      BY <2>2, <3>6, <1>1
    <3> QED
      BY <3>1, <3>7
  <2> QED
    BY <2>1, <2>2
<1>7. StepsOf(F, n, Seq(A), << >>, FlattenStep(ss, A), FlattenSeq(ss))
  <2> HIDE DEF n
  <2> QED
    BY <1>4, <1>6 DEF StepsOf
<1> QED
  BY <1>7

LEMMA FlattenFacts ==
  ASSUME NEW A, NEW ss \in Seq(Seq(A))
  PROVE  /\ FlattenSeq(ss) \in Seq(A)
         /\ ToSet(FlattenSeq(ss)) = UNION {ToSet(ss[i]) : i \in 1..Len(ss)}
<1> DEFINE n == Len(ss)
<1>1. n \in Nat /\ DOMAIN ss = 1..n /\ \A i \in 1..n : ss[i] \in Seq(A)
  OBVIOUS
<1>2. PICK F : StepsOf(F, n, Seq(A), << >>, FlattenStep(ss, A), FlattenSeq(ss))
  BY FlattenSteps
<1>3. F \in [0..n -> Seq(A)] /\ F[0] = << >> /\ F[n] = FlattenSeq(ss)
  BY <1>2 DEF StepsOf
<1>4. ASSUME NEW k \in 0..n - 1
      PROVE  F[k + 1] = F[k] \o ss[k + 1] /\ F[k] \in Seq(A)
  <2>1. k + 1 \in 1..n /\ k \in 0..n /\ (k + 1) - 1 = k
    BY <1>1
  <2>2. F[k + 1] = FlattenStep(ss, A)[<<F[k], k + 1>>] /\ F[k] \in Seq(A)
    BY <1>2, <1>3, <2>1 DEF StepsOf
  <2> QED
    BY <2>1, <2>2 DEF FlattenStep
<1> HIDE DEF n
<1> DEFINE Upto(k) == UNION {ToSet(ss[i]) : i \in 1..k}
           K == {k \in 0..n : ToSet(F[k]) = Upto(k)}
<1>5. 0 \in K
  BY <1>1, <1>3 DEF ToSet
<1>6. ASSUME NEW k \in 0..n - 1, k \in K PROVE k + 1 \in K
  <2>1. k + 1 \in 1..n /\ k + 1 \in 0..n /\ k \in Nat
    BY <1>1
  <2>2. ToSet(F[k] \o ss[k + 1]) = ToSet(F[k]) \cup ToSet(ss[k + 1])
    <3>1. F[k] \in Seq(A) /\ ss[k + 1] \in Seq(A)
      BY <1>1, <1>4, <2>1
    <3> QED
      BY <3>1, ConcatToSet
  <2>3. Upto(k + 1) = Upto(k) \cup ToSet(ss[k + 1])
    <3>1. 1..(k + 1) = (1..k) \cup {k + 1}
      BY <2>1
    <3> QED
      BY <3>1
  <2>4. ToSet(F[k]) = Upto(k)
    BY <1>6
  <2> HIDE DEF Upto
  <2> QED
    BY <1>4, <2>1, <2>2, <2>3, <2>4
<1>7. \A k \in 0..n : k \in K
  <2> HIDE DEF K
  <2> QED
    BY <1>1, <1>5, <1>6, IntervalInduction
<1> QED
  <2>1. n \in 0..n
    BY <1>1
  <2>2. ToSet(F[n]) = Upto(n) /\ F[n] \in Seq(A)
    BY <1>3, <1>7, <2>1
  <2> QED
    BY <1>3, <2>2 DEF n

LEMMA FlattenAppend ==
  ASSUME NEW A, NEW ss \in Seq(Seq(A)), NEW x \in Seq(A)
  PROVE  FlattenSeq(Append(ss, x)) = FlattenSeq(ss) \o x
<1> DEFINE n == Len(ss)
           us == Append(ss, x)
<1>1. /\ n \in Nat /\ us \in Seq(Seq(A)) /\ Len(us) = n + 1
      /\ us[n + 1] = x /\ \A i \in 1..n : us[i] = ss[i]
  OBVIOUS
<1> HIDE DEF n, us
<1>2. PICK E : StepsOf(E, n, Seq(A), << >>, FlattenStep(ss, A), FlattenSeq(ss))
  BY FlattenSteps DEF n
<1>3. PICK F : StepsOf(F, n + 1, Seq(A), << >>, FlattenStep(us, A), FlattenSeq(us))
  BY <1>1, FlattenSteps
<1>4. SameSteps(FlattenStep(us, A), FlattenStep(ss, A), Seq(A), n)
  <2> SUFFICES ASSUME NEW p \in Seq(A) \X (1..n)
               PROVE  FlattenStep(us, A)[p] = FlattenStep(ss, A)[p]
    BY DEF SameSteps
  <2>1. p[2] \in 1..n /\ p[2] \in 1..n + 1
    BY <1>1
  <2>2. FlattenStep(us, A)[p] = p[1] \o us[p[2]]
    BY <1>1, <2>1 DEF FlattenStep
  <2>3. FlattenStep(ss, A)[p] = p[1] \o ss[p[2]]
    BY DEF FlattenStep, n
  <2> QED
    BY <1>1, <2>1, <2>2, <2>3
<1>5. FlattenSeq(ss) = F[n]
  <2>1. n \in 0..n + 1 /\ n + 1 \in Nat
    BY <1>1
  <2> QED
    BY <1>2, <1>3, <1>4, <2>1, FoldPrefix
<1>6. F[n + 1] = FlattenSeq(us) /\ F[n + 1] = FlattenStep(us, A)[<<F[n], n + 1>>] /\ F[n] \in Seq(A)
  <2>1. n + 1 \in 1..n + 1 /\ (n + 1) - 1 = n /\ n \in 0..n + 1
    BY <1>1
  <2> QED
    BY <1>3, <2>1 DEF StepsOf
<1>7. FlattenStep(us, A)[<<F[n], n + 1>>] = F[n] \o us[n + 1]
  <2>1. <<F[n], n + 1>> \in Seq(A) \X (1..n + 1)
    BY <1>1, <1>6
  <2> QED
    BY <1>1, <2>1 DEF FlattenStep
<1> QED
  BY <1>1, <1>5, <1>6, <1>7 DEF us

-----------------------------------------------------------------------------

(* The tokens of a range, as a set and in order.                            *)
Tokens(G)   == [group : G, slot : Nat]
TokensOf(r) == {[group |-> r.group, slot |-> x] : x \in r.lo..r.hi}
InOrder(r)  == [j \in 1..Count(r) |-> [group |-> r.group, slot |-> r.lo + j - 1]]

LEMMA InOrderFacts ==
  ASSUME NEW G, NEW M \in Nat, NEW r \in RangesOver(G, M)
  PROVE  /\ InOrder(r) \in Seq(Tokens(G)) /\ Len(InOrder(r)) = Count(r)
         /\ ToSet(InOrder(r)) = TokensOf(r)
<1>1. /\ r.group \in G /\ r.lo \in Nat /\ r.hi \in Nat /\ r.lo <= r.hi
      /\ Count(r) = r.hi - r.lo + 1 /\ Count(r) \in Nat
  BY DEF RangesOver, Count
<1>2. \A j \in 1..Count(r) : r.lo + j - 1 \in Nat /\ r.lo + j - 1 \in r.lo..r.hi
  BY <1>1
<1>3. InOrder(r) \in [1..Count(r) -> Tokens(G)]
  BY <1>1, <1>2 DEF InOrder, Tokens
<1>4. InOrder(r) \in Seq(Tokens(G)) /\ Len(InOrder(r)) = Count(r)
  BY <1>1, <1>3
<1>5. ToSet(InOrder(r)) \subseteq TokensOf(r)
  BY <1>2, <1>3 DEF ToSet, InOrder, TokensOf
<1>6. ASSUME NEW x \in r.lo..r.hi
      PROVE  [group |-> r.group, slot |-> x] \in ToSet(InOrder(r))
  <2>1. x - r.lo + 1 \in 1..Count(r) /\ r.lo + (x - r.lo + 1) - 1 = x
    BY <1>1
  <2>2. InOrder(r)[x - r.lo + 1] = [group |-> r.group, slot |-> x]
    BY <2>1 DEF InOrder
  <2> QED
    BY <1>3, <2>1, <2>2 DEF ToSet
<1> QED
  BY <1>4, <1>5, <1>6 DEF TokensOf

LEMMA ExpandFacts ==
  ASSUME NEW G, NEW M \in Nat, NEW rs \in Seq(RangesOver(G, M))
  PROVE  /\ Expand(rs) \in Seq(Tokens(G))
         /\ ToSet(Expand(rs)) = UNION {TokensOf(r) : r \in ToSet(rs)}
         /\ \A r \in RangesOver(G, M) : Expand(Append(rs, r)) = Expand(rs) \o InOrder(r)
<1> DEFINE n == Len(rs)
           ss == [i \in 1..n |-> InOrder(rs[i])]
<1>1. n \in Nat /\ DOMAIN rs = 1..n /\ \A i \in 1..n : rs[i] \in RangesOver(G, M)
  OBVIOUS
<1>2. ss \in Seq(Seq(Tokens(G))) /\ Len(ss) = n
  BY <1>1, InOrderFacts
<1>3. Expand(rs) = FlattenSeq(ss)
  BY DEF Expand, InOrder
<1>4. ToSet(Expand(rs)) = UNION {TokensOf(r) : r \in ToSet(rs)}
  <2>1. ToSet(Expand(rs)) = UNION {ToSet(ss[i]) : i \in 1..n}
    <3> HIDE DEF ss, n
    <3> QED
      BY <1>2, <1>3, FlattenFacts
  <2>2. \A i \in 1..n : ToSet(ss[i]) = TokensOf(rs[i])
    BY <1>1, InOrderFacts
  <2>3. ToSet(rs) = {rs[i] : i \in 1..n}
    BY <1>1 DEF ToSet
  <2> HIDE DEF ss, n
  <2> QED
    BY <2>1, <2>2, <2>3
<1>5. ASSUME NEW r \in RangesOver(G, M)
      PROVE  Expand(Append(rs, r)) = Expand(rs) \o InOrder(r)
  <2> DEFINE us == Append(rs, r)
             ts == [i \in 1..Len(us) |-> InOrder(us[i])]
  <2>1. InOrder(r) \in Seq(Tokens(G))
    BY InOrderFacts
  <2>2. Expand(us) = FlattenSeq(ts)
    BY DEF Expand, InOrder
  <2>3. ts = Append(ss, InOrder(r))
    <3>1. Len(us) = n + 1 /\ us[n + 1] = r /\ \A i \in 1..n : us[i] = rs[i]
      OBVIOUS
    <3>2. /\ Append(ss, InOrder(r)) \in Seq(Seq(Tokens(G)))
          /\ Len(Append(ss, InOrder(r))) = n + 1
          /\ \A i \in 1..n : Append(ss, InOrder(r))[i] = ss[i]
          /\ Append(ss, InOrder(r))[n + 1] = InOrder(r)
      <4> HIDE DEF ss, n
      <4> QED
        BY <1>2, <2>1, AppendProperties
    <3>3. \A i \in 1..n : ss[i] = InOrder(rs[i])
      OBVIOUS
    <3> HIDE DEF us, ss, n
    <3>4. ASSUME NEW i \in 1..n + 1
          PROVE  InOrder(us[i]) = Append(ss, InOrder(r))[i] /\ InOrder(us[i]) \in Seq(Tokens(G))
      <4>1. CASE i = n + 1
        BY <3>1, <3>2, <4>1, <2>1
      <4>2. CASE i # n + 1
        <5>1. i \in 1..n
          BY <1>1, <4>2
        <5>2. InOrder(rs[i]) \in Seq(Tokens(G))
          BY <1>1, <5>1, InOrderFacts
        <5> QED
          BY <5>1, <5>2, <3>1, <3>2, <3>3
      <4> QED
        BY <4>1, <4>2
    <3>5. ts \in Seq(Seq(Tokens(G))) /\ Len(ts) = n + 1 /\ \A i \in 1..n + 1 : ts[i] = InOrder(us[i])
      BY <1>1, <3>1, <3>4
    <3> HIDE DEF ts
    <3> QED
      BY <3>2, <3>4, <3>5, SeqEqual
  <2>4. FlattenSeq(Append(ss, InOrder(r))) = FlattenSeq(ss) \o InOrder(r)
    <3> HIDE DEF ss
    <3> QED
      BY <1>2, <2>1, FlattenAppend
  <2> HIDE DEF ss, ts
  <2> QED
    BY <1>3, <2>2, <2>3, <2>4
<1>6. Expand(rs) \in Seq(Tokens(G))
  <2> HIDE DEF ss
  <2> QED
    BY <1>2, <1>3, FlattenFacts
<1> QED
  BY <1>4, <1>5, <1>6

-----------------------------------------------------------------------------

GroupsIn(rs) == {r.group : r \in ToSet(rs)}

Regroups(a, b, c) == (a \o b) \o c = a \o (b \o c)

LEMMA Associative ==
  ASSUME NEW B, NEW a, NEW b, NEW c
  PROVE  a \in Seq(B) /\ b \in Seq(B) /\ c \in Seq(B) => Regroups(a, b, c)
<1> SUFFICES ASSUME a \in Seq(B), b \in Seq(B), c \in Seq(B)
              PROVE  (a \o b) \o c = a \o (b \o c)
  BY DEF Regroups
<1> QED
  BY ConcatAssociative

Joins(j, l, r) == InOrder(j) = InOrder(l) \o InOrder(r)

LEMMA JoinedInOrder ==
  ASSUME NEW l, NEW r, NEW j, NEW G, NEW M \in Nat
  PROVE  /\ l \in RangesOver(G, M) /\ r \in RangesOver(G, M) /\ j \in RangesOver(G, M)
         /\ l.group = r.group /\ l.hi + 1 = r.lo
         /\ j.group = l.group /\ j.lo = l.lo /\ j.hi = r.hi
         => Joins(j, l, r)
<1>0. SUFFICES ASSUME /\ l \in RangesOver(G, M) /\ r \in RangesOver(G, M) /\ j \in RangesOver(G, M)
                      /\ l.group = r.group /\ l.hi + 1 = r.lo
                      /\ j.group = l.group /\ j.lo = l.lo /\ j.hi = r.hi
               PROVE  InOrder(j) = InOrder(l) \o InOrder(r)
  BY DEF Joins
<1>1. /\ r.lo \in Nat /\ r.hi \in Nat /\ r.lo <= r.hi
      /\ l.lo \in Nat /\ l.hi \in Nat /\ l.lo <= l.hi
  BY <1>0 DEF RangesOver
<1>2. /\ Count(j) = Count(l) + Count(r)
      /\ Count(l) \in Nat /\ Count(r) \in Nat /\ r.lo = l.lo + Count(l)
  BY <1>0, <1>1 DEF Count
<1>3. PICK a : a \in Seq(Tokens(G)) /\ a = InOrder(j) /\ Len(a) = Count(j)
  BY <1>0, InOrderFacts
<1>4. PICK b : b \in Seq(Tokens(G)) /\ b = InOrder(l) /\ Len(b) = Count(l)
  BY <1>0, InOrderFacts
<1>5. PICK c : c \in Seq(Tokens(G)) /\ c = InOrder(r) /\ Len(c) = Count(r)
  BY <1>0, InOrderFacts
<1>6. /\ b \o c \in Seq(Tokens(G)) /\ Len(b \o c) = Len(b) + Len(c)
      /\ \A i \in 1..Len(b) : (b \o c)[i] = b[i]
      /\ \A i \in 1..Len(c) : (b \o c)[Len(b) + i] = c[i]
  <2>1. b \in Seq(Tokens(G)) /\ c \in Seq(Tokens(G))
    BY <1>4, <1>5
  <2> QED
    BY <2>1, ConcatProperties
<1>7. ASSUME NEW i \in 1..Count(j) PROVE a[i] = (b \o c)[i]
  <2>1. a[i] = [group |-> l.group, slot |-> l.lo + i - 1]
    BY <1>0, <1>3 DEF InOrder
  <2>2. CASE i <= Count(l)
    <3>1. i \in 1..Count(l)
      BY <1>2, <2>2
    <3>2. (b \o c)[i] = b[i]
      BY <1>4, <1>6, <3>1
    <3>3. b[i] = [group |-> l.group, slot |-> l.lo + i - 1]
      BY <1>4, <3>1 DEF InOrder
    <3> QED
      BY <2>1, <3>2, <3>3
  <2>3. CASE ~(i <= Count(l))
    <3>1. i - Count(l) \in 1..Count(r) /\ Count(l) + (i - Count(l)) = i
      BY <1>2, <2>3
    <3>2. PICK k : k \in 1..Count(r) /\ Count(l) + k = i
      BY <3>1
    <3>3. r.lo + k - 1 = l.lo + i - 1
      BY <1>1, <1>2, <3>2
    <3>4. c[k] = [group |-> r.group, slot |-> r.lo + k - 1]
      BY <1>5, <3>2 DEF InOrder
    <3>5. (b \o c)[i] = c[k]
      BY <1>4, <1>5, <1>6, <3>2
    <3> QED
      BY <1>0, <2>1, <3>3, <3>4, <3>5
  <2> QED
    BY <2>2, <2>3
<1>8. a = b \o c
  <2>1. Len(a) = Len(b \o c) /\ Len(a) = Count(j)
    BY <1>2, <1>3, <1>4, <1>5, <1>6
  <2>2. \A i \in 1..Len(a) : a[i] = (b \o c)[i]
    BY <1>7, <2>1
  <2>3. a \in Seq(Tokens(G)) /\ b \o c \in Seq(Tokens(G))
    BY <1>3, <1>6
  <2> QED
    BY <2>1, <2>2, <2>3, SeqEqual
<1> QED
  BY <1>3, <1>4, <1>5, <1>8

LEMMA ExpandAppend ==
  ASSUME NEW G, NEW M \in Nat, NEW f \in Seq(RangesOver(G, M)), NEW r \in RangesOver(G, M)
  PROVE  Expand(Append(f, r)) = Expand(f) \o InOrder(r)
<1>1. \A x \in RangesOver(G, M) : Expand(Append(f, x)) = Expand(f) \o InOrder(x)
  BY ExpandFacts
<1> QED
  BY <1>1

LEMMA FrontAndLast ==
  ASSUME NEW A, NEW s \in Seq(A), s # << >>
  PROVE  Front(s) \in Seq(A) /\ Last(s) \in A /\ s = Append(Front(s), Last(s))
<1>1. Len(s) \in Nat \ {0} /\ Len(s) \in DOMAIN s
  OBVIOUS
<1>2. Front(s) \in Seq(A) /\ Len(Front(s)) = Len(s) - 1
      /\ \A i \in 1..Len(s) - 1 : Front(s)[i] = s[i]
  <2>1. PICK m : m \in Nat /\ m = Len(s) - 1 /\ \A i \in 1..m : s[i] \in A
    BY <1>1
  <2>2. /\ SubSeq(s, 1, m) \in Seq(A) /\ Len(SubSeq(s, 1, m)) = (IF 1 <= m THEN m - 1 + 1 ELSE 0)
        /\ \A i \in 1..m - 1 + 1 : SubSeq(s, 1, m)[i] = s[1 + i - 1]
    BY <2>1, SubSeqProperties
  <2>3. Len(SubSeq(s, 1, m)) = m
    BY <2>1, <2>2
  <2>4. \A i \in 1..m : SubSeq(s, 1, m)[i] = s[i]
    <3> SUFFICES ASSUME NEW i \in 1..m PROVE SubSeq(s, 1, m)[i] = s[i]
      OBVIOUS
    <3>1. i \in 1..m - 1 + 1 /\ 1 + i - 1 = i
      BY <2>1
    <3> QED
      BY <2>2, <3>1
  <2> QED
    BY <2>1, <2>2, <2>3, <2>4 DEF Front
<1>3. Last(s) = s[Len(s)] /\ Last(s) \in A
  BY <1>1 DEF Last
<1>4. /\ Append(Front(s), Last(s)) \in Seq(A)
      /\ Len(Append(Front(s), Last(s))) = Len(s)
      /\ \A i \in 1..Len(s) : Append(Front(s), Last(s))[i] = s[i]
  BY <1>1, <1>2, <1>3
<1> QED
  BY <1>2, <1>3, <1>4, SeqEqual

LEMMA PushSliceFacts ==
  ASSUME NEW rs, NEW r, NEW G, NEW M \in Nat
  PROVE  rs \in Seq(RangesOver(G, M)) /\ r \in RangesOver(G, M) =>
         /\ PushSlice(rs, r) \in Seq(RangesOver(G, M))
         /\ Expand(PushSlice(rs, r)) = Expand(rs) \o InOrder(r)
         /\ GroupsIn(PushSlice(rs, r)) = GroupsIn(rs) \cup {r.group}
<1> DEFINE R == RangesOver(G, M)
<1>0. SUFFICES ASSUME rs \in Seq(R) /\ r \in R
               PROVE  /\ PushSlice(rs, r) \in Seq(R)
                      /\ Expand(PushSlice(rs, r)) = Expand(rs) \o InOrder(r)
                      /\ GroupsIn(PushSlice(rs, r)) = GroupsIn(rs) \cup {r.group}
  OBVIOUS
<1>1. CASE rs # << >> /\ Last(rs).group = r.group /\ Last(rs).hi + 1 = r.lo
  <2>1. PICK f, l : f \in Seq(R) /\ l \in R /\ f = Front(rs) /\ l = Last(rs) /\ rs = Append(f, l)
    <3> HIDE DEF R
    <3> QED
      BY <1>0, <1>1, FrontAndLast
  <2>2. l.group = r.group /\ l.hi + 1 = r.lo
    BY <1>1, <2>1
  <2>3. [l EXCEPT !.hi = r.hi] = [group |-> l.group, lo |-> l.lo, hi |-> r.hi]
    BY <2>1 DEF RangesOver
  <2>4. [group |-> l.group, lo |-> l.lo, hi |-> r.hi] \in R
    BY <1>0, <2>1, <2>2 DEF RangesOver
  <2>5. PICK j : /\ j \in R /\ j = [l EXCEPT !.hi = r.hi]
                 /\ j.group = l.group /\ j.lo = l.lo /\ j.hi = r.hi
    BY <2>3, <2>4
  <2>6. PushSlice(rs, r) = Append(f, j)
    BY <1>1, <2>1, <2>5 DEF PushSlice
  <2>7. InOrder(j) = InOrder(l) \o InOrder(r)
    <3>1. Joins(j, l, r)
      BY <1>0, <2>1, <2>2, <2>5, JoinedInOrder
    <3> QED
      BY <3>1 DEF Joins
  <2>8. Expand(Append(f, j)) = Expand(Append(f, l)) \o InOrder(r)
    <3>1. l \in R /\ r \in R /\ j \in R /\ f \in Seq(R)
      BY <1>0, <2>1, <2>5
    <3>2. /\ Expand(f) \in Seq(Tokens(G)) /\ InOrder(l) \in Seq(Tokens(G))
          /\ InOrder(r) \in Seq(Tokens(G))
      BY <3>1, ExpandFacts, InOrderFacts
    <3>3. Expand(Append(f, j)) = Expand(f) \o InOrder(j)
      BY <3>1, ExpandAppend
    <3>4. Expand(Append(f, l)) = Expand(f) \o InOrder(l)
      BY <3>1, ExpandAppend
    <3> HIDE DEF R
    <3>5. Expand(f) \o (InOrder(l) \o InOrder(r)) = (Expand(f) \o InOrder(l)) \o InOrder(r)
      <4>1. Regroups(Expand(f), InOrder(l), InOrder(r))
        BY <3>2, Associative
      <4> QED
        BY <4>1 DEF Regroups
    <3> QED
      BY <2>7, <3>3, <3>4, <3>5
  <2> HIDE DEF R
  <2>9. Append(f, j) \in Seq(R)
    BY <2>1, <2>5
  <2>10. ToSet(Append(f, j)) = ToSet(f) \cup {j} /\ ToSet(Append(f, l)) = ToSet(f) \cup {l}
    BY <2>1, AppendToSet
  <2>11. GroupsIn(Append(f, j)) = GroupsIn(f) \cup {r.group} /\ GroupsIn(Append(f, l)) = GroupsIn(f) \cup {r.group}
    <3>1. j.group = r.group /\ l.group = r.group
      BY <2>2, <2>5
    <3> QED
      BY <3>1, <2>10 DEF GroupsIn
  <2>12. GroupsIn(Append(f, j)) = GroupsIn(rs) \cup {r.group}
    BY <2>1, <2>11
  <2> QED
    BY <2>1, <2>6, <2>8, <2>9, <2>12
<1>2. CASE ~(rs # << >> /\ Last(rs).group = r.group /\ Last(rs).hi + 1 = r.lo)
  <2>1. PushSlice(rs, r) = Append(rs, r)
    BY <1>2 DEF PushSlice
  <2>2. Expand(Append(rs, r)) = Expand(rs) \o InOrder(r)
    BY <1>0, ExpandAppend
  <2> HIDE DEF R
  <2>3. ToSet(Append(rs, r)) = ToSet(rs) \cup {r}
    BY <1>0, AppendToSet
  <2>4. Append(rs, r) \in Seq(R)
    BY <1>0
  <2>5. GroupsIn(Append(rs, r)) = GroupsIn(rs) \cup {r.group}
    BY <2>3 DEF GroupsIn
  <2> QED
    BY <2>1, <2>2, <2>4, <2>5
<1> QED
  BY <1>1, <1>2

MergeStep(rs, R) == [p \in Seq(R) \X (1..Len(rs)) |-> PushSlice(p[1], rs[p[2]])]

LEMMA MergeSteps ==
  ASSUME NEW G, NEW M \in Nat, NEW rs \in Seq(RangesOver(G, M))
  PROVE  \E F : StepsOf(F, Len(rs), Seq(RangesOver(G, M)), << >>, MergeStep(rs, RangesOver(G, M)),
                        MergeOrdered(rs))
<1> DEFINE n == Len(rs)
           Solves(it) == it = [T \in SUBSET DOMAIN rs |-> IF T = {} THEN << >>
                                 ELSE PushSlice(it[T \ {Max(T)}], rs[Max(T)])]
           c == CHOOSE it : Solves(it)
<1>1. n \in Nat /\ DOMAIN rs = 1..n /\ \A i \in 1..n : rs[i] \in RangesOver(G, M)
  OBVIOUS
<1>2. MergeOrdered(rs) = c[1..n]
  BY <1>1 DEF MergeOrdered, FoldLeft, MapThenFoldSet
<1>3. << >> \in Seq(RangesOver(G, M)) /\ MergeStep(rs, RangesOver(G, M)) \in [Seq(RangesOver(G, M)) \X (1..n) -> Seq(RangesOver(G, M))]
  BY <1>1, PushSliceFacts DEF MergeStep
<1>4. PICK it \in [SUBSET (1..n) -> Seq(RangesOver(G, M))] :
        IsFoldOf(it, n, << >>, MergeStep(rs, RangesOver(G, M))) /\ \A T \in SUBSET (1..n) : T # {} => Max(T) \in 1..n
  <2> HIDE DEF n
  <2> QED
    BY <1>1, <1>3, FoldExists
<1>5. Solves(it)
  BY <1>1, <1>4 DEF IsFoldOf, MergeStep
<1>6. Solves(c)
  <2> HIDE DEF Solves
  <2> QED
    BY <1>5
<1>7. FoldsBy(c, n, Seq(RangesOver(G, M)), << >>, MergeStep(rs, RangesOver(G, M)))
  <2> HIDE DEF c
  <2> QED
    BY <1>1, <1>4, <1>6 DEF FoldsBy, MergeStep
<1>8. \E F : StepsOf(F, n, Seq(RangesOver(G, M)), << >>, MergeStep(rs, RangesOver(G, M)), c[1..n])
  <2> HIDE DEF n, c
  <2> QED
    BY <1>1, <1>3, <1>7, FoldSteps
<1> HIDE DEF c
<1> QED
  BY <1>2, <1>8

(* Merging keeps every token, in its place.                                 *)
LEMMA MergeFacts ==
  ASSUME NEW G, NEW M \in Nat, NEW rs \in Seq(RangesOver(G, M))
  PROVE  /\ MergeOrdered(rs) \in Seq(RangesOver(G, M))
         /\ Expand(MergeOrdered(rs)) = Expand(rs)
         /\ GroupsIn(MergeOrdered(rs)) = GroupsIn(rs)
<1> DEFINE n == Len(rs)
           R == RangesOver(G, M)
<1>1. n \in Nat /\ DOMAIN rs = 1..n /\ \A i \in 1..n : rs[i] \in R
  OBVIOUS
<1>2. PICK F : StepsOf(F, n, Seq(R), << >>, MergeStep(rs, R), MergeOrdered(rs))
  BY MergeSteps
<1>3. F \in [0..n -> Seq(R)] /\ F[0] = << >> /\ F[n] = MergeOrdered(rs)
  BY <1>2 DEF StepsOf
<1>4. ASSUME NEW k \in 0..n - 1
      PROVE  F[k + 1] = PushSlice(F[k], rs[k + 1]) /\ F[k] \in Seq(R) /\ rs[k + 1] \in R
  <2>1. k + 1 \in 1..n /\ k \in 0..n /\ (k + 1) - 1 = k
    BY <1>1
  <2> HIDE DEF R
  <2>2. F[k + 1] = MergeStep(rs, R)[<<F[k], k + 1>>] /\ F[k] \in Seq(R)
    BY <1>2, <1>3, <2>1 DEF StepsOf
  <2>3. <<F[k], k + 1>> \in Seq(R) \X (1..n)
    BY <2>1, <2>2
  <2> QED
    BY <1>1, <2>1, <2>2, <2>3 DEF MergeStep
<1> DEFINE Upto(k) == SubSeq(rs, 1, k)
           K == {k \in 0..n : Expand(F[k]) = Expand(Upto(k)) /\ GroupsIn(F[k]) = GroupsIn(Upto(k))}
<1>5. 0 \in K
  <2>1. Upto(0) = << >> /\ 0 \in 0..n
    BY <1>1
  <2> QED
    BY <1>3, <2>1
<1>6. ASSUME NEW k \in 0..n - 1, k \in K PROVE k + 1 \in K
  <2>1. k + 1 \in 0..n /\ k + 1 \in 1..n /\ k \in 0..n
    BY <1>1
  <2>2. Upto(k) \in Seq(R) /\ Upto(k + 1) = Append(Upto(k), rs[k + 1])
    <3> HIDE DEF R
    <3> QED
      BY <1>1, <2>1
  <2> HIDE DEF R, n, Upto
  <2>3. PICK r, f, u : /\ r \in RangesOver(G, M) /\ f \in Seq(RangesOver(G, M))
                       /\ u \in Seq(RangesOver(G, M))
                       /\ r = rs[k + 1] /\ f = F[k] /\ u = Upto(k)
    BY <1>4, <2>2 DEF R
  <2>4. /\ Expand(PushSlice(f, r)) = Expand(f) \o InOrder(r)
        /\ GroupsIn(PushSlice(f, r)) = GroupsIn(f) \cup {r.group}
    BY <2>3, PushSliceFacts
  <2>6. Expand(Append(u, r)) = Expand(u) \o InOrder(r)
    BY <2>3, ExpandAppend
  <2>5. GroupsIn(Upto(k + 1)) = GroupsIn(Upto(k)) \cup {rs[k + 1].group}
    <3>1. ToSet(Upto(k + 1)) = ToSet(Upto(k)) \cup {rs[k + 1]}
      BY <2>2, AppendToSet
    <3> QED
      BY <3>1 DEF GroupsIn
  <2> QED
    BY <1>4, <1>6, <2>1, <2>2, <2>3, <2>4, <2>5, <2>6
<1>7. \A k \in 0..n : k \in K
  <2> HIDE DEF K, n
  <2> QED
    BY <1>1, <1>5, <1>6, IntervalInduction
<1>8. n \in 0..n /\ Upto(n) = rs
  BY <1>1
<1> QED
  <2>1. Expand(F[n]) = Expand(Upto(n)) /\ GroupsIn(F[n]) = GroupsIn(Upto(n)) /\ F[n] \in Seq(R)
    BY <1>3, <1>7, <1>8
  <2> HIDE DEF n, Upto, R
  <2> QED
    BY <1>3, <1>8, <2>1 DEF R

-----------------------------------------------------------------------------
(* The sweep.                                                               *)

(* A function defined from later arguments.                                 *)
BackStep(f, n, b, G, next) ==
  f = [c \in 0..n |-> IF c = n THEN b ELSE G[<<c, f[next[c]]>>]]

LEMMA BackRecursion ==
  ASSUME NEW n \in Nat, NEW D, NEW b \in D, NEW G \in [(0..n) \X D -> D],
         NEW next \in [0..n -> 0..n], \A c \in 0..n : c # n => c < next[c]
  PROVE  \E f \in [0..n -> D] : BackStep(f, n, b, G, next)
<1> DEFINE Good(f, k) ==
             /\ f \in [0..n -> D]
             /\ \A c \in n - k..n : f[c] = IF c = n THEN b ELSE G[<<c, f[next[c]]>>]
           K == {k \in 0..n : \E f : Good(f, k)}
<1>1. 0 \in K
  <2>1. Good([c \in 0..n |-> b], 0)
    OBVIOUS
  <2> HIDE DEF Good
  <2> QED
    BY <2>1
<1>2. ASSUME NEW k \in 0..n - 1, k \in K PROVE k + 1 \in K
  <2>1. PICK f : Good(f, k)
    BY <1>2
  <2> DEFINE a == n - (k + 1)
             g == [c \in 0..n |-> IF c = a THEN G[<<a, f[next[a]]>>] ELSE f[c]]
  <2>2. a \in 0..n /\ a # n /\ k + 1 \in 0..n /\ next[a] \in 0..n /\ a < next[a]
    OBVIOUS
  <2>3. g \in [0..n -> D]
    BY <2>1, <2>2
  <2>4. ASSUME NEW c \in a..n PROVE g[c] = IF c = n THEN b ELSE G[<<c, g[next[c]]>>]
    <3>1. CASE c = a
      <4>1. g[a] = G[<<a, f[next[a]]>>] /\ g[next[a]] = f[next[a]]
        BY <2>2
      <4> HIDE DEF g
      <4> QED
        BY <3>1, <2>2, <4>1
    <3>2. CASE c # a
      <4>1. c \in n - k..n /\ c \in 0..n
        BY <3>2
      <4>2. g[c] = f[c] /\ (c # n => g[next[c]] = f[next[c]])
        BY <3>2, <4>1, <2>2
      <4>3. f[c] = IF c = n THEN b ELSE G[<<c, f[next[c]]>>]
        BY <2>1, <4>1
      <4> HIDE DEF g
      <4> QED
        BY <4>2, <4>3
    <3> QED
      BY <3>1, <3>2
  <2>5. Good(g, k + 1)
    <3> HIDE DEF g
    <3> QED
      BY <2>3, <2>4
  <2> HIDE DEF Good
  <2> QED
    BY <2>2, <2>5
<1>3. \A k \in 0..n : k \in K
  <2> HIDE DEF K
  <2> QED
    BY <1>1, <1>2, IntervalInduction
<1>4. PICK f : Good(f, n)
  <2>1. n \in K
    <3>1. n \in 0..n
      OBVIOUS
    <3> HIDE DEF K
    <3> QED
      BY <1>3, <3>1
  <2> HIDE DEF Good
  <2> QED
    BY <2>1
<1>5. f = [c \in 0..n |-> IF c = n THEN b ELSE G[<<c, f[next[c]]>>]]
  <2>1. n - n = 0
    OBVIOUS
  <2> QED
    BY <1>4, <2>1
<1> QED
  BY <1>4, <1>5 DEF BackStep

(* A payload as the decoder hands it on.                                    *)
DecodedMix(m) ==
  /\ m.outs \in Seq(Seq([start : Nat, end : Nat]))
  /\ WellFormed(m)

LEMMA ExplicitRangesType ==
  ASSUME NEW m, DecodedMix(m)
  PROVE  /\ \A e \in ExplicitRanges(m) :
              /\ e.start \in Nat /\ e.end \in Nat /\ e.start < e.end
              /\ e.out \in 1..Len(m.outs) /\ e.out # m.complement
         /\ \A e, f \in ExplicitRanges(m) : e # f => e.end <= f.start \/ f.end <= e.start
         /\ m.complement \in 1..Len(m.outs)
<1>1. ASSUME NEW e \in ExplicitRanges(m)
      PROVE  e.start \in Nat /\ e.end \in Nat /\ e.out \in 1..Len(m.outs) /\ e.out # m.complement
  <2>1. PICK k \in Explicit(m) : \E i \in 1..Len(m.outs[k]) :
          e = [start |-> m.outs[k][i].start, end |-> m.outs[k][i].end, out |-> k, at |-> i]
    BY DEF ExplicitRanges
  <2>2. k \in 1..Len(m.outs) /\ k # m.complement
    BY DEF Explicit
  <2>3. m.outs[k] \in Seq([start : Nat, end : Nat])
    BY <2>2 DEF DecodedMix
  <2>4. PICK i \in 1..Len(m.outs[k]) :
          e = [start |-> m.outs[k][i].start, end |-> m.outs[k][i].end, out |-> k, at |-> i]
    BY <2>1
  <2>5. m.outs[k][i] \in [start : Nat, end : Nat]
    <3>1. PICK s : s = m.outs[k] /\ s \in Seq([start : Nat, end : Nat])
      BY <2>3
    <3>2. i \in 1..Len(s)
      BY <3>1
    <3>3. s[i] \in [start : Nat, end : Nat]
      BY <3>1, <3>2, ElementOfSeq
    <3> QED
      BY <3>1, <3>3
  <2> QED
    BY <2>2, <2>4, <2>5
<1> QED
  BY <1>1 DEF DecodedMix, WellFormed

LEMMA LeastStart ==
  ASSUME NEW S, S # {}, \A e \in S : e.start \in Nat
  PROVE  \E e \in S : \A f \in S : e.start <= f.start
<1> SUFFICES ASSUME \A e \in S : \E f \in S : ~(e.start <= f.start) PROVE FALSE
  OBVIOUS
<1>1. PICK e \in S : e.start \in Nat
  OBVIOUS
<1> DEFINE n == e.start
           K == {k \in 0..n : \A f \in S : k < f.start}
<1>2. 0 \in K
  BY <1>1
<1>3. ASSUME NEW k \in 0..n - 1, k \in K PROVE k + 1 \in K
  <2>1. k + 1 \in 0..n /\ k \in Nat
    BY <1>1
  <2>2. ASSUME NEW f \in S PROVE k + 1 < f.start
    <3>1. k < f.start /\ f.start \in Nat
      BY <1>3
    <3>2. CASE f.start = k + 1
      <4>1. \A d \in S : f.start <= d.start
        BY <1>3, <2>1, <3>2
      <4> QED
        BY <4>1
    <3> QED
      BY <2>1, <3>1, <3>2
  <2> QED
    BY <2>1, <2>2
<1>4. \A k \in 0..n : k \in K
  <2>1. n \in Nat
    BY <1>1
  <2> HIDE DEF K, n
  <2> QED
    BY <1>2, <1>3, <2>1, IntervalInduction
<1>5. n \in K
  BY <1>1, <1>4
<1> QED
  BY <1>1, <1>5

LEMMA LeastIndex ==
  ASSUME NEW T \in SUBSET Nat, T # {}
  PROVE  \E i \in T : \A j \in T : i <= j
<1> DEFINE S == {[start |-> i] : i \in T}
<1>1. PICK e \in S : \A f \in S : e.start <= f.start
  <2>1. PICK i \in T : TRUE
    OBVIOUS
  <2>2. [start |-> i] \in S
    OBVIOUS
  <2>3. \A e \in S : \E j \in T : e = [start |-> j]
    OBVIOUS
  <2>4. \A e \in S : e.start \in Nat
    BY <2>3
  <2> HIDE DEF S
  <2> QED
    BY <2>2, <2>4, LeastStart
<1>2. PICK i \in T : e = [start |-> i]
  OBVIOUS
<1>3. ASSUME NEW j \in T PROVE i <= j
  <2>1. [start |-> j] \in S
    OBVIOUS
  <2>2. e.start <= [start |-> j].start
    BY <1>1, <2>1
  <2> QED
    BY <1>2, <2>2
<1> QED
  BY <1>3

(* Index x goes to output k: an explicit range of k holds it, or none does  *)
(* and k is the complement.                                                 *)
Gets(m, k, x) ==
  LET holding == {e \in ExplicitRanges(m) : e.start <= x /\ x < e.end}
  IN  IF k = m.complement THEN holding = {} ELSE \E e \in holding : e.out = k

LEMMA SliceToFacts ==
  ASSUME NEW m, DecodedMix(m), NEW stop \in Nat, NEW c \in 0..stop - 1
  PROVE  /\ SliceTo(m, c, stop).end \in c + 1..stop
         /\ SliceTo(m, c, stop).out \in 1..Len(m.outs)
         /\ \A x \in c..SliceTo(m, c, stop).end - 1 : Gets(m, SliceTo(m, c, stop).out, x)
<1> DEFINE E == ExplicitRanges(m)
           open == {e \in E : c < e.end}
           next == CHOOSE e \in open : \A f \in open : e.start <= f.start
           least(a, b) == IF a <= b THEN a ELSE b
           slice == SliceTo(m, c, stop)
<1>1. /\ \A e \in E : /\ e.start \in Nat /\ e.end \in Nat /\ e.start < e.end
                      /\ e.out \in 1..Len(m.outs) /\ e.out # m.complement
      /\ m.complement \in 1..Len(m.outs)
  BY ExplicitRangesType
<1>2. slice = IF open = {} THEN [end |-> stop, out |-> m.complement]
              ELSE IF c >= next.start THEN [end |-> least(stop, next.end), out |-> next.out]
              ELSE [end |-> least(stop, next.start), out |-> m.complement]
  BY DEF SliceTo
<1>3. c \in Nat /\ c < stop
  OBVIOUS
<1> HIDE DEF slice
<1>4. CASE open = {}
  <2>1. slice.end = stop /\ slice.out = m.complement
    BY <1>2, <1>4
  <2>2. ASSUME NEW x \in c..stop - 1 PROVE Gets(m, m.complement, x)
    BY <1>1, <1>4 DEF Gets
  <2> QED
    BY <1>1, <1>3, <2>1, <2>2 DEF slice
<1>5. CASE open # {}
  <2>1. next \in open /\ \A f \in open : next.start <= f.start
    <3>1. \A e \in open : e.start \in Nat
      BY <1>1
    <3>2. \E e \in open : \A f \in open : e.start <= f.start
      <4> HIDE DEF open
      <4> QED
        BY <1>5, <3>1, LeastStart
    <3> QED
      BY <3>2
  <2>2. next \in E /\ c < next.end /\ next.start \in Nat /\ next.end \in Nat
        /\ next.out \in 1..Len(m.outs) /\ next.out # m.complement
    BY <1>1, <2>1
  <2> HIDE DEF next
  <2>3. CASE c >= next.start
    <3>1. slice.end = least(stop, next.end) /\ slice.out = next.out
      BY <1>2, <1>5, <2>3
    <3>2. slice.end \in c + 1..stop /\ slice.end <= next.end
      BY <1>3, <2>2, <3>1
    <3>3. ASSUME NEW x \in c..slice.end - 1 PROVE Gets(m, next.out, x)
      <4>1. next.start <= x /\ x < next.end
        BY <1>3, <2>2, <2>3, <3>2
      <4> QED
        BY <2>2, <4>1 DEF Gets
    <3> QED
      BY <2>2, <3>1, <3>2, <3>3 DEF slice
  <2>4. CASE ~(c >= next.start)
    <3>1. slice.end = least(stop, next.start) /\ slice.out = m.complement
      BY <1>2, <1>5, <2>4
    <3>2. slice.end \in c + 1..stop /\ slice.end <= next.start
      BY <1>3, <2>2, <2>4, <3>1
    <3>3. ASSUME NEW x \in c..slice.end - 1 PROVE Gets(m, m.complement, x)
      <4> SUFFICES ASSUME NEW e \in E, e.start <= x, x < e.end PROVE FALSE
        BY DEF Gets
      <4>1. e.start \in Nat /\ e.end \in Nat /\ x \in Int /\ c <= x /\ x < next.start
        BY <1>1, <1>3, <2>2, <3>2
      <4>2. next.start <= e.start
        BY <1>3, <2>1, <4>1
      <4> QED
        BY <2>2, <4>1, <4>2
    <3> QED
      BY <1>1, <3>1, <3>2, <3>3 DEF slice
  <2> QED
    BY <2>3, <2>4
<1> QED
  BY <1>4, <1>5

-----------------------------------------------------------------------------

(* A set that holds << >> and, with a sequence, every one that is longer by *)
(* one element holds all sequences.                                         *)
LEMMA SeqInduction ==
  ASSUME NEW A, NEW K, << >> \in K,
         \A s \in Seq(A), x \in A : s \in K => Append(s, x) \in K
  PROVE  \A s \in Seq(A) : s \in K
<1> SUFFICES ASSUME NEW s \in Seq(A) PROVE s \in K
  OBVIOUS
<1> DEFINE n == Len(s)
           I == {k \in 0..n : SubSeq(s, 1, k) \in K}
<1>1. n \in Nat /\ \A k \in 1..n : s[k] \in A
  OBVIOUS
<1>2. 0 \in I
  <2>1. SubSeq(s, 1, 0) = << >>
    OBVIOUS
  <2>2. SubSeq(s, 1, 0) \in K
    BY <2>1
  <2>3. 0 \in 0..n
    BY <1>1
  <2> HIDE DEF n
  <2> QED
    BY <2>2, <2>3
<1>3. ASSUME NEW k \in 0..n - 1, k \in I PROVE k + 1 \in I
  <2>1. k + 1 \in 0..n /\ k + 1 \in 1..n /\ k \in 0..n
    BY <1>1
  <2>2. SubSeq(s, 1, k) \in Seq(A) /\ SubSeq(s, 1, k + 1) = Append(SubSeq(s, 1, k), s[k + 1])
    BY <2>1
  <2>3. SubSeq(s, 1, k) \in K /\ s[k + 1] \in A
    BY <1>1, <1>3, <2>1
  <2> HIDE DEF n
  <2> QED
    BY <2>1, <2>2, <2>3
<1>4. \A k \in 0..n : k \in I
  <2> HIDE DEF n, I
  <2> QED
    BY <1>1, <1>2, <1>3, IntervalInduction
<1>5. n \in 0..n /\ SubSeq(s, 1, n) = s
  BY <1>1
<1>6. SubSeq(s, 1, n) \in K
  BY <1>4, <1>5
<1> QED
  BY <1>5, <1>6

LEMMA KeepAppend ==
  ASSUME NEW A, NEW s \in Seq(A), NEW x \in A, NEW S
  PROVE  Keep(Append(s, x), S) = IF x \in S THEN Append(Keep(s, S), x) ELSE Keep(s, S)
<1> DEFINE t == Append(s, x)
           n == Len(s)
<1>1. /\ t \in Seq(A) /\ Len(t) = n + 1 /\ t[n + 1] = x /\ n \in Nat
      /\ \A i \in 1..n : t[i] = s[i]
  OBVIOUS
<1> HIDE DEF t, n
<1>2. PICK F : StepsOf(F, n + 1, Seq(A), << >>, KeepStep(t, S, A), Keep(t, S))
  BY <1>1, KeepSteps
<1>3. PICK E : StepsOf(E, n, Seq(A), << >>, KeepStep(s, S, A), Keep(s, S))
  BY KeepSteps DEF n
<1>4. SameSteps(KeepStep(t, S, A), KeepStep(s, S, A), Seq(A), n)
  <2> SUFFICES ASSUME NEW p \in Seq(A) \X (1..n) PROVE KeepStep(t, S, A)[p] = KeepStep(s, S, A)[p]
    BY DEF SameSteps
  <2>1. p[2] \in 1..n /\ p[2] \in 1..n + 1 /\ p[1] \in Seq(A)
    BY <1>1
  <2>2. KeepStep(t, S, A)[p] = IF t[p[2]] \in S THEN Append(p[1], t[p[2]]) ELSE p[1]
    BY <1>1, <2>1 DEF KeepStep
  <2>3. KeepStep(s, S, A)[p] = IF s[p[2]] \in S THEN Append(p[1], s[p[2]]) ELSE p[1]
    BY <2>1 DEF KeepStep, n
  <2> QED
    BY <1>1, <2>1, <2>2, <2>3
<1>5. Keep(s, S) = F[n]
  <2>1. n + 1 \in Nat /\ n \in 0..n + 1
    BY <1>1
  <2> QED
    BY <1>2, <1>3, <1>4, <2>1, FoldPrefix
<1>6. F[n + 1] = KeepStep(t, S, A)[<<F[n], n + 1>>] /\ F[n + 1] = Keep(t, S) /\ F[n] \in Seq(A)
  <2>1. n + 1 \in 1..n + 1 /\ (n + 1) - 1 = n /\ n \in 0..n + 1
    BY <1>1
  <2> QED
    BY <1>2, <2>1 DEF StepsOf
<1>7. KeepStep(t, S, A)[<<F[n], n + 1>>] = IF t[n + 1] \in S THEN Append(F[n], t[n + 1]) ELSE F[n]
  <2>1. <<F[n], n + 1>> \in Seq(A) \X (1..Len(t))
    BY <1>1, <1>6
  <2> QED
    BY <2>1 DEF KeepStep
<1> QED
  BY <1>1, <1>5, <1>6, <1>7 DEF t


(* A function that appends something for every element takes a              *)
(* concatenation to a concatenation.                                        *)
ByElement(h, A, B) ==
  /\ h \in [Seq(A) -> Seq(B)]
  /\ h[<< >>] = << >>
  /\ \A s \in Seq(A), x \in A : h[Append(s, x)] = h[s] \o h[<<x>>]

Splits(h, s, t) == h[s \o t] = h[s] \o h[t]

LEMMA OfConcat ==
  ASSUME NEW A, NEW B, NEW h, ByElement(h, A, B), NEW s \in Seq(A), NEW t \in Seq(A)
  PROVE  Splits(h, s, t)
<1> DEFINE K == {u \in Seq(A) : h[s \o u] = h[s] \o h[u]}
<1>1. << >> \in K
  <2>1. << >> \in Seq(A) /\ s \o << >> = s
    OBVIOUS
  <2>2. h[<< >>] = << >> /\ h[s] \in Seq(B)
    BY DEF ByElement
  <2>3. h[s] \o << >> = h[s]
    BY <2>2
  <2> QED
    BY <2>1, <2>2, <2>3
<1>2. ASSUME NEW u \in Seq(A), NEW x \in A, u \in K PROVE Append(u, x) \in K
  <2>1. /\ s \o Append(u, x) = Append(s \o u, x) /\ s \o u \in Seq(A)
        /\ Append(u, x) \in Seq(A) /\ <<x>> \in Seq(A)
    OBVIOUS
  <2>2. h[s] \in Seq(B) /\ h[u] \in Seq(B) /\ h[<<x>>] \in Seq(B)
    BY <2>1 DEF ByElement
  <2>3. h[Append(s \o u, x)] = h[s \o u] \o h[<<x>>] /\ h[Append(u, x)] = h[u] \o h[<<x>>]
    BY <2>1 DEF ByElement
  <2>4. h[s \o u] = h[s] \o h[u]
    BY <1>2
  <2>5. (h[s] \o h[u]) \o h[<<x>>] = h[s] \o (h[u] \o h[<<x>>])
    <3>1. Regroups(h[s], h[u], h[<<x>>])
      BY <2>2, Associative
    <3> QED
      BY <3>1 DEF Regroups
  <2>6. h[s \o Append(u, x)] = h[s] \o h[Append(u, x)]
    BY <2>1, <2>3, <2>4, <2>5
  <2> QED
    BY <2>1, <2>6
<1>3. \A u \in Seq(A) : u \in K
  <2> HIDE DEF K
  <2> QED
    BY <1>1, <1>2, SeqInduction
<1>4. h[s \o t] = h[s] \o h[t]
  BY <1>3
<1> QED
  BY <1>4 DEF Splits

LEMMA ExpandByElement ==
  ASSUME NEW G, NEW M \in Nat
  PROVE  ByElement([s \in Seq(RangesOver(G, M)) |-> Expand(s)], RangesOver(G, M), Tokens(G))
<1> DEFINE R == RangesOver(G, M)
           h == [s \in Seq(R) |-> Expand(s)]
<1>1. << >> \in Seq(R) /\ \A s \in Seq(R) : Expand(s) \in Seq(Tokens(G))
  BY ExpandFacts
<1>2. Expand(<< >>) = << >>
  <2>1. ToSet(Expand(<< >>)) = UNION {TokensOf(r) : r \in ToSet(<< >>)}
    BY <1>1, ExpandFacts
  <2>2. ToSet(<< >>) = {}
    BY DEF ToSet
  <2>3. Expand(<< >>) \in Seq(Tokens(G)) /\ ToSet(Expand(<< >>)) = {}
    <3>1. UNION {TokensOf(r) : r \in {}} = {}
      OBVIOUS
    <3>2. ToSet(Expand(<< >>)) = {}
      BY <2>1, <2>2, <3>1
    <3> QED
      BY <1>1, <3>2
  <2>4. PICK e : e = Expand(<< >>) /\ e \in Seq(Tokens(G)) /\ ToSet(e) = {}
    BY <2>3
  <2>5. Len(e) = 0
    <3>1. SUFFICES ASSUME Len(e) # 0 PROVE FALSE
      OBVIOUS
    <3>2. 1 \in DOMAIN e
      BY <2>4, <3>1
    <3> QED
      BY <2>4, <3>2 DEF ToSet
  <2>6. e = << >>
    <3>1. \A q \in Seq(Tokens(G)) : Len(q) = 0 => q = << >>
      OBVIOUS
    <3> QED
      BY <2>4, <2>5, <3>1
  <2> QED
    BY <2>4, <2>6
<1>3. ASSUME NEW s \in Seq(R), NEW x \in R
      PROVE  Expand(Append(s, x)) = Expand(s) \o Expand(<<x>>)
  <2> HIDE DEF R
  <2>1. Expand(Append(s, x)) = Expand(s) \o InOrder(x)
    BY ExpandAppend DEF R
  <2>2. Expand(<<x>>) = InOrder(x)
    <3>1. Append(<< >>, x) = <<x>> /\ << >> \in Seq(R)
      OBVIOUS
    <3>2. Expand(Append(<< >>, x)) = Expand(<< >>) \o InOrder(x)
      BY <3>1, ExpandAppend DEF R
    <3>3. PICK e : e = InOrder(x) /\ e \in Seq(Tokens(G))
      BY InOrderFacts DEF R
    <3>4. << >> \o e = e
      BY <3>3
    <3> QED
      BY <1>2, <3>1, <3>2, <3>3, <3>4
  <2> QED
    BY <2>1, <2>2
<1>4. \A s \in Seq(R), x \in R : Append(s, x) \in Seq(R) /\ <<x>> \in Seq(R)
  OBVIOUS
<1> HIDE DEF R
<1> QED
  BY <1>1, <1>2, <1>3, <1>4 DEF ByElement, R

LEMMA ExpandConcat ==
  ASSUME NEW G, NEW M \in Nat, NEW s \in Seq(RangesOver(G, M)), NEW t \in Seq(RangesOver(G, M))
  PROVE  Expand(s \o t) = Expand(s) \o Expand(t)
<1> DEFINE R == RangesOver(G, M)
           h == [u \in Seq(R) |-> Expand(u)]
<1>1. s \o t \in Seq(R)
  OBVIOUS
<1>2. Splits(h, s, t)
  <2>1. ByElement(h, R, Tokens(G)) /\ s \in Seq(R) /\ t \in Seq(R)
    BY ExpandByElement
  <2> HIDE DEF h, R
  <2> QED
    BY <2>1, OfConcat
<1> QED
  BY <1>1, <1>2 DEF Splits

LEMMA TotalAppend ==
  ASSUME NEW G, NEW M \in Nat, NEW s \in Seq(RangesOver(G, M)), NEW r \in RangesOver(G, M)
  PROVE  Total(Append(s, r)) = Total(s) + Count(r)
<1> DEFINE t == Append(s, r)
           n == Len(s) + 1
<1>1. /\ t \in Seq(RangesOver(G, M)) /\ Len(t) = n /\ n \in 1..Len(t) /\ t[n] = r
      /\ SubSeq(t, 1, n - 1) = s
  OBVIOUS
<1> HIDE DEF t, n
<1>2. IndexStart(t, n) = Total(s)
  BY <1>1 DEF IndexStart
<1>3. IndexStart(t, n + 1) = Total(t) /\ IndexStart(t, n + 1) = IndexStart(t, n) + Count(t[n])
  BY <1>1, IndexStarts
<1> QED
  BY <1>1, <1>2, <1>3 DEF t

(* There are as many indices as tokens.                                     *)
LEMMA ExpandLength ==
  ASSUME NEW G, NEW M \in Nat
  PROVE  \A s \in Seq(RangesOver(G, M)) : Len(Expand(s)) = Total(s)
<1> DEFINE R == RangesOver(G, M)
           K == {s \in Seq(R) : Len(Expand(s)) = Total(s)}
<1>1. << >> \in K
  <2>1. << >> \in Seq(R)
    OBVIOUS
  <2>2. Expand(<< >>) = << >>
    BY <2>1, ExpandByElement DEF ByElement
  <2>3. Total(<< >>) = 0
    <3>1. IndexStart(<< >>, 1) = 0 /\ IndexStart(<< >>, Len(<< >>) + 1) = Total(<< >>)
      BY <2>1, IndexStarts
    <3> QED
      BY <3>1
  <2> QED
    BY <2>1, <2>2, <2>3
<1>2. ASSUME NEW s \in Seq(R), NEW r \in R, s \in K PROVE Append(s, r) \in K
  <2>1. Append(s, r) \in Seq(R)
    OBVIOUS
  <2>2. Expand(Append(s, r)) = Expand(s) \o InOrder(r) /\ Total(Append(s, r)) = Total(s) + Count(r)
    BY ExpandAppend, TotalAppend
  <2>3. PICK e, f : /\ e = Expand(s) /\ e \in Seq(Tokens(G)) /\ Len(e) = Total(s)
                    /\ f = InOrder(r) /\ f \in Seq(Tokens(G)) /\ Len(f) = Count(r)
    BY <1>2, ExpandFacts, InOrderFacts
  <2>4. Len(e \o f) = Len(e) + Len(f)
    BY <2>3
  <2> HIDE DEF R
  <2> QED
    BY <2>1, <2>2, <2>3, <2>4
<1> HIDE DEF K
<1>3. \A s \in Seq(R) : s \in K
  <2> HIDE DEF R
  <2> QED
    BY <1>1, <1>2, SeqInduction
<1> QED
  BY <1>3 DEF K

(* A concatenation by what it holds.                                        *)
IsConcat(u, s, t) ==
  /\ u = s \o t /\ Len(u) = Len(s) + Len(t)
  /\ \A k \in 1..Len(s) : u[k] = s[k]
  /\ \A k \in 1..Len(t) : u[Len(s) + k] = t[k]

LEMMA ConcatExists ==
  ASSUME NEW A, NEW s, NEW t
  PROVE  s \in Seq(A) /\ t \in Seq(A) => \E u \in Seq(A) : IsConcat(u, s, t)
<1> SUFFICES ASSUME s \in Seq(A), t \in Seq(A) PROVE \E u \in Seq(A) : IsConcat(u, s, t)
  OBVIOUS
<1>1. PICK u : u = s \o t
  OBVIOUS
<1>2. /\ u \in Seq(A) /\ Len(u) = Len(s) + Len(t)
      /\ \A k \in 1..Len(s) : u[k] = s[k]
      /\ \A k \in 1..Len(t) : u[Len(s) + k] = t[k]
  BY <1>1
<1> QED
  BY <1>1, <1>2 DEF IsConcat

(* The token an index of segment i stands for.                              *)
LEMMA TokenOfSegment ==
  ASSUME NEW G, NEW M \in Nat, NEW rs \in Seq(RangesOver(G, M)), NEW i \in 1..Len(rs),
         NEW x \in IndexStart(rs, i)..IndexStart(rs, i + 1) - 1
  PROVE  /\ x + 1 \in 1..Len(Expand(rs))
         /\ Expand(rs)[x + 1] = [group |-> rs[i].group, slot |-> rs[i].lo + (x - IndexStart(rs, i))]
<1> DEFINE R == RangesOver(G, M)
           n == Len(rs)
           a == IndexStart(rs, i)
           p == SubSeq(rs, 1, i - 1)
           q == SubSeq(rs, i + 1, n)
           r == rs[i]
<1>1. /\ i \in 1..n /\ n \in Nat /\ p \in Seq(R) /\ q \in Seq(R) /\ r \in R
      /\ Append(p, r) \in Seq(R) /\ rs = Append(p, r) \o q
  <2>1. n \in Nat /\ i \in 1..n /\ r \in R
    OBVIOUS
  <2>2. p \in Seq(R) /\ q \in Seq(R) /\ SubSeq(rs, 1, i) = Append(p, r)
    <3> HIDE DEF R
    <3> QED
      BY <2>1 DEF R
  <2>3. SubSeq(rs, 1, i) \o q = rs
    <3>1. 1 \in 1..n + 1 /\ i \in 0..n /\ n \in i..n /\ 1 - 1 = 0
      BY <2>1
    <3>2. SubSeq(rs, 1, i) \o SubSeq(rs, i + 1, n) = SubSeq(rs, 1, n)
      <4> HIDE DEF n
      <4> QED
        BY <3>1, ConcatAdjacentSubSeq DEF n
    <3>3. SubSeq(rs, 1, n) = rs
      OBVIOUS
    <3> QED
      BY <3>2, <3>3
  <2>4. Append(p, r) \in Seq(R)
    <3> HIDE DEF R, p, q, r, n
    <3> QED
      BY <2>1, <2>2
  <2> HIDE DEF R, p, q, r, n
  <2> QED
    BY <2>1, <2>2, <2>3, <2>4
<1>2. /\ a \in Nat /\ x \in Nat /\ a <= x /\ x < a + Count(r) /\ Count(r) \in Nat
  <2>1. a \in Nat /\ Count(r) \in Nat /\ IndexStart(rs, i + 1) = a + Count(r)
    <3>1. i \in 1..Len(rs) + 1
      BY <1>1
    <3> QED
      BY <3>1, IndexStarts
  <2> HIDE DEF a, r
  <2> QED
    BY <2>1 DEF a
<1>3. a = Total(p)
  BY DEF IndexStart
<1> HIDE DEF R, a, p, q, r, n
<1>4. PICK u, v, w : /\ u = Expand(p) /\ u \in Seq(Tokens(G)) /\ Len(u) = a
                     /\ v = InOrder(r) /\ v \in Seq(Tokens(G)) /\ Len(v) = Count(r)
                     /\ w = Expand(q) /\ w \in Seq(Tokens(G))
  BY <1>1, <1>3, ExpandFacts, ExpandLength, InOrderFacts DEF R
<1>5. Expand(rs) = (u \o v) \o w
  <2>1. Expand(Append(p, r)) = u \o v
    BY <1>1, <1>4, ExpandAppend DEF R
  <2>2. PICK pr : pr = Append(p, r) /\ pr \in Seq(RangesOver(G, M)) /\ q \in Seq(RangesOver(G, M))
    BY <1>1 DEF R
  <2>3. Expand(pr \o q) = Expand(pr) \o Expand(q)
    BY <2>2, ExpandConcat
  <2> QED
    BY <1>1, <1>4, <2>1, <2>2, <2>3
<1>6. PICK j : j \in 1..Count(r) /\ x + 1 = a + j
  <2>1. (x - a) + 1 \in 1..Count(r) /\ x + 1 = a + ((x - a) + 1)
    BY <1>2
  <2> QED
    BY <2>1
<1>7. /\ a + j \in 1..Len((u \o v) \o w) /\ ((u \o v) \o w)[a + j] = v[j]
  <2>1. PICK y \in Seq(Tokens(G)) : IsConcat(y, u, v)
    BY <1>4, ConcatExists
  <2>2. y = u \o v /\ Len(y) = a + Count(r) /\ y[a + j] = v[j]
    BY <1>4, <1>6, <2>1 DEF IsConcat
  <2>3. PICK z \in Seq(Tokens(G)) : IsConcat(z, y, w)
    BY <1>4, <2>1, ConcatExists
  <2>4. z = y \o w /\ Len(z) = Len(y) + Len(w) /\ \A k \in 1..Len(y) : z[k] = y[k]
    BY <2>3 DEF IsConcat
  <2>5. a + j \in 1..Len(y) /\ a + j \in 1..Len(z)
    <3>1. Len(w) \in Nat
      BY <1>4
    <3>2. a \in Nat /\ Count(r) \in Nat
      BY <1>2
    <3> QED
      BY <1>6, <2>2, <2>4, <3>1, <3>2
  <2>6. z[a + j] = v[j]
    BY <2>2, <2>4, <2>5
  <2> QED
    BY <2>2, <2>4, <2>5, <2>6
<1>8. v[j] = [group |-> r.group, slot |-> r.lo + j - 1]
  BY <1>4, <1>6 DEF InOrder
<1>9. r.lo + j - 1 = r.lo + (x - a)
  <2>1. r.lo \in Nat
    BY <1>1 DEF R, RangesOver
  <2> QED
    BY <1>2, <1>6, <2>1
<1> QED
  BY <1>5, <1>6, <1>7, <1>8, <1>9 DEF r, a

(* The indices a..b-1, and the tokens that indices stand for.               *)
Span(a, b) == [i \in 1..b - a |-> a + i - 1]
TokensAt(rs, idx) == [i \in 1..Len(idx) |-> Expand(rs)[idx[i] + 1]]

LEMMA SpanFacts ==
  ASSUME NEW n \in Nat, NEW a \in 0..n, NEW b \in a..n
  PROVE  /\ Span(a, b) \in Seq(a..b - 1) /\ Span(a, b) \in Seq(0..n - 1) /\ Len(Span(a, b)) = b - a
         /\ ToSet(Span(a, b)) \subseteq a..b - 1
         /\ Span(a, n) = Span(a, b) \o Span(b, n)
<1>1. /\ n \in Nat /\ a \in Nat /\ b \in Nat /\ a <= b /\ b <= n
      /\ b - a \in Nat /\ n - b \in Nat /\ n - a \in Nat /\ n - a = (b - a) + (n - b)
  OBVIOUS
<1>2. \A k \in 1..b - a : a + k - 1 \in a..b - 1 /\ a + k - 1 \in 0..n - 1
  BY <1>1
<1>3. Span(a, b) \in Seq(a..b - 1) /\ Span(a, b) \in Seq(0..n - 1) /\ Len(Span(a, b)) = b - a
  BY <1>1, <1>2 DEF Span
<1>4. ToSet(Span(a, b)) \subseteq a..b - 1
  BY <1>1, <1>2 DEF ToSet, Span
<1>5. \A k \in 1..n - b : b + k - 1 \in 0..n - 1
  BY <1>1
<1>6. \A k \in 1..n - a : a + k - 1 \in 0..n - 1
  BY <1>1
<1>7. /\ Span(b, n) \in Seq(0..n - 1) /\ Len(Span(b, n)) = n - b
      /\ Span(a, n) \in Seq(0..n - 1) /\ Len(Span(a, n)) = n - a
  BY <1>1, <1>5, <1>6 DEF Span
<1>8. PICK w \in Seq(0..n - 1) : IsConcat(w, Span(a, b), Span(b, n))
  BY <1>3, <1>7, ConcatExists
<1>9. ASSUME NEW k \in 1..n - a PROVE w[k] = Span(a, n)[k]
  <2>1. CASE k <= b - a
    <3>1. k \in 1..b - a
      BY <1>1, <2>1
    <3>2. w[k] = Span(a, b)[k]
      BY <1>3, <1>8, <3>1 DEF IsConcat
    <3> QED
      BY <3>1, <3>2 DEF Span
  <2>2. CASE ~(k <= b - a)
    <3>1. PICK j : j \in 1..n - b /\ (b - a) + j = k /\ b + j - 1 = a + k - 1
      <4>1. k - (b - a) \in 1..n - b /\ (b - a) + (k - (b - a)) = k
            /\ b + (k - (b - a)) - 1 = a + k - 1
        BY <1>1, <2>2
      <4> QED
        BY <4>1
    <3>2. w[k] = Span(b, n)[j]
      BY <1>3, <1>7, <1>8, <3>1 DEF IsConcat
    <3> QED
      BY <3>1, <3>2 DEF Span
  <2> QED
    BY <2>1, <2>2
<1>10. Len(w) = n - a /\ w = Span(a, b) \o Span(b, n)
  BY <1>1, <1>3, <1>7, <1>8 DEF IsConcat
<1>11. w = Span(a, n)
  BY <1>7, <1>9, <1>10, SeqEqual
<1> QED
  BY <1>3, <1>4, <1>10, <1>11

-----------------------------------------------------------------------------
(* Functions by element: a map, Keep, one after the other.                  *)

Mapped(q, s) == [i \in 1..Len(s) |-> q[s[i]]]

LEMMA MappedByElement ==
  ASSUME NEW A, NEW B, NEW q \in [A -> B]
  PROVE  ByElement([s \in Seq(A) |-> Mapped(q, s)], A, B)
<1>1. \A s \in Seq(A) : Mapped(q, s) \in Seq(B)
  BY DEF Mapped
<1>2. << >> \in Seq(A) /\ Mapped(q, << >>) = << >>
  BY DEF Mapped
<1>3. ASSUME NEW s \in Seq(A), NEW x \in A
      PROVE  /\ Append(s, x) \in Seq(A) /\ <<x>> \in Seq(A)
             /\ Mapped(q, Append(s, x)) = Mapped(q, s) \o Mapped(q, <<x>>)
  <2>1. /\ Append(s, x) \in Seq(A) /\ <<x>> \in Seq(A) /\ Len(<<x>>) = 1 /\ <<x>>[1] = x
        /\ Len(s) \in Nat /\ Len(Append(s, x)) = Len(s) + 1
        /\ Append(s, x)[Len(s) + 1] = x /\ \A i \in 1..Len(s) : Append(s, x)[i] = s[i]
    OBVIOUS
  <2>2. PICK u, v, w : u = Mapped(q, s) /\ v = Mapped(q, <<x>>) /\ w = Mapped(q, Append(s, x))
    OBVIOUS
  <2>3. /\ u \in Seq(B) /\ v \in Seq(B) /\ w \in Seq(B)
        /\ Len(u) = Len(s) /\ Len(v) = 1 /\ Len(w) = Len(s) + 1
    BY <1>1, <2>1, <2>2 DEF Mapped
  <2>4. PICK y \in Seq(B) : IsConcat(y, u, v)
    BY <2>3, ConcatExists
  <2>5. y = u \o v /\ Len(y) = Len(s) + 1
    BY <2>3, <2>4 DEF IsConcat
  <2>6. ASSUME NEW i \in 1..Len(s) + 1 PROVE w[i] = y[i]
    <3>1. CASE i = Len(s) + 1
      <4>1. w[i] = q[x] /\ v[1] = q[x]
        BY <2>1, <2>2, <3>1 DEF Mapped
      <4>2. y[i] = v[1]
        BY <2>3, <2>4, <3>1 DEF IsConcat
      <4> QED
        BY <4>1, <4>2
    <3>2. CASE i # Len(s) + 1
      <4>0. i \in 1..Len(s)
        BY <2>1, <3>2
      <4>1. w[i] = q[s[i]] /\ u[i] = q[s[i]]
        BY <2>1, <2>2, <4>0 DEF Mapped
      <4>2. y[i] = u[i]
        BY <2>3, <2>4, <4>0 DEF IsConcat
      <4> QED
        BY <4>1, <4>2
    <3> QED
      BY <3>1, <3>2
  <2>7. w = y
    BY <2>3, <2>5, <2>6, SeqEqual
  <2> QED
    BY <2>1, <2>2, <2>5, <2>7
<1> QED
  BY <1>1, <1>2, <1>3 DEF ByElement

LEMMA KeepByElement ==
  ASSUME NEW A, NEW S
  PROVE  ByElement([s \in Seq(A) |-> Keep(s, S)], A, A)
<1>1. \A s \in Seq(A) : Keep(s, S) \in Seq(A)
  BY KeepFacts
<1>2. << >> \in Seq(A) /\ Keep(<< >>, S) = << >>
  <2>1. << >> \in Seq(A) /\ ToSet(<< >>) \subseteq S
    BY DEF ToSet
  <2> QED
    BY <2>1, KeepFacts
<1>3. ASSUME NEW s \in Seq(A), NEW x \in A
      PROVE  /\ Append(s, x) \in Seq(A) /\ <<x>> \in Seq(A)
             /\ Keep(Append(s, x), S) = Keep(s, S) \o Keep(<<x>>, S)
  <2>1. Append(s, x) \in Seq(A) /\ <<x>> \in Seq(A) /\ Append(<< >>, x) = <<x>>
    OBVIOUS
  <2>2. Keep(Append(s, x), S) = IF x \in S THEN Append(Keep(s, S), x) ELSE Keep(s, S)
    BY KeepAppend
  <2>3. Keep(Append(<< >>, x), S) = IF x \in S THEN Append(Keep(<< >>, S), x) ELSE Keep(<< >>, S)
    BY <1>2, KeepAppend
  <2>4. PICK u : u = Keep(s, S) /\ u \in Seq(A)
    BY <1>1
  <2>5. u \o << >> = u /\ u \o <<x>> = Append(u, x)
    BY <2>4
  <2> QED
    BY <1>2, <2>1, <2>2, <2>3, <2>4, <2>5
<1> QED
  BY <1>1, <1>2, <1>3 DEF ByElement

LEMMA ComposedByElement ==
  ASSUME NEW A, NEW B, NEW C, NEW f, NEW g, ByElement(f, A, B), ByElement(g, B, C)
  PROVE  ByElement([s \in Seq(A) |-> g[f[s]]], A, C)
<1>1. \A s \in Seq(A) : f[s] \in Seq(B) /\ g[f[s]] \in Seq(C)
  BY DEF ByElement
<1>2. << >> \in Seq(A) /\ g[f[<< >>]] = << >>
  BY DEF ByElement
<1>3. ASSUME NEW s \in Seq(A), NEW x \in A
      PROVE  /\ Append(s, x) \in Seq(A) /\ <<x>> \in Seq(A)
             /\ g[f[Append(s, x)]] = g[f[s]] \o g[f[<<x>>]]
  <2>1. Append(s, x) \in Seq(A) /\ <<x>> \in Seq(A)
    OBVIOUS
  <2>2. f[Append(s, x)] = f[s] \o f[<<x>>]
    BY DEF ByElement
  <2>3. f[s] \in Seq(B) /\ f[<<x>>] \in Seq(B)
    BY <1>1, <2>1
  <2>4. Splits(g, f[s], f[<<x>>])
    BY <2>3, OfConcat
  <2> QED
    BY <2>1, <2>2, <2>4 DEF Splits
<1> QED
  BY <1>1, <1>2, <1>3 DEF ByElement

LEMMA KeepSame ==
  ASSUME NEW A, NEW s \in Seq(A), NEW S, NEW T, ToSet(s) \cap S = ToSet(s) \cap T
  PROVE  Keep(s, S) = Keep(s, T)
<1> DEFINE n == Len(s)
<1>1. n \in Nat /\ n \in 0..n /\ \A i \in 1..n : s[i] \in ToSet(s)
  BY DEF ToSet
<1>2. PICK F : StepsOf(F, n, Seq(A), << >>, KeepStep(s, S, A), Keep(s, S))
  BY KeepSteps
<1>3. PICK E : StepsOf(E, n, Seq(A), << >>, KeepStep(s, T, A), Keep(s, T))
  BY KeepSteps
<1>4. SameSteps(KeepStep(s, S, A), KeepStep(s, T, A), Seq(A), n)
  <2> SUFFICES ASSUME NEW p \in Seq(A) \X (1..n) PROVE KeepStep(s, S, A)[p] = KeepStep(s, T, A)[p]
    BY DEF SameSteps
  <2>1. p[2] \in 1..n /\ (s[p[2]] \in S <=> s[p[2]] \in T)
    BY <1>1
  <2> QED
    BY <2>1 DEF KeepStep
<1>5. Keep(s, T) = F[n]
  <2> HIDE DEF n
  <2> QED
    BY <1>1, <1>2, <1>3, <1>4, FoldPrefix
<1>6. Keep(s, S) = F[n]
  BY <1>2 DEF StepsOf
<1> QED
  BY <1>5, <1>6

-----------------------------------------------------------------------------
(* One slice of the sweep.                                                  *)

Pieces(m, R) == [out : 1..Len(m.outs), range : R]

SegmentAt(rs, c) ==
  CHOOSE i \in 1..Len(rs) : IndexStart(rs, i) <= c /\ c < IndexStart(rs, i + 1)
SliceAt(m, rs, c) == SliceTo(m, c, IndexStart(rs, SegmentAt(rs, c) + 1))
EndAt(m, rs, c)   == SliceAt(m, rs, c).end
LoAt(rs, c)       == rs[SegmentAt(rs, c)].lo + c - IndexStart(rs, SegmentAt(rs, c))
PieceAt(m, rs, c) ==
  [out   |-> SliceAt(m, rs, c).out,
   range |-> [group |-> rs[SegmentAt(rs, c)].group, lo |-> LoAt(rs, c),
              hi |-> LoAt(rs, c) + EndAt(m, rs, c) - c - 1]]

LEMMA StartsBounded ==
  ASSUME NEW G, NEW M \in Nat, NEW rs \in Seq(RangesOver(G, M))
  PROVE  \A i \in 1..Len(rs) + 1 : IndexStart(rs, i) <= Total(rs)
<1> DEFINE n == Len(rs)
           K == {k \in 0..n : IndexStart(rs, n + 1 - k) <= Total(rs)}
<1>1. /\ n \in Nat /\ Total(rs) \in Nat /\ IndexStart(rs, n + 1) = Total(rs)
      /\ \A i \in 1..n + 1 : IndexStart(rs, i) \in Nat
      /\ \A i \in 1..n : Count(rs[i]) \in Nat /\ IndexStart(rs, i + 1) = IndexStart(rs, i) + Count(rs[i])
  BY IndexStarts
<1> HIDE DEF n
<1>2. 0 \in K
  <2>1. n + 1 - 0 = n + 1
    BY <1>1
  <2> QED
    BY <1>1, <2>1
<1>3. ASSUME NEW k \in 0..n - 1, k \in K PROVE k + 1 \in K
  <2>1. /\ n - k \in 1..n /\ n - k \in 1..n + 1 /\ n + 1 - k = (n - k) + 1
        /\ n + 1 - (k + 1) = n - k /\ k + 1 \in 0..n /\ n + 1 - k \in 1..n + 1
    BY <1>1
  <2>2. /\ IndexStart(rs, n - k) \in Nat /\ Count(rs[n - k]) \in Nat
        /\ IndexStart(rs, n + 1 - k) = IndexStart(rs, n - k) + Count(rs[n - k])
    BY <1>1, <2>1
  <2>3. IndexStart(rs, n + 1 - k) <= Total(rs)
    BY <1>3
  <2> QED
    BY <1>1, <2>1, <2>2, <2>3
<1>4. \A k \in 0..n : k \in K
  <2> HIDE DEF K
  <2> QED
    BY <1>1, <1>2, <1>3, IntervalInduction
<1>5. ASSUME NEW i \in 1..n + 1 PROVE IndexStart(rs, i) <= Total(rs)
  <2>1. n + 1 - i \in 0..n /\ n + 1 - (n + 1 - i) = i
    BY <1>1
  <2>2. n + 1 - i \in K
    BY <1>4, <2>1
  <2> QED
    BY <2>1, <2>2
<1> QED
  BY <1>5 DEF n

(* The numbers of a slice c..e-1 in a segment a..b-1 that starts at slot l. *)
SliceFits(a, b, c, e, l, lo, M) ==
  /\ lo \in 0..M /\ lo + e - c - 1 \in 0..M /\ lo <= lo + e - c - 1
  /\ (lo + e - c - 1) - lo + 1 = e - c
  /\ \A j \in 1..e - c : c + j - 1 \in a..b - 1 /\ l + ((c + j - 1) - a) = lo + j - 1

LEMMA SliceArithmetic ==
  ASSUME NEW a \in Nat, NEW b \in Nat, NEW c \in Nat, NEW l \in Nat, NEW h \in Nat, NEW M \in Nat,
         NEW e \in Int, NEW lo
  PROVE  /\ a <= c /\ c < b /\ l <= h /\ h <= M /\ b = a + (h - l + 1)
         /\ e \in c + 1..b /\ lo = l + c - a
         => SliceFits(a, b, c, e, l, lo, M)
BY DEF SliceFits

(* It lies in one segment, goes to the output that gets each of its indices *)
(* and holds the tokens of those indices in their order.                    *)
LEMMA PieceFacts ==
  ASSUME NEW G, NEW M \in Nat, NEW rs \in Seq(RangesOver(G, M)), NEW m, DecodedMix(m),
         NEW c \in 0..Total(rs) - 1
  PROVE  /\ EndAt(m, rs, c) \in c + 1..Total(rs)
         /\ PieceAt(m, rs, c) \in Pieces(m, RangesOver(G, M))
         /\ \A x \in c..EndAt(m, rs, c) - 1 : Gets(m, PieceAt(m, rs, c).out, x)
         /\ InOrder(PieceAt(m, rs, c).range) = TokensAt(rs, Span(c, EndAt(m, rs, c)))
<1> DEFINE n == Len(rs)
           i == SegmentAt(rs, c)
           a == IndexStart(rs, i)
           b == IndexStart(rs, i + 1)
           e == EndAt(m, rs, c)
           r == rs[i]
           lo == LoAt(rs, c)
           p == PieceAt(m, rs, c)
           q == [group |-> r.group, lo |-> lo, hi |-> lo + e - c - 1]
<1>1. i \in 1..n /\ a <= c /\ c < b
  <2>1. \E j \in 1..Len(rs) : IndexStart(rs, j) <= c /\ c < IndexStart(rs, j + 1)
    BY SegmentOfIndex
  <2> QED
    BY <2>1 DEF SegmentAt
<1>2. n \in Nat /\ r \in RangesOver(G, M) /\ i + 1 \in 1..n + 1 /\ i \in 1..n + 1
  <2> HIDE DEF i
  <2> QED
    BY <1>1
<1>3. a \in Nat /\ b \in Nat /\ b <= Total(rs) /\ Total(rs) \in Nat /\ b = a + Count(r) /\ c \in Nat
  <2> HIDE DEF i
  <2>1. a \in Nat /\ b \in Nat /\ Total(rs) \in Nat /\ b = a + Count(r)
    BY <1>1, <1>2, IndexStarts
  <2>2. b <= Total(rs)
    BY <1>2, StartsBounded
  <2> QED
    BY <2>1, <2>2
<1>4. /\ r.group \in G /\ r.lo \in Nat /\ r.hi \in 0..M /\ r.lo <= r.hi /\ Count(r) = r.hi - r.lo + 1
  BY <1>2 DEF RangesOver, Count
<1>5. p = [out |-> SliceAt(m, rs, c).out, range |-> q]
  BY DEF PieceAt
<1>6. /\ e \in c + 1..b /\ SliceAt(m, rs, c).out \in 1..Len(m.outs)
      /\ \A x \in c..e - 1 : Gets(m, SliceAt(m, rs, c).out, x)
  <2>1. c \in 0..b - 1 /\ b \in Nat
    BY <1>1, <1>3
  <2>2. SliceAt(m, rs, c) = SliceTo(m, c, b) /\ e = SliceTo(m, c, b).end
    BY DEF SliceAt, EndAt
  <2> HIDE DEF b, e, i
  <2> QED
    BY <2>1, <2>2, SliceToFacts
<1>7. SliceFits(a, b, c, e, r.lo, lo, M)
  <2>1. lo = r.lo + c - a
    BY DEF LoAt
  <2> HIDE DEF lo, r, a, i, e, b, q
  <2>2. /\ a <= c /\ c < b /\ r.lo <= r.hi /\ r.hi <= M /\ b = a + (r.hi - r.lo + 1)
        /\ e \in c + 1..b /\ r.hi \in Nat /\ e \in Int /\ r.lo \in Nat /\ a \in Nat /\ b \in Nat
        /\ c \in Nat
    BY <1>1, <1>3, <1>4, <1>6
  <2> QED
    BY <2>1, <2>2, SliceArithmetic
<1> HIDE DEF n, i, a, b, e, r, lo, p
<1>8. q \in RangesOver(G, M) /\ Count(q) = e - c /\ q.lo = lo /\ q.group = r.group
  <2>1. Count(q) = (lo + e - c - 1) - lo + 1
    BY DEF Count
  <2> QED
    BY <1>4, <1>7, <2>1 DEF RangesOver, SliceFits
<1>9. e \in c + 1..Total(rs)
  BY <1>3, <1>6
<1>10. p \in Pieces(m, RangesOver(G, M)) /\ p.range = q /\ p.out = SliceAt(m, rs, c).out
  BY <1>5, <1>6, <1>8 DEF Pieces
<1>11. InOrder(q) = TokensAt(rs, Span(c, e))
  <2>1. InOrder(q) = [j \in 1..e - c |-> [group |-> r.group, slot |-> lo + j - 1]]
    BY <1>8 DEF InOrder
  <2>2. Len(Span(c, e)) = e - c
    <3>1. c \in 0..Total(rs) /\ e \in c..Total(rs) /\ Total(rs) \in Nat
      <4> HIDE DEF q
      <4> QED
        BY <1>3, <1>9
    <3> QED
      BY <3>1, SpanFacts
  <2>3. TokensAt(rs, Span(c, e)) = [j \in 1..e - c |-> Expand(rs)[Span(c, e)[j] + 1]]
    BY <2>2 DEF TokensAt
  <2>4. ASSUME NEW j \in 1..e - c
        PROVE  Expand(rs)[Span(c, e)[j] + 1] = [group |-> r.group, slot |-> lo + j - 1]
    <3>1. Span(c, e)[j] = c + j - 1
      BY DEF Span
    <3>2. c + j - 1 \in a..b - 1 /\ r.lo + ((c + j - 1) - a) = lo + j - 1
      BY <1>7 DEF SliceFits
    <3>3. Expand(rs)[(c + j - 1) + 1] = [group |-> r.group, slot |-> r.lo + ((c + j - 1) - a)]
      <4>1. i \in 1..Len(rs) /\ c + j - 1 \in IndexStart(rs, i)..IndexStart(rs, i + 1) - 1
        BY <1>1, <3>2 DEF n, a, b
      <4> DEFINE x == c + j - 1
      <4> HIDE DEF x
      <4>2. Expand(rs)[x + 1] = [group |-> rs[i].group, slot |-> rs[i].lo + (x - IndexStart(rs, i))]
        BY <4>1, TokenOfSegment DEF x
      <4> QED
        BY <4>2 DEF x, r, a
    <3> QED
      BY <3>1, <3>2, <3>3
  <2> QED
    BY <2>1, <2>3, <2>4
<1> QED
  BY <1>6, <1>9, <1>10, <1>11 DEF e, p

IsSweep(sl, m, rs) ==
  sl = [c \in 0..Total(rs) |->
         IF c = Total(rs) THEN << >> ELSE <<PieceAt(m, rs, c)>> \o sl[EndAt(m, rs, c)]]

LEMMA SweepExists ==
  ASSUME NEW G, NEW M \in Nat, NEW rs \in Seq(RangesOver(G, M)), NEW m, DecodedMix(m)
  PROVE  \E sl : IsSweep(sl, m, rs) /\ Sweep(m, rs) = sl[0]
<1> DEFINE n == Total(rs)
           P == Pieces(m, RangesOver(G, M))
           D == Seq(P)
           H == [x \in (0..n) \X D |-> IF x[1] = n THEN << >> ELSE <<PieceAt(m, rs, x[1])>> \o x[2]]
           next == [c \in 0..n |-> IF c = n THEN n ELSE EndAt(m, rs, c)]
           sl == CHOOSE sl : IsSweep(sl, m, rs)
<1>1. n \in Nat
  BY IndexStarts
<1>2. \A c \in 0..n : c # n => PieceAt(m, rs, c) \in P /\ EndAt(m, rs, c) \in c + 1..n
  <2>1. \A c \in 0..n : c # n => c \in 0..Total(rs) - 1
    BY <1>1
  <2> QED
    BY <2>1, PieceFacts
<1> HIDE DEF n, P
<1>3. << >> \in D /\ H \in [(0..n) \X D -> D]
  <2>1. << >> \in D
    OBVIOUS
  <2>2. ASSUME NEW x \in (0..n) \X D
        PROVE  (IF x[1] = n THEN << >> ELSE <<PieceAt(m, rs, x[1])>> \o x[2]) \in D
    <3>1. CASE x[1] = n
      BY <3>1
    <3>2. CASE x[1] # n
      <4>1. PICK p : p = PieceAt(m, rs, x[1]) /\ p \in P
        BY <1>2, <3>2
      <4>2. <<p>> \o x[2] \in D
        BY <4>1
      <4> QED
        BY <3>2, <4>1, <4>2
    <3> QED
      BY <3>1, <3>2
  <2> HIDE DEF D
  <2> QED
    BY <2>1, <2>2
<1>4. next \in [0..n -> 0..n] /\ \A c \in 0..n : c # n => c < next[c] /\ next[c] = EndAt(m, rs, c)
  <2>1. ASSUME NEW c \in 0..n
        PROVE  (IF c = n THEN n ELSE EndAt(m, rs, c)) \in 0..n /\ (c # n => c < EndAt(m, rs, c))
    BY <1>1, <1>2
  <2> QED
    BY <2>1
<1>5. PICK f \in [0..n -> D] : BackStep(f, n, << >>, H, next)
  <2> HIDE DEF H, D, next
  <2> QED
    BY <1>1, <1>3, <1>4, BackRecursion
<1>6. IsSweep(f, m, rs)
  <2>1. ASSUME NEW c \in 0..n
        PROVE  f[c] = IF c = n THEN << >> ELSE <<PieceAt(m, rs, c)>> \o f[EndAt(m, rs, c)]
    <3>1. f[c] = IF c = n THEN << >> ELSE H[<<c, f[next[c]]>>]
      <4> HIDE DEF H, D, next
      <4> QED
        BY <1>5 DEF BackStep
    <3>2. CASE c # n
      <4>1. next[c] = EndAt(m, rs, c) /\ f[next[c]] \in D
        BY <1>4, <1>5, <3>2
      <4> HIDE DEF D, next
      <4>2. H[<<c, f[next[c]]>>] = <<PieceAt(m, rs, c)>> \o f[next[c]]
        BY <3>2, <4>1
      <4> QED
        BY <3>1, <3>2, <4>1, <4>2
    <3> QED
      BY <3>1, <3>2
  <2>2. f = [c \in 0..n |-> f[c]]
    BY <1>5
  <2> HIDE DEF H, D, next
  <2> QED
    BY <2>1, <2>2 DEF IsSweep, n
<1>7. IsSweep(sl, m, rs)
  BY <1>6
<1>8. Sweep(m, rs) = sl[0]
  BY DEF Sweep, IsSweep, PieceAt, EndAt, SliceAt, LoAt, SegmentAt
<1> QED
  BY <1>7, <1>8

-----------------------------------------------------------------------------
(* The whole sweep.                                                         *)

RangesIn(ps) == [i \in 1..Len(ps) |-> ps[i].range]

LEMMA RangesInFacts ==
  ASSUME NEW R, NEW m
  PROVE  /\ \A s \in Seq(Pieces(m, R)) : RangesIn(s) \in Seq(R)
         /\ \A p \in Pieces(m, R) : RangesIn(<<p>>) = <<p.range>>
         /\ RangesIn(<< >>) = << >>
         /\ ByElement([s \in Seq(Pieces(m, R)) |-> RangesIn(s)], Pieces(m, R), R)
<1> DEFINE P == Pieces(m, R)
           q == [p \in P |-> p.range]
<1>1. \A p \in P : p.range \in R
  BY DEF Pieces
<1>2. q \in [P -> R]
  BY <1>1
<1>3. \A s \in Seq(P) : Mapped(q, s) = RangesIn(s)
  BY DEF Mapped, RangesIn
<1>4. ByElement([s \in Seq(P) |-> Mapped(q, s)], P, R)
  <2> HIDE DEF P, q
  <2> QED
    BY <1>2, MappedByElement
<1>5. [s \in Seq(P) |-> Mapped(q, s)] = [s \in Seq(P) |-> RangesIn(s)]
  BY <1>3
<1>6. \A s \in Seq(P) : RangesIn(s) \in Seq(R)
  BY <1>1 DEF RangesIn
<1>7. \A p \in P : RangesIn(<<p>>) = <<p.range>>
  BY DEF RangesIn
<1>8. RangesIn(<< >>) = << >>
  BY DEF RangesIn
<1> HIDE DEF P
<1> QED
  BY <1>4, <1>5, <1>6, <1>7, <1>8 DEF P

(* The tokens of the pieces in S.                                           *)
LEMMA PiecesByElement ==
  ASSUME NEW G, NEW M \in Nat, NEW m, NEW S
  PROVE  ByElement([s \in Seq(Pieces(m, RangesOver(G, M))) |-> Expand(RangesIn(Keep(s, S)))],
                   Pieces(m, RangesOver(G, M)), Tokens(G))
<1> DEFINE R == RangesOver(G, M)
           P == Pieces(m, R)
           kf == [s \in Seq(P) |-> Keep(s, S)]
           rf == [s \in Seq(P) |-> RangesIn(s)]
           ef == [s \in Seq(R) |-> Expand(s)]
           re == [s \in Seq(P) |-> ef[rf[s]]]
           h  == [s \in Seq(P) |-> Expand(RangesIn(Keep(s, S)))]
<1>1. ByElement(kf, P, P)
  <2> HIDE DEF P
  <2> QED
    BY KeepByElement
<1>2. ByElement(rf, P, R)
  <2> HIDE DEF R
  <2> QED
    BY RangesInFacts
<1>3. ByElement(ef, R, Tokens(G))
  BY ExpandByElement
<1>4. ByElement(re, P, Tokens(G))
  <2> HIDE DEF rf, ef, P, R
  <2> QED
    BY <1>2, <1>3, ComposedByElement
<1>5. ByElement([s \in Seq(P) |-> re[kf[s]]], P, Tokens(G))
  <2> HIDE DEF re, kf, P, R
  <2> QED
    BY <1>1, <1>4, ComposedByElement
<1>6. ASSUME NEW s \in Seq(P) PROVE re[kf[s]] = Expand(RangesIn(Keep(s, S)))
  <2>1. Keep(s, S) \in Seq(P)
    <3> HIDE DEF P
    <3> QED
      BY KeepFacts
  <2>2. RangesIn(Keep(s, S)) \in Seq(R)
    BY <2>1, RangesInFacts
  <2> HIDE DEF P, R
  <2> QED
    BY <2>1, <2>2
<1> HIDE DEF re, kf
<1>7. [s \in Seq(P) |-> re[kf[s]]] = h
  BY <1>6
<1> QED
  BY <1>5, <1>7

LEMMA IndicesByElement ==
  ASSUME NEW G, NEW M \in Nat, NEW rs \in Seq(RangesOver(G, M)), NEW S
  PROVE  ByElement([s \in Seq(0..Total(rs) - 1) |-> TokensAt(rs, Keep(s, S))],
                   0..Total(rs) - 1, Tokens(G))
<1> DEFINE n == Total(rs)
           A == 0..n - 1
           q == [x \in A |-> Expand(rs)[x + 1]]
           kf == [s \in Seq(A) |-> Keep(s, S)]
           qf == [s \in Seq(A) |-> Mapped(q, s)]
           h == [s \in Seq(A) |-> TokensAt(rs, Keep(s, S))]
<1>1. n \in Nat
  BY IndexStarts
<1>2. q \in [A -> Tokens(G)]
  <2>1. PICK e : e = Expand(rs) /\ e \in Seq(Tokens(G)) /\ Len(e) = n
    BY ExpandFacts, ExpandLength
  <2>2. \A x \in A : x + 1 \in 1..Len(e)
    BY <1>1, <2>1
  <2>3. \A x \in A : e[x + 1] \in Tokens(G)
    BY <2>1, <2>2, ElementOfSeq
  <2> QED
    BY <2>1, <2>3
<1> HIDE DEF n, A
<1>3. ByElement(kf, A, A)
  BY KeepByElement
<1>4. ByElement(qf, A, Tokens(G))
  <2> HIDE DEF q
  <2> QED
    BY <1>2, MappedByElement
<1>5. ByElement([s \in Seq(A) |-> qf[kf[s]]], A, Tokens(G))
  <2> HIDE DEF kf, qf
  <2> QED
    BY <1>3, <1>4, ComposedByElement
<1>6. ASSUME NEW s \in Seq(A) PROVE qf[kf[s]] = TokensAt(rs, Keep(s, S))
  <2>1. PICK u : u = Keep(s, S) /\ u \in Seq(A)
    BY KeepFacts
  <2>2. Mapped(q, u) = TokensAt(rs, u)
    <3>1. \A i \in 1..Len(u) : u[i] \in A
      BY <2>1
    <3>2. \A i \in 1..Len(u) : q[u[i]] = Expand(rs)[u[i] + 1]
      BY <3>1
    <3> HIDE DEF q
    <3> QED
      BY <3>2 DEF Mapped, TokensAt
  <2> HIDE DEF q
  <2> QED
    BY <2>1, <2>2
<1> HIDE DEF qf, kf
<1>7. [s \in Seq(A) |-> qf[kf[s]]] = h
  BY <1>6
<1> QED
  BY <1>5, <1>7 DEF n, A

(* No index goes to two outputs.                                            *)
LEMMA GetsOnce ==
  ASSUME NEW m, DecodedMix(m), NEW x \in Int, NEW j, NEW k, Gets(m, j, x), Gets(m, k, x)
  PROVE  j = k
<1> DEFINE holding == {e \in ExplicitRanges(m) : e.start <= x /\ x < e.end}
<1>1. \A e, f \in holding : e = f
  <2> SUFFICES ASSUME NEW e \in holding, NEW f \in holding, e # f PROVE FALSE
    OBVIOUS
  <2>1. /\ e.start \in Nat /\ e.end \in Nat /\ f.start \in Nat /\ f.end \in Nat
        /\ e.end <= f.start \/ f.end <= e.start
    BY ExplicitRangesType
  <2> QED
    BY <2>1
<1>2. j # m.complement => \E e \in holding : e.out = j
  BY DEF Gets
<1>3. k # m.complement => \E e \in holding : e.out = k
  BY DEF Gets
<1>4. j = m.complement \/ k = m.complement => holding = {}
  BY DEF Gets
<1> HIDE DEF holding
<1> QED
  BY <1>1, <1>2, <1>3, <1>4

Mine(m, R, k)     == {p \in Pieces(m, R) : p.out = k}
Given(m, rs, k)   == {x \in 0..Total(rs) - 1 : Gets(m, k, x)}

(* The indices output k gets, in order.                                     *)
IndicesOf(m, rs, k) == Keep(Span(0, Total(rs)), Given(m, rs, k))

LEMMA PieceOrNot ==
  ASSUME NEW G, NEW M \in Nat, NEW rs \in Seq(RangesOver(G, M)), NEW m, DecodedMix(m),
         NEW c \in 0..Total(rs) - 1, NEW k
  PROVE  Expand(RangesIn(Keep(<<PieceAt(m, rs, c)>>, Mine(m, RangesOver(G, M), k))))
         = TokensAt(rs, Keep(Span(c, EndAt(m, rs, c)), Given(m, rs, k)))
<1> DEFINE R == RangesOver(G, M)
           P == Pieces(m, R)
           n == Total(rs)
           p == PieceAt(m, rs, c)
           e == EndAt(m, rs, c)
           s == Span(c, e)
           us == <<p>>
<1>1. /\ n \in Nat /\ c \in 0..n - 1 /\ e \in c + 1..n /\ p \in P
      /\ \A x \in c..e - 1 : Gets(m, p.out, x)
      /\ InOrder(p.range) = TokensAt(rs, s)
  BY IndexStarts, PieceFacts
<1>2. s \in Seq(c..e - 1) /\ ToSet(s) \subseteq c..e - 1 /\ c \in Int
  <2>1. n \in Nat /\ c \in 0..n /\ e \in c..n /\ c \in Int
    <3> HIDE DEF n, e
    <3> QED
      BY <1>1
  <2> HIDE DEF n, e
  <2>2. Span(c, e) \in Seq(c..e - 1) /\ ToSet(Span(c, e)) \subseteq c..e - 1
    BY <2>1, SpanFacts
  <2> QED
    BY <2>1, <2>2
<1>3. us \in Seq(P) /\ ToSet(us) = {p}
  <2> HIDE DEF p, P
  <2> QED
    BY <1>1 DEF ToSet
<1> HIDE DEF P, n, p, e, s, us
<1>4. CASE p.out = k
  <2>1. ToSet(us) \subseteq Mine(m, R, k) /\ ToSet(s) \subseteq Given(m, rs, k)
    <3>1. \A x \in c..e - 1 : x \in 0..n - 1
      BY <1>1
    <3> QED
      BY <1>1, <1>2, <1>3, <1>4, <3>1 DEF Mine, Given, P, n
  <2>2. Keep(us, Mine(m, R, k)) = us
    BY <1>3, <2>1, KeepFacts
  <2>3. Keep(s, Given(m, rs, k)) = s
    BY <1>2, <2>1, KeepFacts
  <2>4. RangesIn(us) = <<p.range>>
    BY <1>1, RangesInFacts DEF P, us
  <2>5. Expand(<<p.range>>) = InOrder(p.range)
    <3>1. p.range \in R
      BY <1>1 DEF P, Pieces
    <3>2. PICK r : r = p.range /\ r \in RangesOver(G, M)
      BY <3>1
    <3>3. << >> \in Seq(RangesOver(G, M)) /\ Append(<< >>, r) = <<r>>
      OBVIOUS
    <3>4. Expand(<<r>>) = Expand(<< >>) \o InOrder(r)
      BY <3>2, <3>3, ExpandAppend
    <3>5. Expand(<< >>) = << >>
      BY <3>3, ExpandByElement DEF ByElement
    <3>6. PICK o : o = InOrder(r) /\ o \in Seq(Tokens(G))
      BY <3>2, InOrderFacts
    <3>7. << >> \o o = o
      BY <3>6
    <3> QED
      BY <3>2, <3>4, <3>5, <3>6, <3>7
  <2> QED
    BY <1>1, <2>2, <2>3, <2>4, <2>5 DEF us, s, p, e
<1>5. CASE p.out # k
  <2>1. ToSet(us) \cap Mine(m, R, k) = {}
    BY <1>3, <1>5 DEF Mine
  <2>2. ToSet(s) \cap Given(m, rs, k) = {}
    <3> SUFFICES ASSUME NEW x \in c..e - 1, Gets(m, k, x) PROVE FALSE
      BY <1>2 DEF Given
    <3>1. Gets(m, p.out, x) /\ x \in Int
      BY <1>1
    <3> QED
      BY <1>5, <3>1, GetsOnce
  <2>3. Keep(us, Mine(m, R, k)) = << >>
    BY <1>3, <2>1, KeepFacts
  <2>4. Keep(s, Given(m, rs, k)) = << >>
    BY <1>2, <2>2, KeepFacts
  <2>5. RangesIn(<< >>) = << >> /\ TokensAt(rs, << >>) = << >>
    BY DEF RangesIn, TokensAt
  <2>6. Expand(<< >>) = << >>
    <3>1. << >> \in Seq(RangesOver(G, M))
      OBVIOUS
    <3> QED
      BY <3>1, ExpandByElement DEF ByElement
  <2> QED
    BY <2>3, <2>4, <2>5, <2>6 DEF us, s, p, e
<1> QED
  BY <1>4, <1>5

(* The slices of an output hold the tokens of its indices, in their order.  *)
LEMMA SweepFacts ==
  ASSUME NEW G, NEW M \in Nat, NEW rs \in Seq(RangesOver(G, M)), NEW m, DecodedMix(m), NEW k
  PROVE  /\ Sweep(m, rs) \in Seq(Pieces(m, RangesOver(G, M)))
         /\ Expand(RangesIn(Keep(Sweep(m, rs), Mine(m, RangesOver(G, M), k))))
            = TokensAt(rs, IndicesOf(m, rs, k))
<1> DEFINE P == Pieces(m, RangesOver(G, M))
           n == Total(rs)
           A == 0..n - 1
           T == Tokens(G)
           V == Mine(m, RangesOver(G, M), k)
           W == Given(m, rs, k)
           h == [s \in Seq(P) |-> Expand(RangesIn(Keep(s, V)))]
           g == [s \in Seq(A) |-> TokensAt(rs, Keep(s, W))]
<1>1. ByElement(h, P, T) /\ ByElement(g, A, T)
  BY PiecesByElement, IndicesByElement
<1>2. PICK sl : IsSweep(sl, m, rs) /\ Sweep(m, rs) = sl[0]
  BY SweepExists
<1>3. n \in Nat
  BY IndexStarts
<1>4. ASSUME NEW c \in 0..n, c # n
      PROVE  /\ EndAt(m, rs, c) \in c + 1..n /\ PieceAt(m, rs, c) \in P
             /\ h[<<PieceAt(m, rs, c)>>] = g[Span(c, EndAt(m, rs, c))]
  <2>1. c \in 0..Total(rs) - 1
    BY <1>3, <1>4
  <2>2. EndAt(m, rs, c) \in c + 1..n /\ PieceAt(m, rs, c) \in P
    BY <2>1, PieceFacts
  <2>3. Span(c, EndAt(m, rs, c)) \in Seq(A)
    <3>1. EndAt(m, rs, c) \in c..n
      <4> HIDE DEF n
      <4> QED
        BY <1>3, <2>2
    <3> HIDE DEF n
    <3> QED
      BY <1>3, <1>4, <3>1, SpanFacts
  <2>4. h[<<PieceAt(m, rs, c)>>] = Expand(RangesIn(Keep(<<PieceAt(m, rs, c)>>, V)))
    <3> HIDE DEF P, V
    <3> QED
      BY <2>2
  <2>5. g[Span(c, EndAt(m, rs, c))] = TokensAt(rs, Keep(Span(c, EndAt(m, rs, c)), W))
    <3> HIDE DEF A, W
    <3> QED
      BY <2>3
  <2>6. Expand(RangesIn(Keep(<<PieceAt(m, rs, c)>>, V)))
        = TokensAt(rs, Keep(Span(c, EndAt(m, rs, c)), W))
    BY <2>1, PieceOrNot
  <2> QED
    BY <2>2, <2>4, <2>5, <2>6
<1>5. \A c \in 0..n : sl[c] = IF c = n THEN << >> ELSE <<PieceAt(m, rs, c)>> \o sl[EndAt(m, rs, c)]
  BY <1>2 DEF IsSweep
<1> DEFINE Fine(c) == sl[c] \in Seq(P) /\ h[sl[c]] = g[Span(c, n)]
           K == {d \in 0..n : \A c \in n - d..n : Fine(c)}
<1> HIDE DEF h, g, P, n, A, T
<1>6. 0 \in K
  <2>1. sl[n] = << >> /\ << >> \in Seq(P)
    <3>1. n \in 0..n
      BY <1>3
    <3>2. sl[n] = << >>
      BY <1>5, <3>1
    <3> QED
      BY <3>2
  <2>2. Span(n, n) = << >>
    BY <1>3 DEF Span
  <2>3. Fine(n)
    BY <1>1, <2>1, <2>2 DEF ByElement
  <2>4. \A c \in n - 0..n : c = n
    BY <1>3
  <2> HIDE DEF Fine
  <2> QED
    BY <1>3, <2>3, <2>4
<1>7. ASSUME NEW d \in 0..n - 1, d \in K PROVE d + 1 \in K
  <2> DEFINE c == n - (d + 1)
             e == EndAt(m, rs, c)
             p == PieceAt(m, rs, c)
  <2>1. /\ c \in 0..n /\ c # n /\ d + 1 \in 0..n /\ d \in Nat
        /\ \A x \in n - (d + 1)..n : x # c => x \in n - d..n
        /\ \A x \in c + 1..n : x \in n - d..n
    BY <1>3
  <2> HIDE DEF c
  <2>2. e \in c + 1..n /\ p \in P /\ h[<<p>>] = g[Span(c, e)]
    BY <1>4, <2>1
  <2>3. Fine(e)
    BY <1>7, <2>1, <2>2
  <2> HIDE DEF e, p
  <2>4. sl[c] = <<p>> \o sl[e]
    BY <1>5, <2>1 DEF e, p
  <2>5. <<p>> \in Seq(P) /\ sl[e] \in Seq(P)
    BY <2>2, <2>3
  <2>6. sl[c] \in Seq(P)
    BY <2>4, <2>5
  <2>7. h[sl[c]] = h[<<p>>] \o h[sl[e]]
    <3>1. Splits(h, <<p>>, sl[e])
      BY <1>1, <2>5, OfConcat
    <3> QED
      BY <2>4, <3>1 DEF Splits
  <2>8. g[Span(c, n)] = g[Span(c, e)] \o g[Span(e, n)]
    <3>1. e \in c..n /\ c \in 0..n /\ e \in 0..n /\ n \in e..n
      BY <1>3, <2>1, <2>2
    <3>2. Span(c, e) \in Seq(A) /\ Span(e, n) \in Seq(A) /\ Span(c, n) = Span(c, e) \o Span(e, n)
      BY <1>3, <3>1, SpanFacts DEF A
    <3>3. Splits(g, Span(c, e), Span(e, n))
      BY <1>1, <3>2, OfConcat
    <3> QED
      BY <3>2, <3>3 DEF Splits
  <2>9. Fine(c)
    BY <2>2, <2>3, <2>6, <2>7, <2>8
  <2> HIDE DEF Fine
  <2>10. \A x \in n - d..n : Fine(x)
    BY <1>7
  <2> QED
    BY <2>1, <2>9, <2>10
<1>8. \A d \in 0..n : d \in K
  <2> HIDE DEF K
  <2> QED
    BY <1>3, <1>6, <1>7, IntervalInduction
<1>9. Fine(0)
  <2>1. n \in 0..n /\ 0 \in n - n..n
    BY <1>3
  <2>2. n \in K
    BY <1>8, <2>1
  <2> HIDE DEF Fine
  <2> QED
    BY <2>1, <2>2
<1>10. Span(0, n) \in Seq(A)
  <2>1. 0 \in 0..n /\ n \in 0..n
    BY <1>3
  <2> QED
    BY <1>3, <2>1, SpanFacts DEF A
<1>11. g[Span(0, n)] = TokensAt(rs, Keep(Span(0, n), W))
  BY <1>10 DEF g
<1>12. h[sl[0]] = Expand(RangesIn(Keep(sl[0], V)))
  BY <1>9 DEF h
<1> QED
  BY <1>2, <1>9, <1>11, <1>12 DEF IndicesOf, P, n

-----------------------------------------------------------------------------

(* The steps of Assigned over the pieces of the sweep.                      *)
AssignedOf(ps, k) ==
  FoldLeft(LAMBDA acc, s : IF s.out = k THEN PushSlice(acc, s.range) ELSE acc, << >>, ps)

AssignStep(ps, R, k) ==
  [p \in Seq(R) \X (1..Len(ps)) |->
     IF ps[p[2]].out = k THEN PushSlice(p[1], ps[p[2]].range) ELSE p[1]]

LEMMA AssignSteps ==
  ASSUME NEW G, NEW M \in Nat, NEW m, NEW ps \in Seq(Pieces(m, RangesOver(G, M))), NEW k
  PROVE  \E F : StepsOf(F, Len(ps), Seq(RangesOver(G, M)), << >>, AssignStep(ps, RangesOver(G, M), k),
                        AssignedOf(ps, k))
<1> DEFINE n == Len(ps)
           R == RangesOver(G, M)
           Solves(it) == it = [T \in SUBSET DOMAIN ps |-> IF T = {} THEN << >>
                                 ELSE IF ps[Max(T)].out = k
                                 THEN PushSlice(it[T \ {Max(T)}], ps[Max(T)].range)
                                 ELSE it[T \ {Max(T)}]]
           c == CHOOSE it : Solves(it)
<1>1. n \in Nat /\ DOMAIN ps = 1..n /\ \A i \in 1..n : ps[i] \in Pieces(m, R)
  OBVIOUS
<1>2. AssignedOf(ps, k) = c[1..n]
  BY <1>1 DEF AssignedOf, FoldLeft, MapThenFoldSet
<1>3. << >> \in Seq(R) /\ AssignStep(ps, R, k) \in [Seq(R) \X (1..n) -> Seq(R)]
  BY <1>1, PushSliceFacts DEF AssignStep, Pieces
<1>4. PICK it \in [SUBSET (1..n) -> Seq(R)] :
        IsFoldOf(it, n, << >>, AssignStep(ps, R, k)) /\ \A T \in SUBSET (1..n) : T # {} => Max(T) \in 1..n
  <2> HIDE DEF n, R
  <2> QED
    BY <1>1, <1>3, FoldExists
<1> HIDE DEF R
<1>5. Solves(it)
  BY <1>1, <1>4 DEF IsFoldOf, AssignStep
<1>6. Solves(c)
  <2> HIDE DEF Solves
  <2> QED
    BY <1>5
<1>7. FoldsBy(c, n, Seq(R), << >>, AssignStep(ps, R, k))
  <2> HIDE DEF c
  <2> QED
    BY <1>1, <1>4, <1>6 DEF FoldsBy, AssignStep
<1>8. \E F : StepsOf(F, n, Seq(R), << >>, AssignStep(ps, R, k), c[1..n])
  <2> HIDE DEF n, c
  <2> QED
    BY <1>1, <1>3, <1>7, FoldSteps
<1> HIDE DEF c
<1> QED
  BY <1>2, <1>8 DEF R

LEMMA AssignAppend ==
  ASSUME NEW G, NEW M \in Nat, NEW m, NEW s \in Seq(Pieces(m, RangesOver(G, M))),
         NEW x \in Pieces(m, RangesOver(G, M)), NEW k
  PROVE  AssignedOf(Append(s, x), k)
         = IF x.out = k THEN PushSlice(AssignedOf(s, k), x.range) ELSE AssignedOf(s, k)
<1> DEFINE t == Append(s, x)
           n == Len(s)
           R == RangesOver(G, M)
           A == Pieces(m, R)
<1>1. /\ t \in Seq(A) /\ s \in Seq(A) /\ Len(t) = n + 1 /\ t[n + 1] = x /\ n \in Nat
      /\ \A i \in 1..n : t[i] = s[i]
  OBVIOUS
<1> HIDE DEF t, n
<1>2. PICK F : StepsOf(F, n + 1, Seq(R), << >>, AssignStep(t, R, k), AssignedOf(t, k))
  BY <1>1, AssignSteps
<1>3. PICK E : StepsOf(E, n, Seq(R), << >>, AssignStep(s, R, k), AssignedOf(s, k))
  BY <1>1, AssignSteps DEF n
<1> HIDE DEF R, A
<1>4. SameSteps(AssignStep(t, R, k), AssignStep(s, R, k), Seq(R), n)
  <2> SUFFICES ASSUME NEW p \in Seq(R) \X (1..n) PROVE AssignStep(t, R, k)[p] = AssignStep(s, R, k)[p]
    BY DEF SameSteps
  <2>1. p[2] \in 1..n /\ p[2] \in 1..n + 1 /\ p[1] \in Seq(R)
    BY <1>1
  <2>2. AssignStep(t, R, k)[p] = IF t[p[2]].out = k THEN PushSlice(p[1], t[p[2]].range) ELSE p[1]
    BY <1>1, <2>1 DEF AssignStep
  <2>3. AssignStep(s, R, k)[p] = IF s[p[2]].out = k THEN PushSlice(p[1], s[p[2]].range) ELSE p[1]
    BY <2>1 DEF AssignStep, n
  <2> QED
    BY <1>1, <2>1, <2>2, <2>3
<1>5. AssignedOf(s, k) = F[n]
  <2>1. n + 1 \in Nat /\ n \in 0..n + 1
    BY <1>1
  <2> QED
    BY <1>2, <1>3, <1>4, <2>1, FoldPrefix
<1>6. F[n + 1] = AssignStep(t, R, k)[<<F[n], n + 1>>] /\ F[n + 1] = AssignedOf(t, k) /\ F[n] \in Seq(R)
  <2>1. n + 1 \in 1..n + 1 /\ (n + 1) - 1 = n /\ n \in 0..n + 1
    BY <1>1
  <2> QED
    BY <1>2, <2>1 DEF StepsOf
<1>7. AssignStep(t, R, k)[<<F[n], n + 1>>] = IF t[n + 1].out = k THEN PushSlice(F[n], t[n + 1].range) ELSE F[n]
  <2>1. <<F[n], n + 1>> \in Seq(R) \X (1..Len(t))
    BY <1>1, <1>6
  <2> QED
    BY <2>1 DEF AssignStep
<1> QED
  BY <1>1, <1>5, <1>6, <1>7 DEF t

LEMMA MergeAppend ==
  ASSUME NEW G, NEW M \in Nat, NEW s \in Seq(RangesOver(G, M)), NEW x \in RangesOver(G, M)
  PROVE  MergeOrdered(Append(s, x)) = PushSlice(MergeOrdered(s), x)
<1> DEFINE t == Append(s, x)
           n == Len(s)
           R == RangesOver(G, M)
<1>1. /\ t \in Seq(R) /\ Len(t) = n + 1 /\ t[n + 1] = x /\ n \in Nat
      /\ \A i \in 1..n : t[i] = s[i]
  OBVIOUS
<1> HIDE DEF t, n
<1>2. PICK F : StepsOf(F, n + 1, Seq(R), << >>, MergeStep(t, R), MergeOrdered(t))
  BY <1>1, MergeSteps
<1>3. PICK E : StepsOf(E, n, Seq(R), << >>, MergeStep(s, R), MergeOrdered(s))
  BY MergeSteps DEF n
<1> HIDE DEF R
<1>4. SameSteps(MergeStep(t, R), MergeStep(s, R), Seq(R), n)
  <2> SUFFICES ASSUME NEW p \in Seq(R) \X (1..n) PROVE MergeStep(t, R)[p] = MergeStep(s, R)[p]
    BY DEF SameSteps
  <2>1. p[2] \in 1..n /\ p[2] \in 1..n + 1 /\ p[1] \in Seq(R)
    BY <1>1
  <2>2. MergeStep(t, R)[p] = PushSlice(p[1], t[p[2]])
    BY <1>1, <2>1 DEF MergeStep
  <2>3. MergeStep(s, R)[p] = PushSlice(p[1], s[p[2]])
    BY <2>1 DEF MergeStep, n
  <2> QED
    BY <1>1, <2>1, <2>2, <2>3
<1>5. MergeOrdered(s) = F[n]
  <2>1. n + 1 \in Nat /\ n \in 0..n + 1
    BY <1>1
  <2> QED
    BY <1>2, <1>3, <1>4, <2>1, FoldPrefix
<1>6. F[n + 1] = MergeStep(t, R)[<<F[n], n + 1>>] /\ F[n + 1] = MergeOrdered(t) /\ F[n] \in Seq(R)
  <2>1. n + 1 \in 1..n + 1 /\ (n + 1) - 1 = n /\ n \in 0..n + 1
    BY <1>1
  <2> QED
    BY <1>2, <2>1 DEF StepsOf
<1>7. MergeStep(t, R)[<<F[n], n + 1>>] = PushSlice(F[n], t[n + 1])
  <2>1. <<F[n], n + 1>> \in Seq(R) \X (1..Len(t))
    BY <1>1, <1>6
  <2> QED
    BY <2>1 DEF MergeStep
<1> QED
  BY <1>1, <1>5, <1>6, <1>7 DEF t

(* An output is assigned its pieces, merged.                                *)
LEMMA AssignedIsMerged ==
  ASSUME NEW G, NEW M \in Nat, NEW m, NEW k, NEW ps \in Seq(Pieces(m, RangesOver(G, M)))
  PROVE  AssignedOf(ps, k) = MergeOrdered(RangesIn(Keep(ps, Mine(m, RangesOver(G, M), k))))
<1> DEFINE R == RangesOver(G, M)
           P == Pieces(m, R)
           S == Mine(m, R, k)
           K == {s \in Seq(P) : AssignedOf(s, k) = MergeOrdered(RangesIn(Keep(s, S)))}
<1>1. << >> \in K
  <2>1. << >> \in Seq(P) /\ << >> \in Seq(R) /\ Len(<< >>) = 0
    OBVIOUS
  <2>2. Keep(<< >>, S) = << >> /\ RangesIn(<< >>) = << >>
    <3>1. ToSet(<< >>) \cap S = {}
      BY DEF ToSet
    <3>2. Keep(<< >>, S) = << >>
      <4> HIDE DEF P, S
      <4> QED
        BY <2>1, <3>1, KeepFacts
    <3> QED
      BY <3>2 DEF RangesIn
  <2>3. AssignedOf(<< >>, k) = << >>
    <3>1. PICK F : StepsOf(F, Len(<< >>), Seq(R), << >>, AssignStep(<< >>, R, k), AssignedOf(<< >>, k))
      BY <2>1, AssignSteps
    <3> QED
      BY <2>1, <3>1 DEF StepsOf
  <2>4. MergeOrdered(<< >>) = << >>
    <3>1. PICK F : StepsOf(F, Len(<< >>), Seq(R), << >>, MergeStep(<< >>, R), MergeOrdered(<< >>))
      BY <2>1, MergeSteps
    <3> QED
      BY <2>1, <3>1 DEF StepsOf
  <2> QED
    BY <2>1, <2>2, <2>3, <2>4
<1>2. ASSUME NEW s \in Seq(P), NEW x \in P, s \in K PROVE Append(s, x) \in K
  <2> DEFINE q == Keep(s, S)
             t == Append(s, x)
  <2>1. t \in Seq(P)
    OBVIOUS
  <2>2. q \in Seq(P) /\ RangesIn(q) \in Seq(R) /\ x.range \in R
    <3>1. q \in Seq(P)
      <4> HIDE DEF P, S
      <4> QED
        BY KeepFacts
    <3> QED
      BY <3>1, RangesInFacts DEF Pieces
  <2>3. AssignedOf(t, k) = IF x.out = k THEN PushSlice(AssignedOf(s, k), x.range) ELSE AssignedOf(s, k)
    BY AssignAppend
  <2>4. Keep(t, S) = IF x \in S THEN Append(q, x) ELSE q
    <3> HIDE DEF P, S
    <3> QED
      BY KeepAppend
  <2>5. x \in S <=> x.out = k
    BY DEF Mine
  <2>6. RangesIn(Append(q, x)) = Append(RangesIn(q), x.range)
    <3> HIDE DEF q, P
    <3>1. Len(Append(q, x)) = Len(q) + 1 /\ Len(RangesIn(q)) = Len(q) /\ Len(q) \in Nat
      BY <2>2 DEF RangesIn
    <3>2. \A i \in 1..Len(q) + 1 : RangesIn(Append(q, x))[i] = Append(RangesIn(q), x.range)[i]
      BY <2>2, <3>1 DEF RangesIn
    <3> QED
      BY <2>2, <3>1, <3>2 DEF RangesIn
  <2>7. MergeOrdered(Append(RangesIn(q), x.range)) = PushSlice(MergeOrdered(RangesIn(q)), x.range)
    BY <2>2, MergeAppend
  <2>8. AssignedOf(s, k) = MergeOrdered(RangesIn(q))
    BY <1>2
  <2> HIDE DEF q, t, P, S
  <2>9. AssignedOf(t, k) = MergeOrdered(RangesIn(Keep(t, S)))
    BY <2>3, <2>4, <2>5, <2>6, <2>7, <2>8
  <2> QED
    BY <2>1, <2>9 DEF t
<1>3. \A s \in Seq(P) : s \in K
  <2> HIDE DEF K, P
  <2> QED
    BY <1>1, <1>2, SeqInduction
<1> QED
  BY <1>3

(* An output is assigned the tokens of its indices, in the order of the     *)
(* inputs: the sweep neither drops nor doubles a token where input segments *)
(* and index ranges meet.                                                   *)
THEOREM AssignedByIndex ==
  ASSUME NEW G, NEW M \in Nat, NEW rs \in Seq(RangesOver(G, M)), NEW m, DecodedMix(m), NEW k
  PROVE  /\ Assigned(m, rs, k) \in Seq(RangesOver(G, M))
         /\ Expand(Assigned(m, rs, k)) = TokensAt(rs, IndicesOf(m, rs, k))
<1> DEFINE R == RangesOver(G, M)
           P == Pieces(m, R)
           sl == Sweep(m, rs)
           ps == Keep(sl, Mine(m, R, k))
           us == RangesIn(ps)
<1>1. sl \in Seq(P) /\ Expand(us) = TokensAt(rs, IndicesOf(m, rs, k))
  BY SweepFacts
<1>2. ps \in Seq(P)
  <2> HIDE DEF P, sl
  <2> QED
    BY <1>1, KeepFacts
<1>3. us \in Seq(R)
  <2> HIDE DEF ps
  <2> QED
    BY <1>2, RangesInFacts
<1>4. Assigned(m, rs, k) = MergeOrdered(us)
  <2>1. Assigned(m, rs, k) = AssignedOf(sl, k)
    BY DEF Assigned, AssignedOf
  <2> HIDE DEF sl
  <2> QED
    BY <1>1, <2>1, AssignedIsMerged
<1> HIDE DEF sl, ps, us, P
<1>5. MergeOrdered(us) \in Seq(R) /\ Expand(MergeOrdered(us)) = Expand(us)
  BY <1>3, MergeFacts
<1> QED
  BY <1>1, <1>4, <1>5

-----------------------------------------------------------------------------
(* At most one position of s holds an element of P.                         *)
OnceIn(s, P) == \A i, j \in 1..Len(s) : s[i] \in P /\ s[j] \in P => i = j

Meets(s, P) == ToSet(s) \cap P # {}

LEMMA OnceConcat ==
  ASSUME NEW A, NEW s \in Seq(A), NEW t \in Seq(A), NEW P
  PROVE  OnceIn(s \o t, P) <=> OnceIn(s, P) /\ OnceIn(t, P) /\ ~(Meets(s, P) /\ Meets(t, P))
<1>1. PICK u \in Seq(A) : IsConcat(u, s, t)
  BY ConcatExists
<1> DEFINE a == Len(s)
           b == Len(t)
<1>2. /\ a \in Nat /\ b \in Nat /\ u = s \o t /\ Len(u) = a + b
      /\ \A k \in 1..a : u[k] = s[k]
      /\ \A k \in 1..b : u[a + k] = t[k]
  BY <1>1 DEF IsConcat
<1>3. Meets(s, P) <=> \E i \in 1..a : s[i] \in P
  BY DEF Meets, ToSet
<1>4. Meets(t, P) <=> \E i \in 1..b : t[i] \in P
  BY DEF Meets, ToSet
<1> HIDE DEF a, b
<1>5. ASSUME OnceIn(u, P)
      PROVE  OnceIn(s, P) /\ OnceIn(t, P) /\ ~(Meets(s, P) /\ Meets(t, P))
  <2>1. \A i, j \in 1..a + b : u[i] \in P /\ u[j] \in P => i = j
    BY <1>2, <1>5 DEF OnceIn
  <2>2. \A i \in 1..a : i \in 1..a + b
    BY <1>2
  <2>3. \A i \in 1..b : a + i \in 1..a + b /\ a + i \notin 1..a
    BY <1>2
  <2>4. OnceIn(s, P)
    BY <1>2, <2>1, <2>2 DEF OnceIn, a
  <2>5. ASSUME NEW i \in 1..b, NEW j \in 1..b, t[i] \in P, t[j] \in P PROVE i = j
    <3>1. a + i = a + j
      BY <1>2, <2>1, <2>3, <2>5
    <3> QED
      BY <1>2, <3>1
  <2>6. OnceIn(t, P)
    BY <2>5 DEF OnceIn, b
  <2>7. ASSUME NEW i \in 1..a, NEW j \in 1..b, s[i] \in P, t[j] \in P PROVE FALSE
    <3>1. u[i] \in P /\ u[a + j] \in P
      BY <1>2, <2>7
    <3>2. i = a + j
      BY <2>1, <2>2, <2>3, <3>1
    <3> QED
      BY <2>3, <3>2
  <2> QED
    BY <1>3, <1>4, <2>4, <2>6, <2>7
<1>6. ASSUME OnceIn(s, P), OnceIn(t, P), ~(Meets(s, P) /\ Meets(t, P)) PROVE OnceIn(u, P)
  <2>1. \A i, j \in 1..a : s[i] \in P /\ s[j] \in P => i = j
    BY <1>6 DEF OnceIn, a
  <2>2. \A i, j \in 1..b : t[i] \in P /\ t[j] \in P => i = j
    BY <1>6 DEF OnceIn, b
  <2>3. \A i \in 1..a, j \in 1..b : ~(s[i] \in P /\ t[j] \in P)
    BY <1>3, <1>4, <1>6
  <2>4. ASSUME NEW i \in 1..a + b, NEW j \in 1..a + b, u[i] \in P, u[j] \in P PROVE i = j
    <3>1. i \in 1..a \/ (i - a \in 1..b /\ i = a + (i - a))
      BY <1>2
    <3>2. j \in 1..a \/ (j - a \in 1..b /\ j = a + (j - a))
      BY <1>2
    <3>3. CASE i \in 1..a /\ j \in 1..a
      BY <1>2, <2>1, <2>4, <3>3
    <3>4. CASE i - a \in 1..b /\ j - a \in 1..b /\ i = a + (i - a) /\ j = a + (j - a)
      <4>1. t[i - a] \in P /\ t[j - a] \in P
        BY <1>2, <2>4, <3>4
      <4>2. i - a = j - a
        BY <2>2, <3>4, <4>1
      <4> QED
        BY <1>2, <3>4, <4>2
    <3>5. CASE i \in 1..a /\ j - a \in 1..b /\ j = a + (j - a)
      <4>1. s[i] \in P /\ t[j - a] \in P
        BY <1>2, <2>4, <3>5
      <4> QED
        BY <2>3, <3>5, <4>1
    <3>6. CASE i - a \in 1..b /\ i = a + (i - a) /\ j \in 1..a
      <4>1. t[i - a] \in P /\ s[j] \in P
        BY <1>2, <2>4, <3>6
      <4> QED
        BY <2>3, <3>6, <4>1
    <3> QED
      BY <3>1, <3>2, <3>3, <3>4, <3>5, <3>6
  <2> QED
    BY <1>2, <2>4 DEF OnceIn
<1> QED
  BY <1>2, <1>5, <1>6

(* In a flattened sequence: in one of the parts at most, and once there.    *)
OnceInParts(ss, P) ==
  /\ \A i \in 1..Len(ss) : OnceIn(ss[i], P)
  /\ \A i, j \in 1..Len(ss) : Meets(ss[i], P) /\ Meets(ss[j], P) => i = j

LEMMA OnceFlatten ==
  ASSUME NEW A, NEW P
  PROVE  \A ss \in Seq(Seq(A)) : OnceIn(FlattenSeq(ss), P) <=> OnceInParts(ss, P)
<1> DEFINE K == {ss \in Seq(Seq(A)) : OnceIn(FlattenSeq(ss), P) <=> OnceInParts(ss, P)}
<1>1. << >> \in K
  <2>1. << >> \in Seq(Seq(A))
    OBVIOUS
  <2>2. PICK f : f = FlattenSeq(<< >>)
    OBVIOUS
  <2>3. f \in Seq(A) /\ ToSet(f) = UNION {ToSet(<< >>[i]) : i \in 1..Len(<< >>)}
    BY <2>1, <2>2, FlattenFacts
  <2>4. ToSet(f) = {}
    BY <2>3
  <2>5. Len(f) = 0
    <3>1. DOMAIN f = {}
      BY <2>4 DEF ToSet
    <3>2. f = << >>
      BY <2>3, <3>1
    <3> QED
      BY <3>2
  <2> QED
    BY <2>1, <2>2, <2>5 DEF OnceIn, OnceInParts
<1>2. ASSUME NEW ss \in Seq(Seq(A)), NEW x \in Seq(A), ss \in K PROVE Append(ss, x) \in K
  <2> DEFINE n == Len(ss)
  <2>1. PICK us : us = Append(ss, x)
    OBVIOUS
  <2>2. /\ us \in Seq(Seq(A)) /\ Len(us) = n + 1 /\ us[n + 1] = x /\ n \in Nat
        /\ \A i \in 1..n : us[i] = ss[i]
    BY <2>1
  <2>3. PICK f : f = FlattenSeq(ss)
    OBVIOUS
  <2>4. f \in Seq(A) /\ ToSet(f) = UNION {ToSet(ss[i]) : i \in 1..n}
    BY <2>3, FlattenFacts
  <2>5. FlattenSeq(us) = f \o x
    BY <2>1, <2>3, FlattenAppend
  <2>6. OnceIn(f \o x, P) <=> OnceIn(f, P) /\ OnceIn(x, P) /\ ~(Meets(f, P) /\ Meets(x, P))
    BY <2>4, OnceConcat
  <2>7. OnceIn(f, P) <=> OnceInParts(ss, P)
    BY <1>2, <2>3
  <2>8. Meets(f, P) <=> \E i \in 1..n : Meets(ss[i], P)
    BY <2>4 DEF Meets
  <2> HIDE DEF n, K
  <2>9. \A i \in 1..n + 1 : i \in 1..n \/ i = n + 1
    BY <2>2
  <2>10. \A i \in 1..n : i \in 1..n + 1 /\ i # n + 1
    BY <2>2
  <2>11. n + 1 \in 1..n + 1
    BY <2>2
  <2>12. OnceInParts(us, P) <=>
           OnceInParts(ss, P) /\ OnceIn(x, P) /\ ~((\E i \in 1..n : Meets(ss[i], P)) /\ Meets(x, P))
    <3>1. OnceInParts(us, P) <=>
            /\ \A i \in 1..n + 1 : OnceIn(us[i], P)
            /\ \A i, j \in 1..n + 1 : Meets(us[i], P) /\ Meets(us[j], P) => i = j
      BY <2>2 DEF OnceInParts
    <3>2. OnceInParts(ss, P) <=>
            /\ \A i \in 1..n : OnceIn(us[i], P)
            /\ \A i, j \in 1..n : Meets(us[i], P) /\ Meets(us[j], P) => i = j
      BY <2>2 DEF OnceInParts, n
    <3>3. (\E i \in 1..n : Meets(ss[i], P)) <=> \E i \in 1..n : Meets(us[i], P)
      BY <2>2
    <3>4. us[n + 1] = x
      BY <2>2
    <3> QED
      BY <2>9, <2>10, <2>11, <3>1, <3>2, <3>3, <3>4
  <2>13. OnceIn(FlattenSeq(us), P) <=> OnceInParts(us, P)
    BY <2>5, <2>6, <2>7, <2>8, <2>12
  <2> QED
    BY <2>1, <2>2, <2>13 DEF K
<1> HIDE DEF K
<1>3. \A ss \in Seq(Seq(A)) : ss \in K
  BY <1>1, <1>2, SeqInduction
<1> QED
  BY <1>3 DEF K

(* A token is once in the order of the ranges iff one of them holds it.     *)
WithToken(G, M, t) == {r \in RangesOver(G, M) : t \in TokensOf(r)}

LEMMA OnceExpand ==
  ASSUME NEW G, NEW M \in Nat, NEW rs \in Seq(RangesOver(G, M)), NEW t
  PROVE  OnceIn(Expand(rs), {t}) <=> OnceIn(rs, WithToken(G, M, t))
<1> DEFINE n == Len(rs)
           ss == [i \in 1..n |-> InOrder(rs[i])]
<1>1. n \in Nat /\ \A i \in 1..n : rs[i] \in RangesOver(G, M)
  OBVIOUS
<1>2. \A i \in 1..n : InOrder(rs[i]) \in Seq(Tokens(G)) /\ ToSet(InOrder(rs[i])) = TokensOf(rs[i])
  BY <1>1, InOrderFacts
<1>3. \A i \in 1..n : OnceIn(InOrder(rs[i]), {t})
  <2> SUFFICES ASSUME NEW i \in 1..n PROVE OnceIn(InOrder(rs[i]), {t})
    OBVIOUS
  <2>1. PICK r : r = rs[i] /\ r \in RangesOver(G, M)
    BY <1>1
  <2>2. r.lo \in Nat /\ Count(r) \in Nat
    BY <2>1 DEF RangesOver, Count
  <2>3. PICK c : c = Count(r)
    OBVIOUS
  <2>4. PICK u : u = InOrder(r)
    OBVIOUS
  <2>5. u = [j \in 1..c |-> [group |-> r.group, slot |-> r.lo + j - 1]] /\ c \in Nat
    BY <2>2, <2>3, <2>4 DEF InOrder
  <2>6. Len(u) = c
    BY <2>5
  <2>7. \A j \in 1..c : u[j].slot = r.lo + j - 1
    BY <2>5
  <2>8. \A j, k \in 1..c : u[j] = u[k] => j = k
    BY <2>2, <2>5, <2>7
  <2> QED
    BY <2>1, <2>4, <2>6, <2>8 DEF OnceIn
<1>4. Expand(rs) = FlattenSeq(ss)
  BY DEF Expand, InOrder
<1>5. ss \in Seq(Seq(Tokens(G))) /\ Len(ss) = n
  BY <1>1, <1>2
<1>6. OnceIn(FlattenSeq(ss), {t}) <=> OnceInParts(ss, {t})
  <2> HIDE DEF ss
  <2> QED
    BY <1>5, OnceFlatten
<1>7. \A i \in 1..n : ss[i] = InOrder(rs[i])
  OBVIOUS
<1> HIDE DEF ss, n
<1>8. \A i \in 1..n : Meets(ss[i], {t}) <=> rs[i] \in WithToken(G, M, t)
  BY <1>1, <1>2, <1>7 DEF Meets, WithToken
<1>9. OnceInParts(ss, {t}) <=> \A i, j \in 1..n : Meets(ss[i], {t}) /\ Meets(ss[j], {t}) => i = j
  BY <1>3, <1>5, <1>7 DEF OnceInParts
<1> QED
  BY <1>4, <1>6, <1>8, <1>9 DEF OnceIn, n

(* No element twice.                                                        *)
Distinct(s) == \A i, j \in 1..Len(s) : s[i] = s[j] => i = j

LEMMA DistinctAppend ==
  ASSUME NEW A, NEW s \in Seq(A), NEW x \in A
  PROVE  Distinct(Append(s, x)) <=> Distinct(s) /\ x \notin ToSet(s)
<1>1. PICK u : u = Append(s, x)
  OBVIOUS
<1> DEFINE n == Len(s)
<1>2. n \in Nat /\ Len(u) = n + 1 /\ u[n + 1] = x /\ \A i \in 1..n : u[i] = s[i]
  BY <1>1
<1>3. x \in ToSet(s) <=> \E i \in 1..n : s[i] = x
  BY DEF ToSet
<1>4. Distinct(s) <=> \A i, j \in 1..n : u[i] = u[j] => i = j
  BY <1>2 DEF Distinct
<1> HIDE DEF n
<1>5. \A i \in 1..n + 1 : i \in 1..n \/ i = n + 1
  BY <1>2
<1>6. \A i \in 1..n : i \in 1..n + 1 /\ i # n + 1
  BY <1>2
<1>7. n + 1 \in 1..n + 1
  BY <1>2
<1>8. Distinct(u) <=> \A i, j \in 1..n + 1 : u[i] = u[j] => i = j
  BY <1>2 DEF Distinct
<1>9. x \in ToSet(s) <=> \E i \in 1..n : u[i] = u[n + 1]
  BY <1>2, <1>3
<1> QED
  BY <1>1, <1>4, <1>5, <1>6, <1>7, <1>8, <1>9

LEMMA KeepDistinct ==
  ASSUME NEW A, NEW S
  PROVE  \A s \in Seq(A) : Distinct(s) => Distinct(Keep(s, S))
<1> DEFINE K == {s \in Seq(A) : Distinct(s) => Distinct(Keep(s, S))}
<1>1. << >> \in K
  <2>1. << >> \in Seq(A) /\ ToSet(<< >>) = {}
    BY DEF ToSet
  <2>2. Keep(<< >>, S) = << >>
    BY <2>1, KeepFacts
  <2> QED
    BY <2>1, <2>2
<1>2. ASSUME NEW s \in Seq(A), NEW x \in A, s \in K PROVE Append(s, x) \in K
  <2>1. Append(s, x) \in Seq(A)
    OBVIOUS
  <2>2. Keep(Append(s, x), S) = IF x \in S THEN Append(Keep(s, S), x) ELSE Keep(s, S)
    BY KeepAppend
  <2>3. Keep(s, S) \in Seq(A) /\ ToSet(Keep(s, S)) \subseteq ToSet(s)
    BY KeepFacts
  <2>4. PICK k : k = Keep(s, S)
    OBVIOUS
  <2>5. Distinct(Append(s, x)) <=> Distinct(s) /\ x \notin ToSet(s)
    BY DistinctAppend
  <2>6. Distinct(Append(k, x)) <=> Distinct(k) /\ x \notin ToSet(k)
    BY <2>3, <2>4, DistinctAppend
  <2>7. Distinct(s) => Distinct(k)
    BY <1>2, <2>4
  <2> HIDE DEF K
  <2>8. Distinct(Append(s, x)) => Distinct(Keep(Append(s, x), S))
    BY <2>2, <2>3, <2>4, <2>5, <2>6, <2>7
  <2> QED
    BY <2>1, <2>8 DEF K
<1> HIDE DEF K
<1>3. \A s \in Seq(A) : s \in K
  BY <1>1, <1>2, SeqInduction
<1> QED
  BY <1>3 DEF K

-----------------------------------------------------------------------------
(* What a Mix does with a token: every token of the inputs is assigned to   *)
(* an output, and one that is there once to one output, once.               *)

LEMMA IndicesOfFacts ==
  ASSUME NEW G, NEW M \in Nat, NEW rs \in Seq(RangesOver(G, M)), NEW m, NEW k
  PROVE  /\ IndicesOf(m, rs, k) \in Seq(0..Total(rs) - 1)
         /\ ToSet(IndicesOf(m, rs, k)) = Given(m, rs, k)
         /\ Distinct(IndicesOf(m, rs, k))
         /\ Total(rs) \in Nat
<1>1. PICK n : n = Total(rs) /\ n \in Nat
  BY IndexStarts
<1>2. PICK s : s = Span(0, n)
  OBVIOUS
<1>3. s = [i \in 1..n - 0 |-> 0 + i - 1] /\ n - 0 = n
  BY <1>1, <1>2 DEF Span
<1>4. s \in Seq(0..n - 1) /\ Len(s) = n
  BY <1>1, <1>3
<1>5. Distinct(s)
  BY <1>1, <1>3, <1>4 DEF Distinct
<1>6. ToSet(s) = 0..n - 1
  <2>1. \A x \in 0..n - 1 : x + 1 \in 1..n /\ s[x + 1] = x
    BY <1>1, <1>3
  <2>2. DOMAIN s = 1..n /\ \A i \in 1..n : s[i] \in 0..n - 1
    BY <1>1, <1>4
  <2> QED
    BY <2>1, <2>2 DEF ToSet
<1>7. PICK q : q = Keep(s, Given(m, rs, k))
  OBVIOUS
<1>8. q \in Seq(0..n - 1) /\ ToSet(q) = ToSet(s) \cap Given(m, rs, k) /\ Distinct(q)
  BY <1>4, <1>5, <1>7, KeepFacts, KeepDistinct
<1>9. IndicesOf(m, rs, k) = q
  BY <1>1, <1>2, <1>7 DEF IndicesOf
<1>10. Given(m, rs, k) \subseteq 0..n - 1
  BY <1>1 DEF Given
<1> QED
  BY <1>1, <1>6, <1>8, <1>9, <1>10

LEMMA GivenToSome ==
  ASSUME NEW m, DecodedMix(m), NEW rs, NEW x \in 0..Total(rs) - 1
  PROVE  \E k \in 1..Len(m.outs) : x \in Given(m, rs, k)
<1> DEFINE holding == {e \in ExplicitRanges(m) : e.start <= x /\ x < e.end}
<1>1. m.complement \in 1..Len(m.outs)
  BY DEF DecodedMix, WellFormed
<1>2. CASE holding = {}
  BY <1>1, <1>2 DEF Given, Gets
<1>3. CASE holding # {}
  <2>1. PICK e \in holding : TRUE
    BY <1>3
  <2>2. e.out \in 1..Len(m.outs) /\ e.out # m.complement
    BY <2>1 DEF ExplicitRanges, Explicit
  <2> QED
    BY <2>1, <2>2 DEF Given, Gets
<1> QED
  BY <1>2, <1>3

(* The token t goes to one output at most, once.                            *)
AssignsOnce(m, rs, t) ==
  /\ \A k \in 1..Len(m.outs) : OnceIn(Expand(Assigned(m, rs, k)), {t})
  /\ \A j, k \in 1..Len(m.outs) :
       t \in ToSet(Expand(Assigned(m, rs, j))) /\ t \in ToSet(Expand(Assigned(m, rs, k))) => j = k

(* A Mix assigns the tokens of its inputs and no other, and one that the    *)
(* inputs hold once to a single range of a single output.                   *)
THEOREM MixKeepsTokens ==
  ASSUME NEW G, NEW M \in Nat, NEW rs \in Seq(RangesOver(G, M)), NEW m, DecodedMix(m)
  PROVE  /\ UNION {ToSet(Expand(Assigned(m, rs, k))) : k \in 1..Len(m.outs)} = ToSet(Expand(rs))
         /\ \A t : OnceIn(Expand(rs), {t}) => AssignsOnce(m, rs, t)
<1> DEFINE e == Expand(rs)
           n == Total(rs)
           a(k) == Expand(Assigned(m, rs, k))
           idx(k) == IndicesOf(m, rs, k)
<1>1. n \in Nat /\ Len(e) = n /\ e \in Seq(Tokens(G))
  <2>1. n \in Nat /\ e \in Seq(Tokens(G))
    BY IndexStarts, ExpandFacts
  <2> QED
    BY <2>1, ExpandLength
<1>2. ToSet(e) = {e[x + 1] : x \in 0..n - 1}
  <2>1. DOMAIN e = 1..n
    BY <1>1
  <2>2. \A i \in 1..n : i - 1 \in 0..n - 1 /\ (i - 1) + 1 = i
    BY <1>1
  <2>3. \A x \in 0..n - 1 : x + 1 \in 1..n
    BY <1>1
  <2> HIDE DEF e, n
  <2> QED
    BY <2>1, <2>2, <2>3 DEF ToSet
<1>3. ASSUME NEW k
      PROVE  /\ idx(k) \in Seq(0..n - 1) /\ ToSet(idx(k)) = Given(m, rs, k) /\ Distinct(idx(k))
             /\ Len(a(k)) = Len(idx(k)) /\ \A i \in 1..Len(idx(k)) : a(k)[i] = e[idx(k)[i] + 1]
  <2>1. a(k) = TokensAt(rs, idx(k))
    BY AssignedByIndex
  <2>2. idx(k) \in Seq(0..n - 1) /\ ToSet(idx(k)) = Given(m, rs, k) /\ Distinct(idx(k))
    BY IndicesOfFacts
  <2>3. PICK q : q = idx(k)
    OBVIOUS
  <2> HIDE DEF idx, a, e
  <2>4. a(k) = [i \in 1..Len(q) |-> e[q[i] + 1]] /\ Len(q) \in Nat
    BY <2>1, <2>2, <2>3 DEF TokensAt, e
  <2>5. Len(a(k)) = Len(q) /\ \A i \in 1..Len(q) : a(k)[i] = e[q[i] + 1]
    BY <2>4
  <2> QED
    BY <2>2, <2>3, <2>5
<1> HIDE DEF e, n, a, idx
<1>4. ASSUME NEW k PROVE ToSet(a(k)) = {e[x + 1] : x \in Given(m, rs, k)}
  <2>1. PICK q : q = idx(k)
    OBVIOUS
  <2>2. PICK u : u = a(k)
    OBVIOUS
  <2>3. /\ q \in Seq(0..n - 1) /\ ToSet(q) = Given(m, rs, k) /\ Len(u) = Len(q)
        /\ \A i \in 1..Len(q) : u[i] = e[q[i] + 1]
    BY <1>3, <2>1, <2>2
  <2>4. DOMAIN q = 1..Len(q)
    BY <2>3
  <2>5. u \in Seq(Tokens(G))
    <3>1. Assigned(m, rs, k) \in Seq(RangesOver(G, M))
      BY AssignedByIndex
    <3> QED
      BY <2>2, <3>1, ExpandFacts DEF a
  <2>6. DOMAIN u = 1..Len(q)
    BY <2>3, <2>5
  <2>7. ToSet(u) = {u[i] : i \in 1..Len(q)}
    BY <2>6 DEF ToSet
  <2>8. ToSet(q) = {q[i] : i \in 1..Len(q)}
    BY <2>4 DEF ToSet
  <2>9. {u[i] : i \in 1..Len(q)} = {e[x + 1] : x \in {q[i] : i \in 1..Len(q)}}
    BY <2>3
  <2> QED
    BY <2>2, <2>3, <2>7, <2>8, <2>9
<1>5. UNION {ToSet(a(k)) : k \in 1..Len(m.outs)} = ToSet(e)
  <2>1. \A k : Given(m, rs, k) \subseteq 0..n - 1
    BY DEF Given, n
  <2>2. \A x \in 0..n - 1 : \E k \in 1..Len(m.outs) : x \in Given(m, rs, k)
    BY GivenToSome DEF n
  <2> QED
    BY <1>2, <1>4, <2>1, <2>2
<1>6. ASSUME NEW t, OnceIn(e, {t}), NEW j, NEW k, t \in ToSet(a(j)), t \in ToSet(a(k)) PROVE j = k
  <2>1. PICK x \in Given(m, rs, j) : e[x + 1] = t
    BY <1>4, <1>6
  <2>2. PICK y \in Given(m, rs, k) : e[y + 1] = t
    BY <1>4, <1>6
  <2>3. /\ x \in 0..n - 1 /\ y \in 0..n - 1
        /\ Gets(m, j, x) /\ Gets(m, k, y)
    BY <2>1, <2>2 DEF Given, n
  <2>4. x + 1 \in 1..Len(e) /\ y + 1 \in 1..Len(e)
    BY <1>1, <2>3
  <2>5. x + 1 = y + 1
    BY <1>6, <2>1, <2>2, <2>4 DEF OnceIn
  <2>6. x = y /\ x \in Int
    BY <2>3, <2>5
  <2> QED
    BY <2>3, <2>6, GetsOnce
<1>7. ASSUME NEW t, OnceIn(e, {t}), NEW k PROVE OnceIn(a(k), {t})
  <2>1. PICK q : q = idx(k)
    OBVIOUS
  <2>2. PICK u : u = a(k)
    OBVIOUS
  <2>3. /\ q \in Seq(0..n - 1) /\ Distinct(q) /\ Len(u) = Len(q)
        /\ \A i \in 1..Len(q) : u[i] = e[q[i] + 1]
    BY <1>3, <2>1, <2>2
  <2>4. ASSUME NEW i \in 1..Len(q), NEW j \in 1..Len(q), u[i] = t, u[j] = t PROVE i = j
    <3>1. q[i] \in 0..n - 1 /\ q[j] \in 0..n - 1
      BY <2>3, ElementOfSeq
    <3>2. q[i] + 1 \in 1..Len(e) /\ q[j] + 1 \in 1..Len(e)
      BY <1>1, <3>1
    <3>3. e[q[i] + 1] = t /\ e[q[j] + 1] = t
      BY <2>3, <2>4
    <3>4. q[i] + 1 = q[j] + 1
      BY <1>7, <3>2, <3>3 DEF OnceIn
    <3>5. q[i] = q[j]
      BY <3>1, <3>4
    <3> QED
      BY <2>3, <3>5 DEF Distinct
  <2> QED
    BY <2>2, <2>3, <2>4 DEF OnceIn
<1>8. \A t : OnceIn(e, {t}) => AssignsOnce(m, rs, t)
  BY <1>6, <1>7 DEF AssignsOnce, a
<1> QED
  BY <1>5, <1>8 DEF a, e

LEMMA NamedIndices ==
  ASSUME NEW m, DecodedMix(m), NEW n, NEW k \in Explicit(m)
  PROVE  /\ \A e \in ExplicitRanges(m) : e.out = k => e.start..e.end - 1 \subseteq IndicesFor(m, n, k)
         /\ \A x \in IndicesFor(m, n, k) : \E e \in ExplicitRanges(m) :
              e.out = k /\ e.start <= x /\ x < e.end /\ x \in Int
<1> DEFINE os == m.outs[k]
           entry(i) == [start |-> os[i].start, end |-> os[i].end, out |-> k, at |-> i]
<1>1. k \in 1..Len(m.outs) /\ k # m.complement /\ os \in Seq([start : Nat, end : Nat])
  BY DEF Explicit, DecodedMix
<1>2. IndicesFor(m, n, k) = UNION {r.start..r.end - 1 : r \in ToSet(os)}
  BY <1>1 DEF IndicesFor
<1>3. \A i \in 1..Len(os) : entry(i) \in ExplicitRanges(m) /\ os[i] \in ToSet(os)
  BY <1>1 DEF ExplicitRanges, ToSet
<1>4. \A e \in ExplicitRanges(m) : e.out = k => \E i \in 1..Len(os) : e = entry(i)
  BY DEF ExplicitRanges
<1>5. \A r \in ToSet(os) : \E i \in 1..Len(os) : r = os[i]
  BY <1>1 DEF ToSet
<1>6. \A i : (entry(i)).start = os[i].start /\ (entry(i)).end = os[i].end /\ (entry(i)).out = k
  OBVIOUS
<1>7. \A e \in ExplicitRanges(m) : e.start \in Nat /\ e.end \in Nat
  BY ExplicitRangesType
<1> HIDE DEF os, entry
<1>8. ASSUME NEW e \in ExplicitRanges(m), e.out = k PROVE e.start..e.end - 1 \subseteq IndicesFor(m, n, k)
  <2>1. PICK i \in 1..Len(os) : e = entry(i)
    BY <1>4, <1>8
  <2> QED
    BY <1>2, <1>3, <1>6, <2>1
<1>9. ASSUME NEW x \in IndicesFor(m, n, k)
      PROVE  \E e \in ExplicitRanges(m) : e.out = k /\ e.start <= x /\ x < e.end /\ x \in Int
  <2>1. PICK r \in ToSet(os) : x \in r.start..r.end - 1
    BY <1>2
  <2>2. PICK i \in 1..Len(os) : r = os[i]
    BY <1>5
  <2>3. entry(i) \in ExplicitRanges(m) /\ (entry(i)).start = r.start /\ (entry(i)).end = r.end /\ (entry(i)).out = k
    BY <1>3, <1>6, <2>2
  <2>4. r.start \in Nat /\ r.end \in Nat
    BY <1>7, <2>3
  <2>5. x \in Int /\ r.start <= x /\ x < r.end
    BY <2>1, <2>4
  <2> QED
    BY <2>3, <2>5
<1> QED
  BY <1>8, <1>9

LEMMA IndicesForAre ==
  ASSUME NEW m, DecodedMix(m), NEW n \in Nat, NEW k \in 1..Len(m.outs)
  PROVE  IndicesFor(m, n, k) \cap 0..n - 1 = {x \in 0..n - 1 : Gets(m, k, x)}
<1> DEFINE named == UNION {IndicesFor(m, n, j) : j \in Explicit(m)}
<1>1. \A e \in ExplicitRanges(m) : /\ e.start \in Nat /\ e.end \in Nat /\ e.out \in Explicit(m)
  BY ExplicitRangesType DEF Explicit
<1>2. CASE k # m.complement
  <2>1. k \in Explicit(m)
    BY <1>2 DEF Explicit
  <2>2. ASSUME NEW x \in 0..n - 1
        PROVE  x \in IndicesFor(m, n, k) <=> \E e \in ExplicitRanges(m) : e.start <= x /\ x < e.end /\ e.out = k
    <3>1. ASSUME NEW e \in ExplicitRanges(m), e.start <= x, x < e.end, e.out = k PROVE x \in IndicesFor(m, n, k)
      <4>1. x \in e.start..e.end - 1
        BY <1>1, <3>1
      <4> QED
        BY <2>1, <3>1, <4>1, NamedIndices
    <3>2. ASSUME x \in IndicesFor(m, n, k)
          PROVE  \E e \in ExplicitRanges(m) : e.start <= x /\ x < e.end /\ e.out = k
      BY <2>1, <3>2, NamedIndices
    <3> QED
      BY <3>1, <3>2
  <2> QED
    BY <1>2, <2>2 DEF Gets
<1>3. CASE k = m.complement
  <2>1. IndicesFor(m, n, k) = 0..n - 1 \ named
    BY <1>3 DEF IndicesFor, Explicit
  <2>2. ASSUME NEW x \in 0..n - 1
        PROVE  x \in named <=> \E e \in ExplicitRanges(m) : e.start <= x /\ x < e.end
    <3>1. ASSUME NEW e \in ExplicitRanges(m), e.start <= x, x < e.end PROVE x \in named
      <4>1. x \in e.start..e.end - 1 /\ e.out \in Explicit(m)
        BY <1>1, <3>1
      <4>2. x \in IndicesFor(m, n, e.out)
        BY <3>1, <4>1, NamedIndices
      <4> QED
        BY <4>1, <4>2
    <3>2. ASSUME x \in named PROVE \E e \in ExplicitRanges(m) : e.start <= x /\ x < e.end
      <4>1. PICK j \in Explicit(m) : x \in IndicesFor(m, n, j)
        BY <3>2
      <4> QED
        BY <4>1, NamedIndices
    <3> QED
      BY <3>1, <3>2
  <2> HIDE DEF named
  <2> QED
    BY <1>3, <2>1, <2>2 DEF Gets
<1> QED
  BY <1>2, <1>3

(* Whatever a decoded Mix names and whatever its inputs carry, it is        *)
(* applied exactly when every index exists, and each output is given the    *)
(* tokens of its indices in the order of the inputs (parser/mix.rs).        *)
THEOREM MixGivesByIndex ==
  ASSUME NEW G, NEW M \in Nat, NEW rs \in Seq(RangesOver(G, M)), NEW m, DecodedMix(m)
  PROVE  GivesIndices(m, rs)
<1> DEFINE n == Total(rs)
           all == [i \in 1..n |-> i - 1]
           named == UNION {IndicesFor(m, n, k) : k \in Explicit(m)}
<1>1. n \in Nat
  BY IndexStarts
<1>2. \A e \in ExplicitRanges(m) : /\ e.start \in Nat /\ e.end \in Nat /\ e.start < e.end /\ e.out \in Explicit(m)
  BY ExplicitRangesType DEF Explicit
<1> HIDE DEF n
<1>3. CountSuffices(m, n) <=> named \subseteq 0..n - 1
  <2>1. ASSUME CountSuffices(m, n), NEW x \in named PROVE x \in 0..n - 1
    <3>1. PICK k \in Explicit(m) : x \in IndicesFor(m, n, k)
      BY <2>1
    <3>2. PICK e \in ExplicitRanges(m) : e.start <= x /\ x < e.end /\ x \in Int
      BY <3>1, NamedIndices
    <3>3. e.end <= n
      BY <2>1 DEF CountSuffices
    <3> QED
      BY <1>1, <1>2, <3>2, <3>3
  <2>2. ASSUME named \subseteq 0..n - 1, NEW e \in ExplicitRanges(m) PROVE e.end <= n
    <3>1. e.end - 1 \in e.start..e.end - 1
      BY <1>2
    <3>2. e.end - 1 \in IndicesFor(m, n, e.out)
      BY <1>2, <3>1, NamedIndices
    <3>3. e.end - 1 \in 0..n - 1
      BY <1>2, <2>2, <3>2
    <3> QED
      BY <1>1, <1>2, <3>3
  <2> QED
    BY <2>1, <2>2 DEF CountSuffices
<1>4. ASSUME NEW k \in 1..Len(m.outs) PROVE Expand(Assigned(m, rs, k)) = ByIndex(m, rs, k)
  <2>1. Expand(Assigned(m, rs, k)) = TokensAt(rs, IndicesOf(m, rs, k))
    BY AssignedByIndex
  <2>2. Span(0, n) = all /\ all \in Seq(0..n - 1)
    BY <1>1 DEF Span
  <2>3. Given(m, rs, k) = {x \in 0..n - 1 : Gets(m, k, x)}
    BY DEF Given, n
  <2> HIDE DEF all
  <2>4. \A i \in ToSet(all) : i \in 0..n - 1
    <3>1. 0 \in 0..n /\ n \in 0..n
      BY <1>1
    <3>2. ToSet(Span(0, n)) \subseteq 0..n - 1
      BY <1>1, <3>1, SpanFacts
    <3> QED
      BY <2>2, <3>2
  <2>5. ToSet(all) \cap IndicesFor(m, n, k) = ToSet(all) \cap Given(m, rs, k)
    <3>1. IndicesFor(m, n, k) \cap 0..n - 1 = Given(m, rs, k)
      BY <1>1, <2>3, IndicesForAre
    <3> QED
      BY <2>4, <3>1
  <2>6. Keep(all, IndicesFor(m, n, k)) = Keep(all, Given(m, rs, k))
    BY <2>2, <2>5, KeepSame
  <2>7. IndicesOf(m, rs, k) = Keep(all, IndicesFor(m, n, k))
    BY <2>2, <2>6 DEF IndicesOf, n
  <2> QED
    BY <2>1, <2>7 DEF TokensAt, ByIndex, all, n
<1> QED
  BY <1>3, <1>4 DEF GivesIndices, n, CountSuffices
=============================================================================
