---------------------------- MODULE LedgerProofs ----------------------------
(***************************************************************************)
(* The ownership tables, for every chain of transactions.                   *)
(*                                                                          *)
(* What parse_tx does to the tables is a sequence of gifts: an output of    *)
(* the transaction gets a row for every group of some ranges, and ranges.   *)
(* Both save operations are ON CONFLICT DO NOTHING, so what a gift adds is  *)
(* a union; everything else follows from which gifts a transaction makes.   *)
(* The last part says it of one transaction on any tables, for Wallet.      *)
(***************************************************************************)
EXTENDS Ledger, MixProofs

AllGroups == [coll : Nat, base : Scripts \cup {OpReturn}]
AllRanges == RangesOver(AllGroups, MaxSlot)
Outpoints == [height : Nat, vout : Nat]
RowTypes == [out : Outpoints, group : AllGroups, owner : Scripts \cup {OpReturn, NoOwner},
         created : Nat, spent : BOOLEAN]

(* ranges has its (outpoint, range) unique.                                 *)
RangeTables ==
  {f \in UNION {[D -> Seq(AllRanges)] : D \in SUBSET Outpoints} :
     \A o \in DOMAIN f : Distinct(f[o])}

Dbs == [utxos : SUBSET RowTypes, ranges : RangeTables]

LEMMA RangesAtType ==
  ASSUME NEW d \in Dbs, NEW o
  PROVE  RangesAt(d, o) \in Seq(AllRanges) /\ Distinct(RangesAt(d, o))
<1>1. CASE o \in DOMAIN d.ranges
  <2>1. d.ranges \in RangeTables
    BY DEF Dbs
  <2> QED
    BY <1>1, <2>1 DEF RangesAt, RangeTables
<1>2. CASE o \notin DOMAIN d.ranges
  BY <1>2 DEF RangesAt, Distinct
<1> QED
  BY <1>1, <1>2

-----------------------------------------------------------------------------

(* e is d with the ranges S added to output o.                              *)
Adds(d, e, o, S) ==
  /\ e \in Dbs
  /\ e.utxos = d.utxos
  /\ DOMAIN e.ranges \subseteq DOMAIN d.ranges \cup {o}
  /\ \A p \in Outpoints : p # o => RangesAt(e, p) = RangesAt(d, p)
  /\ ToSet(RangesAt(e, o)) = ToSet(RangesAt(d, o)) \cup S

LEMMA SaveRangeFacts ==
  ASSUME NEW d \in Dbs, NEW o \in Outpoints, NEW r \in AllRanges
  PROVE  Adds(d, SaveRange(d, o, r), o, {r})
<1> DEFINE e == SaveRange(d, o, r)
           f == d.ranges
           s == RangesAt(d, o)
           g == [p \in DOMAIN f \cup {o} |-> IF p = o THEN Append(s, r) ELSE f[p]]
<1>1. s \in Seq(AllRanges) /\ Distinct(s)
  BY RangesAtType
<1>2. f \in RangeTables /\ d = [utxos |-> d.utxos, ranges |-> f] /\ d.utxos \in SUBSET RowTypes
  BY DEF Dbs
<1> HIDE DEF s, f
<1>3. CASE r \in ToSet(s)
  <2>1. e = d
    BY <1>3 DEF SaveRange, s
  <2>2. ToSet(s) = ToSet(s) \cup {r}
    BY <1>3
  <2> QED
    BY <2>1, <2>2 DEF Adds, s
<1>4. CASE r \notin ToSet(s)
  <2>1. e = [utxos |-> d.utxos, ranges |-> g]
    BY <1>2, <1>4 DEF SaveRange, s, f
  <2>2. Append(s, r) \in Seq(AllRanges) /\ ToSet(Append(s, r)) = ToSet(s) \cup {r}
    BY <1>1, AppendToSet
  <2>3. Distinct(Append(s, r))
    <3>1. /\ Len(s) \in Nat /\ Len(Append(s, r)) = Len(s) + 1
          /\ Append(s, r)[Len(s) + 1] = r
          /\ \A i \in 1..Len(s) : Append(s, r)[i] = s[i] /\ s[i] # r
      BY <1>1, <1>4 DEF ToSet
    <3>2. PICK u : u = Append(s, r)
      OBVIOUS
    <3>3. ASSUME NEW i \in 1..Len(s) + 1, NEW j \in 1..Len(s) + 1, u[i] = u[j] PROVE i = j
      <4>1. i \in 1..Len(s) \/ i = Len(s) + 1
        BY <3>1
      <4>2. j \in 1..Len(s) \/ j = Len(s) + 1
        BY <3>1
      <4> QED
        BY <1>1, <3>1, <3>2, <3>3, <4>1, <4>2 DEF Distinct
    <3> QED
      BY <3>1, <3>2, <3>3 DEF Distinct
  <2>4. PICK D \in SUBSET Outpoints : f \in [D -> Seq(AllRanges)]
    BY <1>2 DEF RangeTables
  <2>5. \A p \in DOMAIN f : Distinct(f[p])
    BY <1>2 DEF RangeTables
  <2>6. D \cup {o} \in SUBSET Outpoints /\ DOMAIN f = D /\ DOMAIN g = D \cup {o}
    BY <2>4
  <2>7. g \in [D \cup {o} -> Seq(AllRanges)]
    <3> HIDE DEF g
    <3>1. \A p \in D : p # o => f[p] \in Seq(AllRanges)
      BY <2>4
    <3> QED
      BY <2>2, <2>6, <3>1 DEF g
  <2>8. \A p \in DOMAIN g : Distinct(g[p])
    <3> SUFFICES ASSUME NEW p \in DOMAIN f \cup {o} PROVE Distinct(g[p])
      OBVIOUS
    <3>1. CASE p = o
      BY <2>3, <3>1
    <3>2. CASE p # o
      BY <2>5, <3>2
    <3> QED
      BY <3>1, <3>2
  <2>9. g \in RangeTables
    <3> HIDE DEF g
    <3> QED
      BY <2>6, <2>7, <2>8 DEF RangeTables
  <2>10. RangesAt(e, o) = Append(s, r)
    BY <2>1 DEF RangesAt
  <2>11. ASSUME NEW p \in Outpoints, p # o PROVE RangesAt(e, p) = RangesAt(d, p)
    <3>1. p \in DOMAIN g <=> p \in DOMAIN f
      BY <2>11
    <3>2. p \in DOMAIN f => g[p] = f[p]
      BY <2>11
    <3> HIDE DEF g, e
    <3> QED
      BY <2>1, <3>1, <3>2 DEF RangesAt, f
  <2>12. e \in Dbs
    <3> HIDE DEF g, e
    <3> QED
      BY <1>2, <2>1, <2>9 DEF Dbs
  <2>13. e.utxos = d.utxos /\ DOMAIN e.ranges \subseteq DOMAIN d.ranges \cup {o}
    BY <2>1 DEF f
  <2>14. Adds(d, e, o, {r})
    <3> HIDE DEF e, g
    <3> QED
      BY <2>2, <2>10, <2>11, <2>12, <2>13 DEF Adds, s
  <2> QED
    BY <2>14
<1> QED
  BY <1>3, <1>4

SaveRangesStep(o, rs) == [p \in Dbs \X (1..Len(rs)) |-> SaveRange(p[1], o, rs[p[2]])]

LEMMA SaveRangesSteps ==
  ASSUME NEW d \in Dbs, NEW o \in Outpoints, NEW rs \in Seq(AllRanges)
  PROVE  \E F : StepsOf(F, Len(rs), Dbs, d, SaveRangesStep(o, rs), SaveRanges(d, o, rs))
<1> DEFINE n == Len(rs)
           Solves(it) == it = [T \in SUBSET DOMAIN rs |-> IF T = {} THEN d
                                 ELSE SaveRange(it[T \ {Max(T)}], o, rs[Max(T)])]
           c == CHOOSE it : Solves(it)
<1>1. n \in Nat /\ DOMAIN rs = 1..n /\ \A i \in 1..n : rs[i] \in AllRanges
  OBVIOUS
<1>2. SaveRanges(d, o, rs) = c[1..n]
  BY <1>1 DEF SaveRanges, FoldLeft, MapThenFoldSet
<1>3. d \in Dbs /\ SaveRangesStep(o, rs) \in [Dbs \X (1..n) -> Dbs]
  BY <1>1, SaveRangeFacts DEF SaveRangesStep, Adds
<1>4. PICK it \in [SUBSET (1..n) -> Dbs] :
        IsFoldOf(it, n, d, SaveRangesStep(o, rs)) /\ \A T \in SUBSET (1..n) : T # {} => Max(T) \in 1..n
  <2> HIDE DEF n
  <2> QED
    BY <1>1, <1>3, FoldExists
<1>5. Solves(it)
  BY <1>1, <1>4 DEF IsFoldOf, SaveRangesStep
<1>6. Solves(c)
  <2> HIDE DEF Solves
  <2> QED
    BY <1>5
<1>7. FoldsBy(c, n, Dbs, d, SaveRangesStep(o, rs))
  <2> HIDE DEF c
  <2> QED
    BY <1>1, <1>4, <1>6 DEF FoldsBy, SaveRangesStep
<1>8. \E F : StepsOf(F, n, Dbs, d, SaveRangesStep(o, rs), c[1..n])
  <2> HIDE DEF n, c
  <2> QED
    BY <1>1, <1>3, <1>7, FoldSteps
<1> HIDE DEF c
<1> QED
  BY <1>2, <1>8

LEMMA SaveRangesFacts ==
  ASSUME NEW d \in Dbs, NEW o \in Outpoints, NEW rs \in Seq(AllRanges)
  PROVE  Adds(d, SaveRanges(d, o, rs), o, ToSet(rs))
<1> DEFINE n == Len(rs)
           Upto(k) == {rs[i] : i \in 1..k}
<1>1. n \in Nat /\ DOMAIN rs = 1..n /\ \A i \in 1..n : rs[i] \in AllRanges
  OBVIOUS
<1>2. PICK F : StepsOf(F, n, Dbs, d, SaveRangesStep(o, rs), SaveRanges(d, o, rs))
  BY SaveRangesSteps
<1>3. F \in [0..n -> Dbs] /\ F[0] = d /\ F[n] = SaveRanges(d, o, rs)
  BY <1>2 DEF StepsOf
<1>4. ASSUME NEW k \in 0..n - 1
      PROVE  F[k + 1] = SaveRange(F[k], o, rs[k + 1]) /\ F[k] \in Dbs
  <2>1. k + 1 \in 1..n /\ k \in 0..n /\ (k + 1) - 1 = k
    BY <1>1
  <2>2. F[k + 1] = SaveRangesStep(o, rs)[<<F[k], k + 1>>] /\ F[k] \in Dbs
    BY <1>2, <1>3, <2>1 DEF StepsOf
  <2> QED
    BY <2>1, <2>2 DEF SaveRangesStep
<1>5. ToSet(rs) = Upto(n)
  BY <1>1 DEF ToSet
<1> HIDE DEF n
<1> DEFINE K == {k \in 0..n : Adds(d, F[k], o, Upto(k))}
<1>6. 0 \in K
  <2>1. Upto(0) = {} /\ 0 \in 0..n
    BY <1>1
  <2> QED
    BY <1>3, <2>1 DEF Adds
<1>7. ASSUME NEW k \in 0..n - 1, k \in K PROVE k + 1 \in K
  <2>1. k + 1 \in 1..n /\ k + 1 \in 0..n /\ k \in Nat
    BY <1>1
  <2>2. Upto(k + 1) = Upto(k) \cup {rs[k + 1]}
    BY <2>1
  <2>3. Adds(F[k], F[k + 1], o, {rs[k + 1]})
    BY <1>1, <1>4, <2>1, SaveRangeFacts
  <2>4. Adds(d, F[k], o, Upto(k))
    BY <1>7
  <2> HIDE DEF Upto
  <2>5. Adds(d, F[k + 1], o, Upto(k + 1))
    BY <2>2, <2>3, <2>4 DEF Adds
  <2> QED
    BY <2>1, <2>5
<1>8. \A k \in 0..n : k \in K
  <2> HIDE DEF K
  <2> QED
    BY <1>1, <1>6, <1>7, IntervalInduction
<1>9. n \in 0..n
  BY <1>1
<1>10. Adds(d, F[n], o, Upto(n))
  BY <1>8, <1>9
<1> QED
  BY <1>3, <1>5, <1>10

-----------------------------------------------------------------------------
(* The transaction tx of block h.                                           *)

(* The owner an output is saved with, and its row for a group.              *)
OwnerOf(tx, o) ==
  IF o.vout = 0 /\ ScriptAt(tx, 0) = OpReturn THEN NoOwner ELSE ScriptAt(tx, o.vout)

NewRow(tx, h, o, g) ==
  [out |-> o, group |-> g, owner |-> OwnerOf(tx, o), created |-> h, spent |-> FALSE]

(* Tables whose rows for outputs of tx were saved for tx.                   *)
TxDbs(tx, h) ==
  {d \in Dbs : \A u \in d.utxos : u.out \in OutsOf(h, tx) => u = NewRow(tx, h, u.out, u.group)}

(* A transaction as it may come in the next block.                          *)
TxTypes ==
  [ins : Seq(Outpoints), outs : Seq(Scripts \cup {OpReturn}) \ {<< >>}, msg : Messages]

LEMMA OutsOfFacts ==
  ASSUME NEW h \in Nat, NEW tx \in TxTypes, NEW o \in OutsOf(h, tx)
  PROVE  /\ o \in Outpoints /\ o.height = h /\ o.vout \in 0..Len(tx.outs) - 1
         /\ ScriptAt(tx, o.vout) \in Scripts \cup {OpReturn}
         /\ OwnerOf(tx, o) \in Scripts \cup {OpReturn, NoOwner}
<1>1. PICK s : s = tx.outs /\ s \in Seq(Scripts \cup {OpReturn}) /\ s # << >>
  BY DEF TxTypes
<1>2. PICK v \in 0..Len(s) - 1 : o = [height |-> h, vout |-> v]
  BY <1>1 DEF OutsOf, Out
<1>3. v \in Nat /\ v + 1 \in 1..Len(s) /\ 1 \in 1..Len(s)
  BY <1>1
<1>4. s[v + 1] \in Scripts \cup {OpReturn}
  BY <1>1, <1>3
<1>5. o \in Outpoints /\ o.height = h /\ o.vout = v
  BY <1>2, <1>3 DEF Outpoints
<1> QED
  BY <1>1, <1>2, <1>4, <1>5 DEF OwnerOf, ScriptAt

LEMMA SaveUtxoFacts ==
  ASSUME NEW h \in Nat, NEW tx \in TxTypes, NEW o \in OutsOf(h, tx), NEW g \in AllGroups,
         NEW d \in TxDbs(tx, h)
  PROVE  /\ SaveUtxo(d, o, g, OwnerOf(tx, o), h) \in TxDbs(tx, h)
         /\ SaveUtxo(d, o, g, OwnerOf(tx, o), h).utxos = d.utxos \cup {NewRow(tx, h, o, g)}
         /\ SaveUtxo(d, o, g, OwnerOf(tx, o), h).ranges = d.ranges
<1> DEFINE e == SaveUtxo(d, o, g, OwnerOf(tx, o), h)
           r == NewRow(tx, h, o, g)
<1>1. d = [utxos |-> d.utxos, ranges |-> d.ranges] /\ d.utxos \in SUBSET RowTypes /\ d.ranges \in RangeTables
  BY DEF TxDbs, Dbs
<1>2. r \in RowTypes /\ r.out = o /\ r.group = g
  BY OutsOfFacts DEF NewRow, RowTypes
<1>3. \A u \in d.utxos : u.out \in OutsOf(h, tx) => u = NewRow(tx, h, u.out, u.group)
  BY DEF TxDbs
<1>4. CASE \E u \in d.utxos : u.out = o /\ u.group = g
  <2>1. e = d
    BY <1>4 DEF SaveUtxo
  <2>2. r \in d.utxos
    BY <1>3, <1>4
  <2> HIDE DEF e
  <2> QED
    BY <2>1, <2>2 DEF e
<1>5. CASE ~ \E u \in d.utxos : u.out = o /\ u.group = g
  <2>1. e = [utxos |-> d.utxos \cup {r}, ranges |-> d.ranges]
    BY <1>1, <1>5 DEF SaveUtxo, NewRow
  <2> HIDE DEF e
  <2>2. e.utxos = d.utxos \cup {r} /\ e.ranges = d.ranges
    BY <2>1
  <2> HIDE DEF r
  <2>3. e \in Dbs
    BY <1>1, <1>2, <2>1 DEF Dbs
  <2>4. \A u \in e.utxos : u.out \in OutsOf(h, tx) => u = NewRow(tx, h, u.out, u.group)
    BY <1>2, <1>3, <2>2 DEF r
  <2> QED
    BY <2>2, <2>3, <2>4 DEF TxDbs, e, r
<1> QED
  BY <1>4, <1>5

(* e is d with the rows of output o for the groups S added.                 *)
AddsRows(d, e, tx, h, o, S) ==
  /\ e \in TxDbs(tx, h)
  /\ e.utxos = d.utxos \cup {NewRow(tx, h, o, g) : g \in S}
  /\ e.ranges = d.ranges

SaveUtxosStep(tx, h, o, rs) ==
  [p \in TxDbs(tx, h) \X (1..Len(rs)) |-> SaveUtxo(p[1], o, rs[p[2]].group, OwnerOf(tx, o), h)]

LEMMA SaveUtxosSteps ==
  ASSUME NEW h \in Nat, NEW tx \in TxTypes, NEW o \in OutsOf(h, tx), NEW d \in TxDbs(tx, h),
         NEW rs \in Seq(AllRanges)
  PROVE  \E F : StepsOf(F, Len(rs), TxDbs(tx, h), d, SaveUtxosStep(tx, h, o, rs),
                        SaveUtxos(d, o, rs, OwnerOf(tx, o), h))
<1> DEFINE n == Len(rs)
           Solves(it) == it = [T \in SUBSET DOMAIN rs |-> IF T = {} THEN d
                                 ELSE SaveUtxo(it[T \ {Max(T)}], o, rs[Max(T)].group, OwnerOf(tx, o), h)]
           c == CHOOSE it : Solves(it)
<1>1. n \in Nat /\ DOMAIN rs = 1..n /\ \A i \in 1..n : rs[i] \in AllRanges
  OBVIOUS
<1>2. SaveUtxos(d, o, rs, OwnerOf(tx, o), h) = c[1..n]
  BY <1>1 DEF SaveUtxos, FoldLeft, MapThenFoldSet
<1>3. d \in TxDbs(tx, h) /\ SaveUtxosStep(tx, h, o, rs) \in [TxDbs(tx, h) \X (1..n) -> TxDbs(tx, h)]
  <2>1. \A i \in 1..n : rs[i].group \in AllGroups
    BY <1>1 DEF AllRanges, RangesOver
  <2> QED
    BY <2>1, SaveUtxoFacts DEF SaveUtxosStep
<1>4. PICK it \in [SUBSET (1..n) -> TxDbs(tx, h)] :
        IsFoldOf(it, n, d, SaveUtxosStep(tx, h, o, rs)) /\ \A T \in SUBSET (1..n) : T # {} => Max(T) \in 1..n
  <2> HIDE DEF n
  <2> QED
    BY <1>1, <1>3, FoldExists
<1>5. Solves(it)
  BY <1>1, <1>4 DEF IsFoldOf, SaveUtxosStep
<1>6. Solves(c)
  <2> HIDE DEF Solves
  <2> QED
    BY <1>5
<1>7. FoldsBy(c, n, TxDbs(tx, h), d, SaveUtxosStep(tx, h, o, rs))
  <2> HIDE DEF c
  <2> QED
    BY <1>1, <1>4, <1>6 DEF FoldsBy, SaveUtxosStep
<1>8. \E F : StepsOf(F, n, TxDbs(tx, h), d, SaveUtxosStep(tx, h, o, rs), c[1..n])
  <2> HIDE DEF n, c
  <2> QED
    BY <1>1, <1>3, <1>7, FoldSteps
<1> HIDE DEF c
<1> QED
  BY <1>2, <1>8

LEMMA SaveUtxosFacts ==
  ASSUME NEW h \in Nat, NEW tx \in TxTypes, NEW o \in OutsOf(h, tx), NEW d \in TxDbs(tx, h),
         NEW rs \in Seq(AllRanges)
  PROVE  AddsRows(d, SaveUtxos(d, o, rs, OwnerOf(tx, o), h), tx, h, o, GroupsIn(rs))
<1> DEFINE n == Len(rs)
           D == TxDbs(tx, h)
           Upto(k) == {rs[i].group : i \in 1..k}
<1>1. n \in Nat /\ DOMAIN rs = 1..n /\ \A i \in 1..n : rs[i].group \in AllGroups
  <2>1. n \in Nat /\ DOMAIN rs = 1..n /\ \A i \in 1..n : rs[i] \in AllRanges
    OBVIOUS
  <2> QED
    BY <2>1 DEF AllRanges, RangesOver
<1>2. PICK F : StepsOf(F, n, D, d, SaveUtxosStep(tx, h, o, rs), SaveUtxos(d, o, rs, OwnerOf(tx, o), h))
  BY SaveUtxosSteps
<1> HIDE DEF D
<1>3. F \in [0..n -> D] /\ F[0] = d /\ F[n] = SaveUtxos(d, o, rs, OwnerOf(tx, o), h)
  BY <1>2 DEF StepsOf
<1>4. ASSUME NEW k \in 0..n - 1
      PROVE  F[k + 1] = SaveUtxo(F[k], o, rs[k + 1].group, OwnerOf(tx, o), h) /\ F[k] \in D
  <2>1. k + 1 \in 1..n /\ k \in 0..n /\ (k + 1) - 1 = k
    BY <1>1
  <2>2. F[k + 1] = SaveUtxosStep(tx, h, o, rs)[<<F[k], k + 1>>] /\ F[k] \in D
    BY <1>2, <1>3, <2>1 DEF StepsOf
  <2> QED
    BY <2>1, <2>2 DEF SaveUtxosStep, D
<1>5. GroupsIn(rs) = Upto(n)
  BY <1>1 DEF ToSet, GroupsIn
<1> HIDE DEF n
<1> DEFINE K == {k \in 0..n : AddsRows(d, F[k], tx, h, o, Upto(k))}
<1>6. 0 \in K
  <2>1. Upto(0) = {} /\ 0 \in 0..n
    BY <1>1
  <2> HIDE DEF Upto
  <2> QED
    BY <1>3, <2>1 DEF AddsRows
<1>7. ASSUME NEW k \in 0..n - 1, k \in K PROVE k + 1 \in K
  <2>1. k + 1 \in 1..n /\ k + 1 \in 0..n /\ k \in Nat
    BY <1>1
  <2>2. Upto(k + 1) = Upto(k) \cup {rs[k + 1].group}
    BY <2>1
  <2>3. /\ F[k + 1] \in TxDbs(tx, h) /\ F[k + 1].ranges = F[k].ranges
        /\ F[k + 1].utxos = F[k].utxos \cup {NewRow(tx, h, o, rs[k + 1].group)}
    BY <1>1, <1>4, <2>1, SaveUtxoFacts DEF D
  <2>4. AddsRows(d, F[k], tx, h, o, Upto(k))
    BY <1>7
  <2> HIDE DEF Upto
  <2>5. AddsRows(d, F[k + 1], tx, h, o, Upto(k + 1))
    BY <2>2, <2>3, <2>4 DEF AddsRows
  <2> QED
    BY <2>1, <2>5
<1>8. \A k \in 0..n : k \in K
  <2> HIDE DEF K
  <2> QED
    BY <1>1, <1>6, <1>7, IntervalInduction
<1>9. n \in 0..n
  BY <1>1
<1>10. AddsRows(d, F[n], tx, h, o, Upto(n))
  BY <1>8, <1>9
<1> QED
  BY <1>3, <1>5, <1>10

-----------------------------------------------------------------------------
(* A gift: an output of the transaction, ranges whose groups get a row and  *)
(* the ranges it is given.                                                  *)
Gifts(tx, h) ==
  {f \in [out : OutsOf(h, tx), rows : Seq(AllRanges), ranges : Seq(AllRanges)] :
     GroupsIn(f.rows) = GroupsIn(f.ranges)}

Give(d, f, tx, h) ==
  SaveRanges(SaveUtxos(d, f.out, f.rows, OwnerOf(tx, f.out), h), f.out, f.ranges)

GiftStep(gs, tx, h) ==
  [p \in TxDbs(tx, h) \X (1..Len(gs)) |-> Give(p[1], gs[p[2]], tx, h)]

NewRows(f, tx, h) == {NewRow(tx, h, f.out, g) : g \in GroupsIn(f.ranges)}

(* e is d after the gift f, after the first k gifts.                        *)
GivesOne(d, e, f, tx, h) ==
  /\ e \in TxDbs(tx, h)
  /\ e.utxos = d.utxos \cup NewRows(f, tx, h)
  /\ DOMAIN e.ranges \subseteq DOMAIN d.ranges \cup {f.out}
  /\ \A o \in Outpoints : o # f.out => RangesAt(e, o) = RangesAt(d, o)
  /\ ToSet(RangesAt(e, f.out)) = ToSet(RangesAt(d, f.out)) \cup ToSet(f.ranges)

Gives(d, e, gs, k, tx, h) ==
  /\ e \in TxDbs(tx, h)
  /\ e.utxos = d.utxos \cup UNION {NewRows(gs[i], tx, h) : i \in 1..k}
  /\ DOMAIN e.ranges \subseteq DOMAIN d.ranges \cup OutsOf(h, tx)
  /\ \A o \in Outpoints \ OutsOf(h, tx) : RangesAt(e, o) = RangesAt(d, o)
  /\ \A o \in OutsOf(h, tx) :
       ToSet(RangesAt(e, o)) = ToSet(RangesAt(d, o))
                               \cup UNION {ToSet(gs[i].ranges) : i \in {i \in 1..k : gs[i].out = o}}

LEMMA GiveFacts ==
  ASSUME NEW h \in Nat, NEW tx \in TxTypes, NEW d \in TxDbs(tx, h), NEW f \in Gifts(tx, h)
  PROVE  GivesOne(d, Give(d, f, tx, h), f, tx, h)
<1> DEFINE e == SaveUtxos(d, f.out, f.rows, OwnerOf(tx, f.out), h)
           v == Give(d, f, tx, h)
<1>1. /\ f.out \in OutsOf(h, tx) /\ f.rows \in Seq(AllRanges) /\ f.ranges \in Seq(AllRanges)
      /\ GroupsIn(f.rows) = GroupsIn(f.ranges) /\ f.out \in Outpoints
  BY OutsOfFacts DEF Gifts
<1>2. AddsRows(d, e, tx, h, f.out, GroupsIn(f.ranges))
  BY <1>1, SaveUtxosFacts
<1>3. v = SaveRanges(e, f.out, f.ranges)
  BY DEF Give
<1> HIDE DEF e, v
<1>4. e \in Dbs /\ e \in TxDbs(tx, h)
  BY <1>2 DEF AddsRows, TxDbs
<1>5. Adds(e, v, f.out, ToSet(f.ranges))
  BY <1>1, <1>3, <1>4, SaveRangesFacts
<1>6. v \in TxDbs(tx, h)
  BY <1>4, <1>5 DEF Adds, TxDbs
<1>7. \A o : RangesAt(e, o) = RangesAt(d, o)
  BY <1>2 DEF AddsRows, RangesAt
<1> QED
  BY <1>2, <1>5, <1>6, <1>7 DEF AddsRows, Adds, GivesOne, NewRows, v

LEMMA GiftsFacts ==
  ASSUME NEW h \in Nat, NEW tx \in TxTypes, NEW d \in TxDbs(tx, h), NEW gs \in Seq(Gifts(tx, h)),
         NEW F, NEW v, StepsOf(F, Len(gs), TxDbs(tx, h), d, GiftStep(gs, tx, h), v)
  PROVE  Gives(d, v, gs, Len(gs), tx, h)
<1> DEFINE n == Len(gs)
           D == TxDbs(tx, h)
<1>1. n \in Nat /\ \A i \in 1..n : gs[i] \in Gifts(tx, h)
  OBVIOUS
<1>2. StepsOf(F, n, D, d, GiftStep(gs, tx, h), v)
  OBVIOUS
<1> HIDE DEF D
<1>3. F \in [0..n -> D] /\ F[0] = d /\ F[n] = v
  BY <1>2 DEF StepsOf
<1>4. ASSUME NEW k \in 0..n - 1
      PROVE  F[k + 1] = Give(F[k], gs[k + 1], tx, h) /\ F[k] \in D
  <2>1. k + 1 \in 1..n /\ k \in 0..n /\ (k + 1) - 1 = k
    BY <1>1
  <2>2. F[k + 1] = GiftStep(gs, tx, h)[<<F[k], k + 1>>] /\ F[k] \in D
    BY <1>2, <1>3, <2>1 DEF StepsOf
  <2> QED
    BY <2>1, <2>2 DEF GiftStep, D
<1> HIDE DEF n
<1> DEFINE K == {k \in 0..n : Gives(d, F[k], gs, k, tx, h)}
<1>5. 0 \in K
  <2>1. 1..0 = {} /\ 0 \in 0..n
    BY <1>1
  <2> QED
    BY <1>3, <2>1 DEF Gives
<1>6. ASSUME NEW k \in 0..n - 1, k \in K PROVE k + 1 \in K
  <2> DEFINE f == gs[k + 1]
  <2>1. k + 1 \in 1..n /\ k + 1 \in 0..n /\ k \in Nat /\ 1..(k + 1) = (1..k) \cup {k + 1}
    BY <1>1
  <2>2. f \in Gifts(tx, h) /\ f.out \in OutsOf(h, tx)
    BY <1>1, <2>1 DEF Gifts
  <2>3. GivesOne(F[k], F[k + 1], f, tx, h)
    <3>1. F[k] \in TxDbs(tx, h) /\ F[k + 1] = Give(F[k], f, tx, h)
      BY <1>4 DEF D
    <3> HIDE DEF f
    <3> QED
      BY <2>2, <3>1, GiveFacts
  <2>4. Gives(d, F[k], gs, k, tx, h)
    BY <1>6
  <2>5. UNION {NewRows(gs[i], tx, h) : i \in 1..(k + 1)}
        = (UNION {NewRows(gs[i], tx, h) : i \in 1..k}) \cup NewRows(f, tx, h)
    BY <2>1
  <2>6. ASSUME NEW o \in OutsOf(h, tx)
        PROVE  ToSet(RangesAt(F[k + 1], o)) = ToSet(RangesAt(d, o))
                 \cup UNION {ToSet(gs[i].ranges) : i \in {i \in 1..(k + 1) : gs[i].out = o}}
    <3>1. o \in Outpoints
      BY OutsOfFacts
    <3>2. ToSet(RangesAt(F[k], o)) = ToSet(RangesAt(d, o))
            \cup UNION {ToSet(gs[i].ranges) : i \in {i \in 1..k : gs[i].out = o}}
      BY <2>4 DEF Gives
    <3>3. CASE o = f.out
      <4>1. {i \in 1..(k + 1) : gs[i].out = o} = {i \in 1..k : gs[i].out = o} \cup {k + 1}
        BY <2>1, <3>3
      <4> QED
        BY <2>3, <3>2, <3>3, <4>1 DEF GivesOne
    <3>4. CASE o # f.out
      <4>1. {i \in 1..(k + 1) : gs[i].out = o} = {i \in 1..k : gs[i].out = o}
        BY <2>1, <3>4
      <4> QED
        BY <2>3, <3>1, <3>2, <3>4, <4>1 DEF GivesOne
    <3> QED
      BY <3>3, <3>4
  <2>7. \A o \in Outpoints \ OutsOf(h, tx) : RangesAt(F[k + 1], o) = RangesAt(d, o)
    BY <2>2, <2>3, <2>4 DEF Gives, GivesOne
  <2>8. DOMAIN F[k + 1].ranges \subseteq DOMAIN d.ranges \cup OutsOf(h, tx)
    BY <2>2, <2>3, <2>4 DEF Gives, GivesOne
  <2>9. F[k + 1].utxos = d.utxos \cup UNION {NewRows(gs[i], tx, h) : i \in 1..(k + 1)}
    <3>1. F[k].utxos = d.utxos \cup UNION {NewRows(gs[i], tx, h) : i \in 1..k}
      BY <2>4 DEF Gives
    <3> HIDE DEF f
    <3> QED
      BY <2>3, <2>5, <3>1 DEF GivesOne
  <2>10. Gives(d, F[k + 1], gs, k + 1, tx, h)
    BY <2>3, <2>6, <2>7, <2>8, <2>9 DEF Gives, GivesOne
  <2> QED
    BY <2>1, <2>10
<1>7. \A k \in 0..n : k \in K
  <2> HIDE DEF K
  <2> QED
    BY <1>1, <1>5, <1>6, IntervalInduction
<1>8. n \in 0..n
  BY <1>1
<1> QED
  BY <1>3, <1>7, <1>8 DEF n

-----------------------------------------------------------------------------
(* What the inputs carry.                                                   *)

LEMMA UnspentRangesType ==
  ASSUME NEW d \in Dbs, NEW o
  PROVE  /\ UnspentRanges(d, o) \in Seq(AllRanges)
         /\ ToSet(UnspentRanges(d, o)) = {r \in ToSet(RangesAt(d, o)) : r.group \in UnspentGroups(d, o)}
<1> DEFINE rs == RangesAt(d, o)
           S == {r \in ToSet(rs) : r.group \in UnspentGroups(d, o)}
<1>1. rs \in Seq(AllRanges)
  BY RangesAtType
<1>2. UnspentRanges(d, o) = Keep(rs, S)
  BY DEF UnspentRanges
<1>3. ToSet(rs) \cap S = S
  OBVIOUS
<1> HIDE DEF rs, S
<1>4. Keep(rs, S) \in Seq(AllRanges) /\ ToSet(Keep(rs, S)) = ToSet(rs) \cap S
  BY <1>1, KeepFacts
<1>5. UnspentRanges(d, o) \in Seq(AllRanges) /\ ToSet(UnspentRanges(d, o)) = S
  BY <1>2, <1>3, <1>4
<1> QED
  BY <1>5 DEF S, rs

LEMMA TokenInputsFacts ==
  ASSUME NEW d \in Dbs, NEW tx \in TxTypes
  PROVE  /\ TokenInputs(d, tx) \in Seq(Outpoints)
         /\ ToSet(TokenInputs(d, tx)) = {o \in ToSet(tx.ins) : UnspentRanges(d, o) # << >>}
         /\ InputRanges(d, tx) \in Seq(AllRanges)
<1> DEFINE S == {o \in ToSet(tx.ins) : UnspentRanges(d, o) # << >>}
           ins == TokenInputs(d, tx)
           ss == [i \in 1..Len(ins) |-> UnspentRanges(d, ins[i])]
<1>1. tx.ins \in Seq(Outpoints) /\ ToSet(tx.ins) \cap S = S /\ ins = Keep(tx.ins, S)
  BY DEF TxTypes, TokenInputs
<1> HIDE DEF S
<1>2. ins \in Seq(Outpoints) /\ ToSet(ins) = S
  <2> HIDE DEF ins
  <2> QED
    BY <1>1, KeepFacts
<1> HIDE DEF ins
<1>3. ss \in Seq(Seq(AllRanges))
  BY <1>2, UnspentRangesType
<1>4. InputRanges(d, tx) = FlattenSeq(ss)
  BY DEF InputRanges, ins
<1>5. FlattenSeq(ss) \in Seq(AllRanges)
  <2> HIDE DEF ss
  <2> QED
    BY <1>3, FlattenFacts
<1> QED
  BY <1>2, <1>4, <1>5 DEF ins, S

SlotRangesOf == {r \in [lo : 0..MaxSlot, hi : 0..MaxSlot] : r.lo <= r.hi}

LEMMA MessageFacts ==
  ASSUME NEW tx \in TxTypes
  PROVE  /\ Message(tx).cmd = "mix" => DecodedMix(Message(tx))
         /\ Message(tx).cmd = "ownership" =>
              Message(tx).coll \in Nat /\ Message(tx).groups \in Seq(Seq(SlotRangesOf))
<1> DEFINE m == Message(tx)
<1>1. tx.msg \in Messages
  BY DEF TxTypes
<1>2. m = NoMessage \/ (m = tx.msg /\ (m.cmd = "mix" => WellFormed(m)))
  BY DEF Message
<1>3. NoMessage.cmd = "none"
  BY DEF NoMessage
<1>4. tx.msg.cmd = "mix" => tx.msg.outs \in Seq(Seq([start : Nat, end : Nat]))
  BY <1>1 DEF Messages
<1>5. tx.msg.cmd = "ownership" => tx.msg.coll \in Nat /\ tx.msg.groups \in Seq(Seq(SlotRangesOf))
  BY <1>1 DEF Messages, SlotRangesOf
<1> HIDE DEF m
<1> QED
  BY <1>2, <1>3, <1>4, <1>5 DEF DecodedMix, m

LEMMA OutIsOf ==
  ASSUME NEW h, NEW tx \in TxTypes, NEW v \in Nat, v < Len(tx.outs)
  PROVE  Out(h, v) \in OutsOf(h, tx) /\ Out(h, v).vout = v /\ Out(h, v).height = h
<1>1. Len(tx.outs) \in Nat
  <2>1. PICK s : s = tx.outs /\ s \in Seq(Scripts \cup {OpReturn})
    BY DEF TxTypes
  <2> QED
    BY <2>1
<1>2. v \in 0..Len(tx.outs) - 1
  BY <1>1
<1> QED
  BY <1>2 DEF OutsOf, Out

-----------------------------------------------------------------------------
(* The gifts of a Mix.                                                      *)

MixGifts(d, tx, h) ==
  [k \in 1..Len(Message(tx).outs) |->
    [out |-> Out(h, k), rows |-> Assigned(Message(tx), InputRanges(d, tx), k),
     ranges |-> Assigned(Message(tx), InputRanges(d, tx), k)]]

LEMMA MixGiftsType ==
  ASSUME NEW h \in Nat, NEW tx \in TxTypes, NEW d \in Dbs, Message(tx).cmd = "mix", MixAccepted(d, tx)
  PROVE  /\ MixGifts(d, tx, h) \in Seq(Gifts(tx, h))
         /\ Len(Message(tx).outs) \in Nat /\ Len(MixGifts(d, tx, h)) = Len(Message(tx).outs)
         /\ \A k \in 1..Len(Message(tx).outs) :
              OwnerOf(tx, Out(h, k)) = ScriptAt(tx, k) /\ Out(h, k) \in OutsOf(h, tx)
<1> DEFINE n == Len(Message(tx).outs)
<1>1. DecodedMix(Message(tx))
  BY MessageFacts
<1>2. n \in Nat
  <2>1. PICK s : s = Message(tx).outs /\ s \in Seq(Seq([start : Nat, end : Nat]))
    BY <1>1 DEF DecodedMix
  <2> QED
    BY <2>1
<1>3. Len(tx.outs) >= n + 1 /\ Len(tx.outs) \in Nat
  <2>1. PICK s : s = tx.outs /\ s \in Seq(Scripts \cup {OpReturn})
    BY DEF TxTypes
  <2>2. Len(s) \in Nat
    BY <2>1
  <2> QED
    BY <2>1, <2>2 DEF MixAccepted
<1> HIDE DEF n
<1>4. \A k \in 1..n : k \in Nat /\ k < Len(tx.outs) /\ k # 0
  BY <1>2, <1>3
<1>5. \A k \in 1..n : Assigned(Message(tx), InputRanges(d, tx), k) \in Seq(AllRanges)
  <2>1. InputRanges(d, tx) \in Seq(AllRanges) /\ MaxSlot \in Nat
    BY TokenInputsFacts, LedgerConstants
  <2> QED
    BY <1>1, <2>1, AssignedByIndex DEF AllRanges
<1>6. \A k \in 1..n : Out(h, k) \in OutsOf(h, tx) /\ OwnerOf(tx, Out(h, k)) = ScriptAt(tx, k)
  BY <1>4, OutIsOf DEF OwnerOf
<1>7. MixGifts(d, tx, h) \in [1..n -> Gifts(tx, h)]
  BY <1>5, <1>6 DEF MixGifts, Gifts, n
<1>8. MixGifts(d, tx, h) \in Seq(Gifts(tx, h)) /\ Len(MixGifts(d, tx, h)) = n
  BY <1>2, <1>7
<1> QED
  BY <1>2, <1>6, <1>8 DEF n

LEMMA MixSteps ==
  ASSUME NEW h \in Nat, NEW tx \in TxTypes, NEW d \in Dbs, NEW spent \in TxDbs(tx, h),
         Message(tx).cmd = "mix", MixAccepted(d, tx)
  PROVE  \E F : StepsOf(F, Len(MixGifts(d, tx, h)), TxDbs(tx, h), spent,
                        GiftStep(MixGifts(d, tx, h), tx, h), DigestMix(d, spent, tx, h))
<1> DEFINE n == Len(Message(tx).outs)
           D == TxDbs(tx, h)
           gs == MixGifts(d, tx, h)
           G == GiftStep(gs, tx, h)
           s == [k \in 1..n |-> k]
           rs(k) == Assigned(Message(tx), InputRanges(d, tx), k)
           give(e, k) == SaveRanges(SaveUtxos(e, Out(h, k), rs(k), ScriptAt(tx, k), h), Out(h, k), rs(k))
           Solves(it) == it = [T \in SUBSET DOMAIN s |-> IF T = {} THEN spent
                                 ELSE give(it[T \ {Max(T)}], s[Max(T)])]
           c == CHOOSE it : Solves(it)
<1>1. /\ n \in Nat /\ Len(s) = n /\ DOMAIN s = 1..n /\ Len(gs) = n /\ gs \in Seq(Gifts(tx, h))
      /\ \A k \in 1..n : OwnerOf(tx, Out(h, k)) = ScriptAt(tx, k)
  BY MixGiftsType
<1>2. DigestMix(d, spent, tx, h) = c[1..n]
  BY <1>1 DEF DigestMix, FoldLeft, MapThenFoldSet
<1>3. G \in [D \X (1..n) -> D]
  <2>1. \A k \in 1..n : gs[k] \in Gifts(tx, h)
    BY <1>1
  <2>2. \A e \in D, k \in 1..n : Give(e, gs[k], tx, h) \in D
    BY <2>1, GiveFacts DEF GivesOne
  <2> HIDE DEF gs, D, n
  <2> QED
    BY <1>1, <2>2 DEF GiftStep, D
<1>4. \A e \in D, k \in 1..n : G[<<e, k>>] = give(e, k)
  <2> SUFFICES ASSUME NEW e \in D, NEW k \in 1..n PROVE G[<<e, k>>] = give(e, k)
    OBVIOUS
  <2>1. G[<<e, k>>] = Give(e, gs[k], tx, h)
    <3> HIDE DEF gs, D, n
    <3> QED
      BY <1>1 DEF GiftStep, D
  <2>2. gs[k] = [out |-> Out(h, k), rows |-> rs(k), ranges |-> rs(k)]
    BY DEF MixGifts
  <2>3. OwnerOf(tx, Out(h, k)) = ScriptAt(tx, k)
    BY <1>1
  <2> HIDE DEF gs, n, rs
  <2> QED
    BY <2>1, <2>2, <2>3 DEF Give
<1> HIDE DEF G, give, gs, D, n
<1>5. PICK it \in [SUBSET (1..n) -> D] :
        IsFoldOf(it, n, spent, G) /\ \A T \in SUBSET (1..n) : T # {} => Max(T) \in 1..n
  <2>1. spent \in D
    BY DEF D
  <2> QED
    BY <1>1, <1>3, <2>1, FoldExists
<1>6. Solves(it)
  BY <1>1, <1>4, <1>5 DEF IsFoldOf
<1>7. Solves(c)
  <2> HIDE DEF Solves
  <2> QED
    BY <1>6
<1>8. FoldsBy(c, n, D, spent, G)
  <2> HIDE DEF c
  <2> QED
    BY <1>1, <1>4, <1>5, <1>7 DEF FoldsBy
<1>9. \E F : StepsOf(F, n, D, spent, G, c[1..n])
  <2>1. spent \in D
    BY DEF D
  <2> HIDE DEF c
  <2> QED
    BY <1>1, <1>3, <1>8, <2>1, FoldSteps
<1> HIDE DEF c
<1> QED
  BY <1>1, <1>2, <1>9 DEF D, G, gs

-----------------------------------------------------------------------------
(* The gifts of a registration.                                             *)

OwnershipGifts(tx, h) ==
  [k \in 1..Len(Message(tx).groups) |->
    [out |-> Out(h, k), rows |-> RegisteredRanges(tx, k), ranges |-> RegisteredRanges(tx, k)]]

LEMMA RegisteredRangesType ==
  ASSUME NEW tx \in TxTypes, Message(tx).cmd = "ownership", Base(tx) \in Scripts \cup {OpReturn},
         NEW k \in 1..Len(Message(tx).groups)
  PROVE  /\ RegisteredRanges(tx, k) \in Seq(AllRanges)
         /\ GroupsIn(RegisteredRanges(tx, k)) \subseteq {[coll |-> Message(tx).coll, base |-> Base(tx)]}
<1>1. Message(tx).coll \in Nat /\ Message(tx).groups \in Seq(Seq(SlotRangesOf))
  BY MessageFacts
<1>2. PICK g : g = Message(tx).groups[k] /\ g \in Seq(SlotRangesOf)
  BY <1>1
<1>3. Len(g) \in Nat /\ \A i \in 1..Len(g) : g[i] \in SlotRangesOf
  BY <1>2
<1> DEFINE id == [coll |-> Message(tx).coll, base |-> Base(tx)]
           q == [i \in 1..Len(g) |-> [group |-> id, lo |-> g[i].lo, hi |-> g[i].hi]]
<1>4. id \in AllGroups
  BY <1>1 DEF AllGroups
<1>5. RegisteredRanges(tx, k) = q
  BY <1>2 DEF RegisteredRanges
<1> HIDE DEF id
<1>6. \A i \in 1..Len(g) : q[i] \in AllRanges /\ q[i].group = id
  BY <1>3, <1>4 DEF SlotRangesOf, AllRanges, RangesOver
<1>7. q \in Seq(AllRanges) /\ Len(q) = Len(g)
  BY <1>3, <1>6
<1> HIDE DEF q
<1>8. GroupsIn(q) \subseteq {id}
  BY <1>6, <1>7 DEF GroupsIn, ToSet
<1> QED
  BY <1>5, <1>7, <1>8 DEF id

LEMMA OwnershipGiftsType ==
  ASSUME NEW h \in Nat, NEW tx \in TxTypes, Message(tx).cmd = "ownership",
         Base(tx) \in Scripts \cup {OpReturn}, Len(Message(tx).groups) < Len(tx.outs)
  PROVE  /\ OwnershipGifts(tx, h) \in Seq(Gifts(tx, h))
         /\ Len(Message(tx).groups) \in Nat /\ Len(OwnershipGifts(tx, h)) = Len(Message(tx).groups)
         /\ \A k \in 1..Len(Message(tx).groups) :
              OwnerOf(tx, Out(h, k)) = ScriptAt(tx, k) /\ Out(h, k) \in OutsOf(h, tx)
<1> DEFINE n == Len(Message(tx).groups)
<1>1. n \in Nat
  <2>1. PICK s : s = Message(tx).groups /\ s \in Seq(Seq(SlotRangesOf))
    BY MessageFacts
  <2> QED
    BY <2>1
<1>2. n < Len(tx.outs) /\ Len(tx.outs) \in Nat
  <2>1. PICK s : s = tx.outs /\ s \in Seq(Scripts \cup {OpReturn})
    BY DEF TxTypes
  <2>2. Len(s) \in Nat
    BY <2>1
  <2> QED
    BY <2>1, <2>2
<1>3. \A k \in 1..n : RegisteredRanges(tx, k) \in Seq(AllRanges)
  BY RegisteredRangesType
<1> HIDE DEF n
<1>4. \A k \in 1..n : k \in Nat /\ k < Len(tx.outs) /\ k # 0
  BY <1>1, <1>2
<1>5. \A k \in 1..n : Out(h, k) \in OutsOf(h, tx) /\ OwnerOf(tx, Out(h, k)) = ScriptAt(tx, k)
  BY <1>4, OutIsOf DEF OwnerOf
<1>6. OwnershipGifts(tx, h) \in [1..n -> Gifts(tx, h)]
  BY <1>3, <1>5 DEF OwnershipGifts, Gifts, n
<1>7. OwnershipGifts(tx, h) \in Seq(Gifts(tx, h)) /\ Len(OwnershipGifts(tx, h)) = n
  BY <1>1, <1>6
<1> QED
  BY <1>1, <1>5, <1>7 DEF n

LEMMA OwnershipSteps ==
  ASSUME NEW h \in Nat, NEW tx \in TxTypes, NEW spent \in TxDbs(tx, h),
         Message(tx).cmd = "ownership", Registers(tx),
         Base(tx) \in Scripts \cup {OpReturn}, Len(Message(tx).groups) < Len(tx.outs)
  PROVE  \E F : StepsOf(F, Len(OwnershipGifts(tx, h)), TxDbs(tx, h), spent,
                        GiftStep(OwnershipGifts(tx, h), tx, h), DigestOwnership(spent, tx, h))
<1> DEFINE n == Len(Message(tx).groups)
           D == TxDbs(tx, h)
           gs == OwnershipGifts(tx, h)
           G == GiftStep(gs, tx, h)
           s == [k \in 1..n |-> k]
           rs(k) == RegisteredRanges(tx, k)
           give(e, k) == SaveRanges(SaveUtxos(e, Out(h, k), rs(k), ScriptAt(tx, k), h), Out(h, k), rs(k))
           Solves(it) == it = [T \in SUBSET DOMAIN s |-> IF T = {} THEN spent
                                 ELSE give(it[T \ {Max(T)}], s[Max(T)])]
           c == CHOOSE it : Solves(it)
<1>1. /\ n \in Nat /\ Len(s) = n /\ DOMAIN s = 1..n /\ Len(gs) = n /\ gs \in Seq(Gifts(tx, h))
      /\ \A k \in 1..n : OwnerOf(tx, Out(h, k)) = ScriptAt(tx, k)
  BY OwnershipGiftsType
<1>2. DigestOwnership(spent, tx, h) = c[1..n]
  BY <1>1 DEF DigestOwnership, FoldLeft, MapThenFoldSet
<1>3. G \in [D \X (1..n) -> D]
  <2>1. \A k \in 1..n : gs[k] \in Gifts(tx, h)
    BY <1>1
  <2>2. \A e \in D, k \in 1..n : Give(e, gs[k], tx, h) \in D
    BY <2>1, GiveFacts DEF GivesOne
  <2> HIDE DEF gs, D, n
  <2> QED
    BY <1>1, <2>2 DEF GiftStep, D
<1>4. \A e \in D, k \in 1..n : G[<<e, k>>] = give(e, k)
  <2> SUFFICES ASSUME NEW e \in D, NEW k \in 1..n PROVE G[<<e, k>>] = give(e, k)
    OBVIOUS
  <2>1. G[<<e, k>>] = Give(e, gs[k], tx, h)
    <3> HIDE DEF gs, D, n
    <3> QED
      BY <1>1 DEF GiftStep, D
  <2>2. gs[k] = [out |-> Out(h, k), rows |-> rs(k), ranges |-> rs(k)]
    BY DEF OwnershipGifts
  <2>3. OwnerOf(tx, Out(h, k)) = ScriptAt(tx, k)
    BY <1>1
  <2> HIDE DEF gs, n, rs
  <2> QED
    BY <2>1, <2>2, <2>3 DEF Give
<1> HIDE DEF G, give, gs, D, n
<1>5. PICK it \in [SUBSET (1..n) -> D] :
        IsFoldOf(it, n, spent, G) /\ \A T \in SUBSET (1..n) : T # {} => Max(T) \in 1..n
  <2>1. spent \in D
    BY DEF D
  <2> QED
    BY <1>1, <1>3, <2>1, FoldExists
<1>6. Solves(it)
  BY <1>1, <1>4, <1>5 DEF IsFoldOf
<1>7. Solves(c)
  <2> HIDE DEF Solves
  <2> QED
    BY <1>6
<1>8. FoldsBy(c, n, D, spent, G)
  <2> HIDE DEF c
  <2> QED
    BY <1>1, <1>4, <1>5, <1>7 DEF FoldsBy
<1>9. \E F : StepsOf(F, n, D, spent, G, c[1..n])
  <2>1. spent \in D
    BY DEF D
  <2> HIDE DEF c
  <2> QED
    BY <1>1, <1>3, <1>8, <2>1, FoldSteps
<1> HIDE DEF c
<1> QED
  BY <1>1, <1>2, <1>9 DEF D, G, gs

-----------------------------------------------------------------------------
(* The gifts of the implicit transfer: what the i-th token input carries.   *)

Dest(tx, i) ==
  IF RemainingOutputs(tx) = << >> THEN 0
  ELSE IF i <= Len(RemainingOutputs(tx)) THEN RemainingOutputs(tx)[i] ELSE Last(RemainingOutputs(tx))

TransferGifts(d, tx, h) ==
  [k \in 1..Len(TokenInputs(d, tx)) |->
    [out |-> Out(h, Dest(tx, k)), rows |-> UnspentRanges(d, TokenInputs(d, tx)[k]),
     ranges |-> MergeOrdered(UnspentRanges(d, TokenInputs(d, tx)[k]))]]

LEMMA DestFacts ==
  ASSUME NEW tx \in TxTypes, NEW i \in Nat \ {0}, NEW h
  PROVE  /\ Dest(tx, i) \in Nat /\ Dest(tx, i) < Len(tx.outs)
         /\ OwnerOf(tx, Out(h, Dest(tx, i)))
              = IF RemainingOutputs(tx) = << >> THEN NoOwner ELSE ScriptAt(tx, Dest(tx, i))
<1> DEFINE n == Len(tx.outs)
           s == [v \in 1..n |-> v - 1]
           S == {v \in 0..n - 1 : ScriptAt(tx, v) # OpReturn}
           q == RemainingOutputs(tx)
<1>1. n \in Nat /\ n > 0
  <2>1. PICK u : u = tx.outs /\ u \in Seq(Scripts \cup {OpReturn}) /\ u # << >>
    BY DEF TxTypes
  <2> QED
    BY <2>1
<1>2. q = Keep(s, S)
  BY DEF RemainingOutputs
<1> HIDE DEF n
<1>3. s \in Seq(0..n - 1) /\ ToSet(s) = 0..n - 1
  <2>1. s \in Seq(0..n - 1) /\ DOMAIN s = 1..n
    BY <1>1
  <2>2. \A v \in 0..n - 1 : v + 1 \in 1..n /\ s[v + 1] = v
    BY <1>1
  <2>3. \A v \in 0..n - 1 : \E j \in DOMAIN s : s[j] = v
    BY <2>1, <2>2
  <2>4. \A j \in DOMAIN s : s[j] \in 0..n - 1
    BY <1>1, <2>1
  <2> HIDE DEF s
  <2> QED
    BY <2>1, <2>3, <2>4 DEF ToSet
<1>4. ToSet(s) \cap S = S
  BY <1>3
<1> HIDE DEF s, S, q
<1>5. Keep(s, S) \in Seq(0..n - 1) /\ ToSet(Keep(s, S)) = ToSet(s) \cap S
  BY <1>3, KeepFacts
<1>6. PICK u : u = q /\ u \in Seq(0..n - 1) /\ ToSet(u) = S
  BY <1>2, <1>4, <1>5
<1>7. CASE q = << >>
  <2>1. S = {}
    BY <1>6, <1>7 DEF ToSet
  <2>2. ScriptAt(tx, 0) = OpReturn
    BY <1>1, <2>1 DEF S
  <2>3. Dest(tx, i) = 0
    BY <1>7 DEF Dest, q
  <2> QED
    BY <1>1, <1>7, <2>2, <2>3 DEF OwnerOf, Out, n, q
<1>8. CASE q # << >>
  <2>1. Len(u) \in Nat /\ Len(u) > 0 /\ Last(u) = u[Len(u)] /\ Len(u) \in 1..Len(u)
    BY <1>6, <1>8 DEF Last
  <2>2. Dest(tx, i) = u[IF i <= Len(u) THEN i ELSE Len(u)]
    BY <1>6, <1>8, <2>1 DEF Dest, q
  <2>3. (IF i <= Len(u) THEN i ELSE Len(u)) \in 1..Len(u)
    BY <2>1
  <2>4. Dest(tx, i) \in S
    BY <1>6, <2>2, <2>3 DEF ToSet
  <2>5. Dest(tx, i) \in 0..n - 1 /\ ScriptAt(tx, Dest(tx, i)) # OpReturn
    BY <2>4 DEF S
  <2>6. OwnerOf(tx, Out(h, Dest(tx, i))) = ScriptAt(tx, Dest(tx, i))
    BY <2>5 DEF OwnerOf, Out
  <2>7. Dest(tx, i) \in Nat /\ Dest(tx, i) < n
    BY <1>1, <2>5
  <2> QED
    BY <1>8, <2>6, <2>7 DEF q, n
<1> QED
  BY <1>7, <1>8

LEMMA TransferGiftsType ==
  ASSUME NEW h \in Nat, NEW tx \in TxTypes, NEW d \in Dbs
  PROVE  /\ TransferGifts(d, tx, h) \in Seq(Gifts(tx, h))
         /\ Len(TokenInputs(d, tx)) \in Nat /\ Len(TransferGifts(d, tx, h)) = Len(TokenInputs(d, tx))
         /\ \A k \in 1..Len(TokenInputs(d, tx)) :
              /\ OwnerOf(tx, Out(h, Dest(tx, k)))
                   = IF RemainingOutputs(tx) = << >> THEN NoOwner ELSE ScriptAt(tx, Dest(tx, k))
              /\ Out(h, Dest(tx, k)) \in OutsOf(h, tx)
<1> DEFINE n == Len(TokenInputs(d, tx))
           rs(k) == UnspentRanges(d, TokenInputs(d, tx)[k])
<1>1. n \in Nat
  <2>1. PICK s : s = TokenInputs(d, tx) /\ s \in Seq(Outpoints)
    BY TokenInputsFacts
  <2> QED
    BY <2>1
<1>2. \A k \in 1..n : /\ rs(k) \in Seq(AllRanges) /\ MergeOrdered(rs(k)) \in Seq(AllRanges)
                      /\ GroupsIn(MergeOrdered(rs(k))) = GroupsIn(rs(k))
  BY UnspentRangesType, LedgerConstants, MergeFacts DEF AllRanges
<1> HIDE DEF n
<1>3. \A k \in 1..n : k \in Nat \ {0}
  BY <1>1
<1>4. \A k \in 1..n :
        /\ Out(h, Dest(tx, k)) \in OutsOf(h, tx)
        /\ OwnerOf(tx, Out(h, Dest(tx, k)))
             = IF RemainingOutputs(tx) = << >> THEN NoOwner ELSE ScriptAt(tx, Dest(tx, k))
  BY <1>3, DestFacts, OutIsOf
<1>5. TransferGifts(d, tx, h) \in [1..n -> Gifts(tx, h)]
  BY <1>2, <1>4 DEF TransferGifts, Gifts, n
<1>6. TransferGifts(d, tx, h) \in Seq(Gifts(tx, h)) /\ Len(TransferGifts(d, tx, h)) = n
  BY <1>1, <1>5
<1> QED
  BY <1>1, <1>4, <1>6 DEF n

LEMMA TransferSteps ==
  ASSUME NEW h \in Nat, NEW tx \in TxTypes, NEW d \in Dbs, NEW spent \in TxDbs(tx, h)
  PROVE  \E F : StepsOf(F, Len(TransferGifts(d, tx, h)), TxDbs(tx, h), spent,
                        GiftStep(TransferGifts(d, tx, h), tx, h), ImplicitTransfer(d, spent, tx, h))
<1> DEFINE n == Len(TokenInputs(d, tx))
           D == TxDbs(tx, h)
           gs == TransferGifts(d, tx, h)
           G == GiftStep(gs, tx, h)
           s == [k \in 1..n |-> k]
           rs(k) == UnspentRanges(d, TokenInputs(d, tx)[k])
           owner(k) == IF RemainingOutputs(tx) = << >> THEN NoOwner ELSE ScriptAt(tx, Dest(tx, k))
           give(e, k) == SaveRangesForOutput(e, Out(h, Dest(tx, k)), rs(k), owner(k), h)
           Solves(it) == it = [T \in SUBSET DOMAIN s |-> IF T = {} THEN spent
                                 ELSE give(it[T \ {Max(T)}], s[Max(T)])]
           c == CHOOSE it : Solves(it)
<1>1. /\ n \in Nat /\ Len(s) = n /\ DOMAIN s = 1..n /\ Len(gs) = n /\ gs \in Seq(Gifts(tx, h))
      /\ \A k \in 1..n : OwnerOf(tx, Out(h, Dest(tx, k))) = owner(k)
  BY TransferGiftsType
<1>2. ImplicitTransfer(d, spent, tx, h) = c[1..n]
  BY <1>1 DEF ImplicitTransfer, Dest, FoldLeft, MapThenFoldSet
<1>3. G \in [D \X (1..n) -> D]
  <2>1. \A k \in 1..n : gs[k] \in Gifts(tx, h)
    BY <1>1
  <2>2. \A e \in D, k \in 1..n : Give(e, gs[k], tx, h) \in D
    BY <2>1, GiveFacts DEF GivesOne
  <2> HIDE DEF gs, D, n
  <2> QED
    BY <1>1, <2>2 DEF GiftStep, D
<1>4. \A e \in D, k \in 1..n : G[<<e, k>>] = give(e, k)
  <2> SUFFICES ASSUME NEW e \in D, NEW k \in 1..n PROVE G[<<e, k>>] = give(e, k)
    OBVIOUS
  <2>1. G[<<e, k>>] = Give(e, gs[k], tx, h)
    <3> HIDE DEF gs, D, n
    <3> QED
      BY <1>1 DEF GiftStep, D
  <2>2. gs[k] = [out |-> Out(h, Dest(tx, k)), rows |-> rs(k), ranges |-> MergeOrdered(rs(k))]
    BY DEF TransferGifts
  <2>3. OwnerOf(tx, Out(h, Dest(tx, k))) = owner(k)
    BY <1>1
  <2> HIDE DEF gs, n, rs, owner
  <2> QED
    BY <2>1, <2>2, <2>3 DEF Give, SaveRangesForOutput
<1> HIDE DEF G, give, gs, D, n
<1>5. PICK it \in [SUBSET (1..n) -> D] :
        IsFoldOf(it, n, spent, G) /\ \A T \in SUBSET (1..n) : T # {} => Max(T) \in 1..n
  <2>1. spent \in D
    BY DEF D
  <2> QED
    BY <1>1, <1>3, <2>1, FoldExists
<1>6. Solves(it)
  BY <1>1, <1>4, <1>5 DEF IsFoldOf
<1>7. Solves(c)
  <2> HIDE DEF Solves
  <2> QED
    BY <1>6
<1>8. FoldsBy(c, n, D, spent, G)
  <2> HIDE DEF c
  <2> QED
    BY <1>1, <1>4, <1>5, <1>7 DEF FoldsBy
<1>9. \E F : StepsOf(F, n, D, spent, G, c[1..n])
  <2>1. spent \in D
    BY DEF D
  <2> HIDE DEF c
  <2> QED
    BY <1>1, <1>3, <1>8, <2>1, FoldSteps
<1> HIDE DEF c
<1> QED
  BY <1>1, <1>2, <1>9 DEF D, G, gs

-----------------------------------------------------------------------------
(* All that a transaction gives.                                            *)

Registration(tx, h) == IF Registers(tx) THEN ToSet(OwnershipGifts(tx, h)) ELSE {}

TxGifts(d, tx, h) ==
  IF Message(tx).cmd = "mix"
  THEN IF MixAccepted(d, tx) THEN ToSet(MixGifts(d, tx, h)) ELSE {}
  ELSE Registration(tx, h) \cup ToSet(TransferGifts(d, tx, h))

(* e is d after the gifts S of tx.                                          *)
Gave(d, e, S, tx, h) ==
  /\ e \in TxDbs(tx, h)
  /\ e.utxos = d.utxos \cup UNION {NewRows(f, tx, h) : f \in S}
  /\ DOMAIN e.ranges \subseteq DOMAIN d.ranges \cup OutsOf(h, tx)
  /\ \A o \in Outpoints \ OutsOf(h, tx) : RangesAt(e, o) = RangesAt(d, o)
  /\ \A o \in OutsOf(h, tx) :
       ToSet(RangesAt(e, o)) = ToSet(RangesAt(d, o))
                               \cup UNION {ToSet(f.ranges) : f \in {f \in S : f.out = o}}

LEMMA GivesToSet ==
  ASSUME NEW h, NEW tx, NEW gs \in Seq(Gifts(tx, h)), NEW d, NEW e, Gives(d, e, gs, Len(gs), tx, h)
  PROVE  Gave(d, e, ToSet(gs), tx, h)
<1>1. ToSet(gs) = {gs[i] : i \in 1..Len(gs)}
  BY DEF ToSet
<1>2. UNION {NewRows(f, tx, h) : f \in ToSet(gs)} = UNION {NewRows(gs[i], tx, h) : i \in 1..Len(gs)}
  BY <1>1
<1>3. ASSUME NEW o
      PROVE  UNION {ToSet(f.ranges) : f \in {f \in ToSet(gs) : f.out = o}}
             = UNION {ToSet(gs[i].ranges) : i \in {i \in 1..Len(gs) : gs[i].out = o}}
  BY <1>1
<1> QED
  BY <1>2, <1>3 DEF Gave, Gives

LEMMA GaveTwice ==
  ASSUME NEW tx, NEW h, NEW d, NEW e, NEW v, NEW S, NEW T,
         Gave(d, e, S, tx, h), Gave(e, v, T, tx, h)
  PROVE  Gave(d, v, S \cup T, tx, h)
<1>1. UNION {NewRows(f, tx, h) : f \in S \cup T}
      = (UNION {NewRows(f, tx, h) : f \in S}) \cup UNION {NewRows(f, tx, h) : f \in T}
  OBVIOUS
<1>2. v.utxos = d.utxos \cup UNION {NewRows(f, tx, h) : f \in S \cup T}
  <2>1. e.utxos = d.utxos \cup UNION {NewRows(f, tx, h) : f \in S}
    BY DEF Gave
  <2>2. v.utxos = e.utxos \cup UNION {NewRows(f, tx, h) : f \in T}
    BY DEF Gave
  <2> QED
    BY <1>1, <2>1, <2>2
<1>3. ASSUME NEW o \in OutsOf(h, tx)
      PROVE  ToSet(RangesAt(v, o)) = ToSet(RangesAt(d, o))
               \cup UNION {ToSet(f.ranges) : f \in {f \in S \cup T : f.out = o}}
  <2>1. UNION {ToSet(f.ranges) : f \in {f \in S \cup T : f.out = o}}
        = (UNION {ToSet(f.ranges) : f \in {f \in S : f.out = o}})
          \cup UNION {ToSet(f.ranges) : f \in {f \in T : f.out = o}}
    OBVIOUS
  <2>2. ToSet(RangesAt(e, o)) = ToSet(RangesAt(d, o))
          \cup UNION {ToSet(f.ranges) : f \in {f \in S : f.out = o}}
    BY DEF Gave
  <2>3. ToSet(RangesAt(v, o)) = ToSet(RangesAt(e, o))
          \cup UNION {ToSet(f.ranges) : f \in {f \in T : f.out = o}}
    BY DEF Gave
  <2> QED
    BY <2>1, <2>2, <2>3
<1>4. /\ v \in TxDbs(tx, h) /\ DOMAIN v.ranges \subseteq DOMAIN d.ranges \cup OutsOf(h, tx)
      /\ \A o \in Outpoints \ OutsOf(h, tx) : RangesAt(v, o) = RangesAt(d, o)
  BY DEF Gave
<1> QED
  BY <1>2, <1>3, <1>4 DEF Gave

LEMMA GaveNothing ==
  ASSUME NEW tx, NEW h, NEW d \in TxDbs(tx, h)
  PROVE  Gave(d, d, {}, tx, h)
BY DEF Gave

(* A transaction parse_block does not fail on.                              *)
Allowed(tx) ==
  /\ tx \in TxTypes
  /\ ~ParseFails(tx)
  /\ tx.ins # << >> => Base(tx) \in Scripts \cup {OpReturn}

LEMMA RegistersFacts ==
  ASSUME NEW tx, Allowed(tx), Registers(tx)
  PROVE  /\ Message(tx).cmd = "ownership" /\ Message(tx).coll \in collections
         /\ tx.ins # << >> /\ Base(tx) \in Scripts \cup {OpReturn}
         /\ Len(Message(tx).groups) < Len(tx.outs)
<1>1. Message(tx).cmd = "ownership" /\ Message(tx).coll \in collections /\ tx \in TxTypes
  BY DEF Registers, Allowed
<1>2. PICK s : s = Message(tx).groups /\ s \in Seq(Seq(SlotRangesOf))
  BY <1>1, MessageFacts
<1>3. PICK u : u = tx.outs /\ u \in Seq(Scripts \cup {OpReturn})
  BY <1>1 DEF TxTypes
<1>4. Len(s) \in Nat /\ Len(u) \in Nat
  BY <1>2, <1>3
<1>5. ~(Len(s) >= Len(u)) /\ tx.ins # << >>
  BY <1>1, <1>2, <1>3 DEF Allowed, ParseFails
<1> QED
  BY <1>1, <1>2, <1>3, <1>4, <1>5 DEF Allowed

LEMMA GiftsType ==
  ASSUME NEW h \in Nat, NEW tx, Allowed(tx), NEW d \in Dbs
  PROVE  TxGifts(d, tx, h) \subseteq Gifts(tx, h)
<1>0. tx \in TxTypes
  BY DEF Allowed
<1>1. ASSUME NEW gs \in Seq(Gifts(tx, h)) PROVE ToSet(gs) \subseteq Gifts(tx, h)
  BY DEF ToSet
<1>2. Registration(tx, h) \subseteq Gifts(tx, h)
  BY <1>0, <1>1, RegistersFacts, OwnershipGiftsType DEF Registration
<1>3. ToSet(TransferGifts(d, tx, h)) \subseteq Gifts(tx, h)
  BY <1>0, <1>1, TransferGiftsType
<1>4. Message(tx).cmd = "mix" /\ MixAccepted(d, tx) => ToSet(MixGifts(d, tx, h)) \subseteq Gifts(tx, h)
  BY <1>0, <1>1, MixGiftsType
<1> QED
  BY <1>2, <1>3, <1>4 DEF TxGifts

(* parse_tx marks the inputs spent and gives TxGifts.                       *)
LEMMA ParseTxGives ==
  ASSUME NEW h \in Nat, NEW tx, Allowed(tx), NEW d \in Dbs,
         MarkSpent(d, ToSet(tx.ins)) \in TxDbs(tx, h)
  PROVE  Gave(MarkSpent(d, ToSet(tx.ins)), ParseTx(d, tx, h), TxGifts(d, tx, h), tx, h)
<1> DEFINE spent == MarkSpent(d, ToSet(tx.ins))
           D == TxDbs(tx, h)
<1>0. tx \in TxTypes /\ spent \in D
  BY DEF Allowed
<1> HIDE DEF spent, D
<1>1. CASE Message(tx).cmd = "mix" /\ MixAccepted(d, tx)
  <2> DEFINE gs == MixGifts(d, tx, h)
             v == DigestMix(d, spent, tx, h)
  <2>1. gs \in Seq(Gifts(tx, h))
    BY <1>0, <1>1, MixGiftsType
  <2>2. \E F : StepsOf(F, Len(gs), TxDbs(tx, h), spent, GiftStep(gs, tx, h), v)
    BY <1>0, <1>1, MixSteps DEF D
  <2>3. ParseTx(d, tx, h) = v /\ TxGifts(d, tx, h) = ToSet(gs)
    BY <1>1 DEF ParseTx, TxGifts, spent
  <2> HIDE DEF gs, v
  <2>4. Gives(spent, v, gs, Len(gs), tx, h)
    BY <1>0, <2>1, <2>2, GiftsFacts DEF D
  <2> QED
    BY <2>1, <2>3, <2>4, GivesToSet DEF spent
<1>2. CASE Message(tx).cmd = "mix" /\ ~MixAccepted(d, tx)
  <2>1. ParseTx(d, tx, h) = spent /\ TxGifts(d, tx, h) = {}
    BY <1>2 DEF ParseTx, TxGifts, spent
  <2> QED
    BY <1>0, <2>1, GaveNothing DEF spent, D
<1>3. CASE Message(tx).cmd # "mix"
  <2> DEFINE e == DigestOwnership(spent, tx, h)
             v == ImplicitTransfer(d, e, tx, h)
             gs == TransferGifts(d, tx, h)
  <2>1. Gave(spent, e, Registration(tx, h), tx, h)
    <3>1. CASE Registers(tx)
      <4> DEFINE qs == OwnershipGifts(tx, h)
      <4>1. /\ Message(tx).cmd = "ownership" /\ Base(tx) \in Scripts \cup {OpReturn}
            /\ Len(Message(tx).groups) < Len(tx.outs)
        BY <3>1, RegistersFacts
      <4>2. qs \in Seq(Gifts(tx, h))
        BY <1>0, <4>1, OwnershipGiftsType
      <4>3. \E F : StepsOf(F, Len(qs), TxDbs(tx, h), spent, GiftStep(qs, tx, h), e)
        BY <1>0, <3>1, <4>1, OwnershipSteps DEF D
      <4>4. Registration(tx, h) = ToSet(qs)
        BY <3>1 DEF Registration
      <4> HIDE DEF qs, e
      <4>5. Gives(spent, e, qs, Len(qs), tx, h)
        BY <1>0, <4>2, <4>3, GiftsFacts DEF D
      <4> QED
        BY <4>2, <4>4, <4>5, GivesToSet
    <3>2. CASE ~Registers(tx)
      <4>1. e = spent /\ Registration(tx, h) = {}
        BY <3>2 DEF DigestOwnership, Registration
      <4> HIDE DEF e
      <4> QED
        BY <1>0, <4>1, GaveNothing DEF D
    <3> QED
      BY <3>1, <3>2
  <2>2. ParseTx(d, tx, h) = v /\ TxGifts(d, tx, h) = Registration(tx, h) \cup ToSet(gs)
    BY <1>3 DEF ParseTx, TxGifts, spent
  <2> HIDE DEF e
  <2>3. e \in TxDbs(tx, h)
    BY <2>1 DEF Gave
  <2>4. gs \in Seq(Gifts(tx, h))
    BY <1>0, TransferGiftsType
  <2>5. \E F : StepsOf(F, Len(gs), TxDbs(tx, h), e, GiftStep(gs, tx, h), v)
    BY <1>0, <2>3, TransferSteps
  <2> HIDE DEF v, gs
  <2>6. Gives(e, v, gs, Len(gs), tx, h)
    BY <1>0, <2>3, <2>4, <2>5, GiftsFacts
  <2>7. Gave(e, v, ToSet(gs), tx, h)
    BY <2>4, <2>6, GivesToSet
  <2>8. Gave(spent, v, Registration(tx, h) \cup ToSet(gs), tx, h)
    BY <2>1, <2>7, GaveTwice
  <2> QED
    BY <2>2, <2>8 DEF spent
<1> QED
  BY <1>1, <1>2, <1>3

-----------------------------------------------------------------------------
(* The inductive invariant.                                                 *)

ChainOuts   == {c.out : c \in coins}
UnspentOuts == {c.out : c \in {c \in coins : ~c.spent}}

CoinsOK ==
  /\ height \in 0..Len(Shapes)
  /\ coins \subseteq [out : Outpoints, script : Scripts \cup {OpReturn}, spent : BOOLEAN]
  /\ \A c, e \in coins : c.out = e.out => c = e
  /\ \A c \in coins : c.out.height <= height /\ c.out.vout <= MaxVout

(* A row was created with its output.                                       *)
TablesOK ==
  /\ collections \subseteq 1..height
  /\ Db \in Dbs
  /\ DOMAIN ranges \subseteq ChainOuts
  /\ \A u \in utxos :
       u.out \in ChainOuts /\ u.group.coll \in collections /\ u.created = u.out.height /\ u.created > 0

(* The tokens of the ranges an output was ever given.                       *)
TokensIn(rs)  == UNION {TokensOf(r) : r \in ToSet(rs)}
EverHeld(o)   == TokensIn(RangesAt(Db, o))

MintedOK ==
  /\ minted \subseteq Tokens(AllGroups)
  /\ \A t \in minted : t.group.coll \in collections
  /\ \A o \in ChainOuts : EverHeld(o) \subseteq minted

(* RestsOnce by the table: among the unspent outputs one range holds the    *)
(* token.                                                                   *)
PlacedOnce ==
  \A t \in minted \ reminted : \A o, p \in UnspentOuts :
    \A r \in ToSet(RangesAt(Db, o)), q \in ToSet(RangesAt(Db, p)) :
      t \in TokensOf(r) /\ t \in TokensOf(q) => o = p /\ r = q

TablesInv == CoinsOK /\ TablesOK /\ RowsMatchRanges /\ OwnerIsOutput
IInv == TablesInv /\ MintedOK /\ PlacedOnce

LEMMA TransactionFacts ==
  ASSUME CoinsOK, height < Len(Shapes), NEW tx \in NextTxs
  PROVE  /\ tx \in TxTypes /\ Len(tx.outs) <= MaxVout + 1
         /\ ToSet(tx.ins) \subseteq UnspentOuts /\ Distinct(tx.ins)
         /\ tx.ins # << >> =>
              \E c \in coins : c.out = tx.ins[1] /\ ~c.spent /\ Base(tx) = c.script
<1>1. height + 1 \in 1..Len(Shapes)
  BY LedgerConstants DEF CoinsOK
<1>2. PICK s \in Shapes[height + 1] : \E ins \in InputLists(s.inputs) :
        tx = [ins |-> ins, outs |-> s.outs, msg |-> s.msg]
  BY DEF NextTxs
<1>3. PICK ins \in InputLists(s.inputs) : tx = [ins |-> ins, outs |-> s.outs, msg |-> s.msg]
  BY <1>2
<1>4. /\ s \in [inputs : Nat, outs : Seq(Scripts \cup {OpReturn}) \ {<< >>}, msg : Messages]
      /\ Len(s.outs) <= MaxVout + 1
  <2>1. PICK S : S = Shapes[height + 1]
    OBVIOUS
  <2>2. S \in SUBSET [inputs : Nat, outs : Seq(Scripts \cup {OpReturn}) \ {<< >>}, msg : Messages]
    BY <1>1, <2>1, LedgerConstants
  <2>3. \A x \in Shapes[height + 1] : Len(x.outs) <= MaxVout + 1
    BY <1>1, LedgerConstants
  <2> QED
    BY <2>1, <2>2, <2>3
<1> DEFINE n == s.inputs
<1>5. n \in Nat /\ ins \in [1..n -> Spendable] /\ \A i, j \in 1..n : i # j => ins[i] # ins[j]
  BY <1>4 DEF InputLists
<1>6. \A o \in Spendable : \E c \in coins : c.out = o /\ ~c.spent
  BY DEF Spendable
<1>7. Spendable \subseteq UnspentOuts /\ UnspentOuts \subseteq Outpoints
  BY DEF Spendable, UnspentOuts, CoinsOK
<1> HIDE DEF n
<1>8. ins \in Seq(Outpoints) /\ Len(ins) = n /\ DOMAIN ins = 1..n
  BY <1>5, <1>7
<1>9. ToSet(ins) \subseteq UnspentOuts /\ Distinct(ins)
  BY <1>5, <1>7, <1>8 DEF ToSet, Distinct
<1>10. tx \in TxTypes /\ tx.ins = ins /\ tx.outs = s.outs
  BY <1>3, <1>4, <1>8 DEF TxTypes
<1>11. ASSUME ins # << >>
       PROVE  \E c \in coins : c.out = ins[1] /\ ~c.spent /\ Base(tx) = c.script
  <2>1. 1 \in 1..n
    BY <1>5, <1>8, <1>11
  <2>2. PICK e \in coins : e.out = ins[1] /\ ~e.spent
    BY <1>5, <1>6, <2>1
  <2> DEFINE c == CHOOSE c \in coins : c.out = ins[1]
  <2>3. c \in coins /\ c.out = ins[1]
    BY <2>2
  <2>4. Base(tx) = c.script
    BY <1>10 DEF Base, ScriptOf
  <2> HIDE DEF c
  <2>5. c = e
    BY <2>2, <2>3 DEF CoinsOK
  <2> QED
    BY <2>2, <2>4, <2>5
<1> QED
  BY <1>4, <1>9, <1>10, <1>11

LEMMA UnspentRangesAre ==
  ASSUME TablesInv, NEW c \in coins
  PROVE  /\ UnspentRanges(Db, c.out) = IF c.spent THEN << >> ELSE RangesAt(Db, c.out)
         /\ UnspentGroups(Db, c.out) = IF c.spent THEN {} ELSE GroupsIn(RangesAt(Db, c.out))
<1> DEFINE o == c.out
           rs == RangesAt(Db, o)
           S == {r \in ToSet(rs) : r.group \in UnspentGroups(Db, o)}
<1>1. rs \in Seq(AllRanges)
  BY RangesAtType DEF TablesInv, TablesOK
<1>2. \A u \in utxos : u.out = o => u.spent = c.spent
  BY DEF TablesInv, OwnerIsOutput, CoinsOK
<1>3. UnspentGroups(Db, o) = {u.group : u \in {u \in utxos : u.out = o /\ ~u.spent}}
  BY DEF UnspentGroups, Db
<1>4. {u.group : u \in {u \in utxos : u.out = o}} = GroupsIn(rs)
  BY DEF TablesInv, RowsMatchRanges, GroupsOf, GroupsIn
<1>5. UnspentRanges(Db, o) = Keep(rs, S)
  BY DEF UnspentRanges
<1> HIDE DEF rs
<1>6. CASE c.spent
  <2>1. UnspentGroups(Db, o) = {}
    BY <1>2, <1>3, <1>6
  <2>2. ToSet(rs) \cap S = {}
    BY <2>1
  <2> HIDE DEF S
  <2>3. Keep(rs, S) = << >>
    BY <1>1, <2>2, KeepFacts
  <2> QED
    BY <1>5, <1>6, <2>1, <2>3 DEF rs
<1>7. CASE ~c.spent
  <2>1. UnspentGroups(Db, o) = GroupsIn(rs)
    BY <1>2, <1>3, <1>4, <1>7
  <2>2. ToSet(rs) \subseteq S
    BY <2>1 DEF GroupsIn
  <2> HIDE DEF S
  <2>3. Keep(rs, S) = rs
    BY <1>1, <2>2, KeepFacts
  <2> QED
    BY <1>5, <1>7, <2>1, <2>3 DEF rs
<1> QED
  BY <1>6, <1>7

(* What the block with tx changes.                                          *)
Block(tx) ==
  /\ height < Len(Shapes) /\ tx \in NextTxs /\ ~ParseFails(tx)
  /\ height' = height + 1
  /\ coins' = {IF c.out \in ToSet(tx.ins) THEN [c EXCEPT !.spent = TRUE] ELSE c : c \in coins}
              \cup {[out |-> o, script |-> ScriptAt(tx, o.vout), spent |-> FALSE]
                    : o \in OutsOf(height + 1, tx)}
  /\ collections' = DigestCollection(tx, height + 1)
  /\ utxos' = ParseTx(Db, tx, height + 1).utxos
  /\ ranges' = ParseTx(Db, tx, height + 1).ranges
  /\ minted' = minted \cup ToSet(RegisteredTokens(tx))
  /\ reminted' = reminted \cup Twice(RegisteredTokens(tx)) \cup (ToSet(RegisteredTokens(tx)) \cap minted)

LEMMA ParseBlockIsBlock ==
  ParseBlock => \E tx \in NextTxs : Block(tx)
BY DEF ParseBlock, Block

(* e is the output's coin after a block that spends the outputs S.          *)
CoinAfter(c, e, S) ==
  /\ e.out = c.out /\ e.script = c.script
  /\ e.spent = (c.spent \/ c.out \in S)

LEMMA BlockFacts ==
  ASSUME TablesInv, NEW tx, Block(tx)
  PROVE  /\ Allowed(tx) /\ height + 1 \in Nat /\ height + 1 \in 1..Len(Shapes)
         /\ OutsOf(height + 1, tx) \cap ChainOuts = {}
         /\ \A o \in OutsOf(height + 1, tx) : o \in Outpoints /\ o.height = height + 1 /\ o.vout \in 0..MaxVout
         /\ Gave(MarkSpent(Db, ToSet(tx.ins)), Db', TxGifts(Db, tx, height + 1), tx, height + 1)
         /\ TxGifts(Db, tx, height + 1) \subseteq Gifts(tx, height + 1)
         /\ \A c \in coins : \E e \in coins' : CoinAfter(c, e, ToSet(tx.ins))
         /\ \A e \in coins' :
              \/ \E c \in coins : CoinAfter(c, e, ToSet(tx.ins))
              \/ e.out \in OutsOf(height + 1, tx) /\ e.script = ScriptAt(tx, e.out.vout) /\ ~e.spent
         /\ \A o \in OutsOf(height + 1, tx) : \E e \in coins' : e.out = o
<1> DEFINE h == height + 1
           S == ToSet(tx.ins)
           spent == MarkSpent(Db, S)
           d == ParseTx(Db, tx, h)
<1>0. CoinsOK /\ TablesOK
  BY DEF TablesInv
<1>1. h \in Nat /\ h \in 1..Len(Shapes) /\ height \in Nat
  BY <1>0, LedgerConstants DEF Block, CoinsOK
<1>2. /\ tx \in TxTypes /\ Len(tx.outs) <= MaxVout + 1 /\ S \subseteq UnspentOuts
      /\ tx.ins # << >> => \E c \in coins : c.out = tx.ins[1] /\ ~c.spent /\ Base(tx) = c.script
  BY <1>0, TransactionFacts DEF Block
<1>3. Allowed(tx)
  BY <1>0, <1>2 DEF Allowed, Block, CoinsOK
<1>4. ASSUME NEW o \in OutsOf(h, tx) PROVE o \in Outpoints /\ o.height = h /\ o.vout \in 0..MaxVout
  <2>1. o \in Outpoints /\ o.height = h /\ o.vout \in 0..Len(tx.outs) - 1
    BY <1>1, <1>2, OutsOfFacts
  <2>2. PICK u : u = tx.outs /\ u \in Seq(Scripts \cup {OpReturn})
    BY <1>2 DEF TxTypes
  <2>3. Len(u) \in Nat
    BY <2>2
  <2>4. o.vout \in 0..MaxVout
    BY <1>2, <2>1, <2>2, <2>3, LedgerConstants
  <2> QED
    BY <2>1, <2>4
<1>5. OutsOf(h, tx) \cap ChainOuts = {}
  <2>1. \A o \in ChainOuts : o.height \in Nat /\ o.height <= height
    BY <1>0 DEF CoinsOK, ChainOuts, Outpoints
  <2> QED
    BY <1>1, <1>4, <2>1
<1>6. Db \in Dbs
  BY <1>0 DEF TablesOK
<1>7. spent = [utxos |-> {IF u.out \in S THEN [u EXCEPT !.spent = TRUE] ELSE u : u \in utxos}, ranges |-> ranges]
  BY DEF MarkSpent, Db
<1>8. spent \in TxDbs(tx, h)
  <2>1. \A u \in utxos : u \in RowTypes /\ u.out \in ChainOuts
    BY <1>0, <1>6 DEF TablesOK, Dbs, Db
  <2>2. \A u \in spent.utxos : u \in RowTypes /\ u.out \in ChainOuts
    <3>1. ASSUME NEW u \in spent.utxos PROVE u \in RowTypes /\ u.out \in ChainOuts
      <4>1. PICK w \in utxos : u = IF w.out \in S THEN [w EXCEPT !.spent = TRUE] ELSE w
        BY <1>7
      <4>2. w \in RowTypes /\ w.out \in ChainOuts
        BY <2>1
      <4> HIDE DEF spent, S
      <4> QED
        BY <4>1, <4>2 DEF RowTypes
    <3> QED
      BY <3>1
  <2>3. spent \in Dbs
    <3>1. ranges \in RangeTables
      BY <1>6 DEF Dbs, Db
    <3>2. spent = [utxos |-> spent.utxos, ranges |-> ranges]
      BY <1>7
    <3> HIDE DEF spent
    <3> QED
      BY <2>2, <3>1, <3>2 DEF Dbs
  <2> HIDE DEF spent, h
  <2> QED
    BY <1>5, <2>2, <2>3 DEF TxDbs
<1>9. Gave(spent, d, TxGifts(Db, tx, h), tx, h) /\ TxGifts(Db, tx, h) \subseteq Gifts(tx, h)
  <2> HIDE DEF h
  <2> QED
    BY <1>1, <1>3, <1>6, <1>8, ParseTxGives, GiftsType
<1>10. Db' = d
  <2>1. d \in Dbs
    BY <1>9 DEF Gave, TxDbs
  <2>2. d = [utxos |-> d.utxos, ranges |-> d.ranges]
    BY <2>1 DEF Dbs
  <2>3. utxos' = d.utxos /\ ranges' = d.ranges
    BY DEF Block
  <2> HIDE DEF d
  <2> QED
    BY <2>2, <2>3 DEF Db
<1>11. coins' = {IF c.out \in S THEN [c EXCEPT !.spent = TRUE] ELSE c : c \in coins}
                \cup {[out |-> o, script |-> ScriptAt(tx, o.vout), spent |-> FALSE] : o \in OutsOf(h, tx)}
  BY DEF Block
<1>12. \A c \in coins : c \in [out : Outpoints, script : Scripts \cup {OpReturn}, spent : BOOLEAN]
  BY <1>0 DEF CoinsOK
<1> HIDE DEF S, h
<1>13. \A c \in coins : CoinAfter(c, IF c.out \in S THEN [c EXCEPT !.spent = TRUE] ELSE c, S)
  BY <1>12 DEF CoinAfter
<1>14. \A c \in coins : \E e \in coins' : CoinAfter(c, e, S)
  BY <1>11, <1>13
<1> DEFINE fresh(o) == [out |-> o, script |-> ScriptAt(tx, o.vout), spent |-> FALSE]
<1>15. \A o \in OutsOf(h, tx) : fresh(o).out = o /\ fresh(o).script = ScriptAt(tx, o.vout) /\ ~fresh(o).spent
  OBVIOUS
<1>16. coins' = {IF c.out \in S THEN [c EXCEPT !.spent = TRUE] ELSE c : c \in coins}
                \cup {fresh(o) : o \in OutsOf(h, tx)}
  BY <1>11
<1>17. ASSUME NEW e \in coins'
       PROVE  \/ \E c \in coins : CoinAfter(c, e, S)
              \/ e.out \in OutsOf(h, tx) /\ e.script = ScriptAt(tx, e.out.vout) /\ ~e.spent
  <2> HIDE DEF fresh
  <2>1. CASE e \in {IF c.out \in S THEN [c EXCEPT !.spent = TRUE] ELSE c : c \in coins}
    BY <1>13, <2>1
  <2>2. CASE e \in {fresh(o) : o \in OutsOf(h, tx)}
    <3>1. PICK o \in OutsOf(h, tx) : e = fresh(o)
      BY <2>2
    <3>2. e.out = o /\ e.script = ScriptAt(tx, o.vout) /\ ~e.spent
      BY <1>15, <3>1
    <3> QED
      BY <3>2
  <2> QED
    BY <1>16, <2>1, <2>2
<1>18. ASSUME NEW o \in OutsOf(h, tx) PROVE \E e \in coins' : e.out = o
  <2>1. fresh(o).out = o
    OBVIOUS
  <2> HIDE DEF fresh
  <2>2. fresh(o) \in coins'
    BY <1>16
  <2> QED
    BY <2>1, <2>2
<1> HIDE DEF spent, d
<1> HIDE DEF fresh
<1>19. Gave(spent, Db', TxGifts(Db, tx, h), tx, h)
  BY <1>9, <1>10
<1> QED
  BY <1>1, <1>3, <1>4, <1>5, <1>9, <1>14, <1>17, <1>18, <1>19 DEF h, S, spent

-----------------------------------------------------------------------------
(* Which tokens the gifts of a transaction are about.                       *)

Carried(tx) == UNION {EverHeld(o) : o \in ToSet(tx.ins)}

GivenTokens(S) == UNION {TokensIn(f.ranges) : f \in S}

LEMMA TokensInExpand ==
  ASSUME NEW rs \in Seq(AllRanges)
  PROVE  /\ TokensIn(rs) = ToSet(Expand(rs)) /\ Expand(rs) \in Seq(Tokens(AllGroups))
         /\ TokensIn(rs) \subseteq Tokens(AllGroups)
<1>1. /\ Expand(rs) \in Seq(Tokens(AllGroups))
      /\ ToSet(Expand(rs)) = UNION {TokensOf(r) : r \in ToSet(rs)}
  BY LedgerConstants, ExpandFacts DEF AllRanges
<1>2. PICK e : e = Expand(rs) /\ e \in Seq(Tokens(AllGroups))
  BY <1>1
<1>3. ToSet(e) \subseteq Tokens(AllGroups)
  BY <1>2 DEF ToSet
<1> QED
  BY <1>1, <1>2, <1>3 DEF TokensIn

LEMMA TokensInEmpty == TokensIn(<< >>) = {}
BY DEF TokensIn, ToSet

LEMMA InputsUnspent ==
  ASSUME TablesInv, NEW tx, Block(tx), NEW o \in ToSet(tx.ins)
  PROVE  UnspentRanges(Db, o) = RangesAt(Db, o) /\ o \in UnspentOuts
<1>1. o \in UnspentOuts
  BY TransactionFacts DEF Block, TablesInv
<1>2. PICK c \in coins : c.out = o /\ ~c.spent
  BY <1>1 DEF UnspentOuts
<1> QED
  BY <1>1, <1>2, UnspentRangesAre

(* The sequence of range sequences an explicit assignment numbers.          *)
CarriedRanges(tx) == [i \in 1..Len(TokenInputs(Db, tx)) |-> UnspentRanges(Db, TokenInputs(Db, tx)[i])]

LEMMA TokenInputsAre ==
  ASSUME TablesInv, NEW tx, Block(tx)
  PROVE  /\ \A i \in 1..Len(TokenInputs(Db, tx)) :
              /\ TokenInputs(Db, tx)[i] \in ToSet(tx.ins)
              /\ UnspentRanges(Db, TokenInputs(Db, tx)[i]) = RangesAt(Db, TokenInputs(Db, tx)[i])
              /\ RangesAt(Db, TokenInputs(Db, tx)[i]) \in Seq(AllRanges)
         /\ \A o \in ToSet(tx.ins) : EverHeld(o) # {} =>
              \E i \in 1..Len(TokenInputs(Db, tx)) : TokenInputs(Db, tx)[i] = o
         /\ Distinct(TokenInputs(Db, tx)) /\ Len(TokenInputs(Db, tx)) \in Nat
<1>1. tx \in TxTypes /\ Db \in Dbs /\ Distinct(tx.ins) /\ tx.ins \in Seq(Outpoints)
  BY TransactionFacts DEF Block, TablesInv, TablesOK, TxTypes
<1>2. PICK ins : ins = TokenInputs(Db, tx)
  OBVIOUS
<1>3. ins \in Seq(Outpoints) /\ ToSet(ins) = {o \in ToSet(tx.ins) : UnspentRanges(Db, o) # << >>}
  BY <1>1, <1>2, TokenInputsFacts
<1>4. ToSet(ins) = {ins[i] : i \in 1..Len(ins)} /\ Len(ins) \in Nat
  <2>1. DOMAIN ins = 1..Len(ins) /\ Len(ins) \in Nat
    BY <1>3
  <2> QED
    BY <2>1 DEF ToSet
<1>5. Distinct(ins)
  <2>1. ins = Keep(tx.ins, {o \in ToSet(tx.ins) : UnspentRanges(Db, o) # << >>})
    BY <1>2 DEF TokenInputs
  <2> QED
    BY <1>1, <2>1, KeepDistinct
<1>6. \A o \in ToSet(tx.ins) : EverHeld(o) # {} => UnspentRanges(Db, o) # << >>
  BY InputsUnspent, TokensInEmpty DEF EverHeld
<1>7. \A i \in 1..Len(ins) : ins[i] \in ToSet(tx.ins)
  BY <1>3, <1>4
<1>8. \A i \in 1..Len(ins) : UnspentRanges(Db, ins[i]) = RangesAt(Db, ins[i]) /\ RangesAt(Db, ins[i]) \in Seq(AllRanges)
  BY <1>1, <1>7, InputsUnspent, RangesAtType
<1>9. ASSUME NEW o \in ToSet(tx.ins), EverHeld(o) # {} PROVE \E i \in 1..Len(ins) : ins[i] = o
  <2>1. o \in ToSet(ins)
    BY <1>3, <1>6, <1>9
  <2> QED
    BY <1>4, <2>1
<1> QED
  BY <1>2, <1>4, <1>5, <1>7, <1>8, <1>9

LEMMA InputTokens ==
  ASSUME TablesInv, NEW tx, Block(tx)
  PROVE  /\ InputRanges(Db, tx) \in Seq(AllRanges)
         /\ ToSet(Expand(InputRanges(Db, tx))) = Carried(tx)
         /\ \A P : OnceIn(InputRanges(Db, tx), P) <=> OnceInParts(CarriedRanges(tx), P)
<1> DEFINE ss == CarriedRanges(tx)
           n == Len(TokenInputs(Db, tx))
<1>1. /\ n \in Nat
      /\ \A i \in 1..n : /\ TokenInputs(Db, tx)[i] \in ToSet(tx.ins)
                         /\ ss[i] = RangesAt(Db, TokenInputs(Db, tx)[i]) /\ ss[i] \in Seq(AllRanges)
      /\ \A o \in ToSet(tx.ins) : EverHeld(o) # {} => \E i \in 1..n : TokenInputs(Db, tx)[i] = o
  BY TokenInputsAre DEF CarriedRanges
<1>2. ss = [i \in 1..n |-> UnspentRanges(Db, TokenInputs(Db, tx)[i])]
  BY DEF CarriedRanges
<1>3. InputRanges(Db, tx) = FlattenSeq(ss)
  BY DEF InputRanges, CarriedRanges
<1> HIDE DEF n, ss
<1>4. ss \in Seq(Seq(AllRanges)) /\ Len(ss) = n
  BY <1>1, <1>2
<1>5. /\ FlattenSeq(ss) \in Seq(AllRanges)
      /\ ToSet(FlattenSeq(ss)) = UNION {ToSet(ss[i]) : i \in 1..Len(ss)}
      /\ \A P : OnceIn(FlattenSeq(ss), P) <=> OnceInParts(ss, P)
  BY <1>4, FlattenFacts, OnceFlatten
<1>6. TokensIn(FlattenSeq(ss)) = UNION {TokensIn(ss[i]) : i \in 1..n}
  <2>1. PICK fl : fl = FlattenSeq(ss)
    OBVIOUS
  <2>2. ToSet(fl) = UNION {ToSet(ss[i]) : i \in 1..n}
    BY <1>4, <1>5, <2>1
  <2>3. UNION {TokensOf(r) : r \in ToSet(fl)} = UNION {UNION {TokensOf(r) : r \in ToSet(ss[i])} : i \in 1..n}
    BY <2>2
  <2> QED
    BY <2>1, <2>3 DEF TokensIn
<1>7. \A i \in 1..n : TokensIn(ss[i]) = EverHeld(TokenInputs(Db, tx)[i])
  BY <1>1 DEF EverHeld
<1>8. UNION {TokensIn(ss[i]) : i \in 1..n} = Carried(tx)
  BY <1>1, <1>7 DEF Carried
<1> QED
  BY <1>3, <1>5, <1>6, <1>8, TokensInExpand DEF ss

LEMMA TransferGiftTokens ==
  ASSUME TablesInv, NEW tx, Block(tx), NEW h
  PROVE  GivenTokens(ToSet(TransferGifts(Db, tx, h))) = Carried(tx)
<1> DEFINE gs == TransferGifts(Db, tx, h)
           n == Len(TokenInputs(Db, tx))
           in(i) == TokenInputs(Db, tx)[i]
<1>1. /\ n \in Nat
      /\ \A i \in 1..n : /\ in(i) \in ToSet(tx.ins) /\ UnspentRanges(Db, in(i)) = RangesAt(Db, in(i))
                         /\ RangesAt(Db, in(i)) \in Seq(AllRanges)
      /\ \A o \in ToSet(tx.ins) : EverHeld(o) # {} => \E i \in 1..n : in(i) = o
  BY TokenInputsAre
<1>2. DOMAIN gs = 1..n /\ \A i \in 1..n : gs[i].ranges = MergeOrdered(UnspentRanges(Db, in(i)))
  BY DEF TransferGifts
<1> HIDE DEF gs, n, in
<1>3. \A i \in 1..n : TokensIn(gs[i].ranges) = EverHeld(in(i))
  <2> SUFFICES ASSUME NEW i \in 1..n PROVE TokensIn(gs[i].ranges) = EverHeld(in(i))
    OBVIOUS
  <2>1. PICK us : us = RangesAt(Db, in(i)) /\ us \in Seq(AllRanges)
    BY <1>1
  <2>2. MergeOrdered(us) \in Seq(AllRanges) /\ Expand(MergeOrdered(us)) = Expand(us)
    BY <2>1, LedgerConstants, MergeFacts DEF AllRanges
  <2>3. gs[i].ranges = MergeOrdered(us)
    BY <1>1, <1>2, <2>1
  <2>4. TokensIn(gs[i].ranges) = TokensIn(us)
    BY <2>1, <2>2, <2>3, TokensInExpand
  <2> QED
    BY <2>1, <2>4 DEF EverHeld
<1>4. ToSet(gs) = {gs[i] : i \in 1..n}
  BY <1>2 DEF ToSet
<1>5. GivenTokens(ToSet(gs)) = UNION {EverHeld(in(i)) : i \in 1..n}
  BY <1>3, <1>4 DEF GivenTokens
<1>6. UNION {EverHeld(in(i)) : i \in 1..n} = Carried(tx)
  BY <1>1 DEF Carried
<1> QED
  BY <1>5, <1>6 DEF gs

LEMMA MixGiftTokens ==
  ASSUME TablesInv, NEW tx, Block(tx), NEW h, Message(tx).cmd = "mix"
  PROVE  GivenTokens(ToSet(MixGifts(Db, tx, h))) = Carried(tx)
<1> DEFINE gs == MixGifts(Db, tx, h)
           m == Message(tx)
           n == Len(m.outs)
           rs == InputRanges(Db, tx)
<1>1. DecodedMix(m)
  BY MessageFacts, BlockFacts DEF Allowed
<1>2. rs \in Seq(AllRanges) /\ ToSet(Expand(rs)) = Carried(tx)
  BY InputTokens
<1>3. DOMAIN gs = 1..n /\ \A k \in 1..n : gs[k].ranges = Assigned(m, rs, k)
  BY DEF MixGifts
<1> HIDE DEF gs, m, n, rs
<1>4. \A k : Assigned(m, rs, k) \in Seq(AllRanges)
  BY <1>1, <1>2, LedgerConstants, AssignedByIndex DEF AllRanges
<1>5. UNION {ToSet(Expand(Assigned(m, rs, k))) : k \in 1..Len(m.outs)} = ToSet(Expand(rs))
  BY <1>1, <1>2, LedgerConstants, MixKeepsTokens DEF AllRanges
<1>6. \A k \in 1..n : TokensIn(gs[k].ranges) = ToSet(Expand(Assigned(m, rs, k)))
  BY <1>3, <1>4, TokensInExpand
<1>7. ToSet(gs) = {gs[k] : k \in 1..n}
  BY <1>3 DEF ToSet
<1>8. GivenTokens(ToSet(gs)) = UNION {ToSet(Expand(Assigned(m, rs, k))) : k \in 1..n}
  BY <1>6, <1>7 DEF GivenTokens
<1> QED
  BY <1>2, <1>5, <1>8 DEF gs, n

(* The registered tokens, in the payload's order.                           *)
RegisteredParts(tx) == [k \in 1..Len(Message(tx).groups) |-> Expand(RegisteredRanges(tx, k))]

LEMMA RegisteredTokensAre ==
  ASSUME NEW tx, Allowed(tx), Registers(tx), NEW h
  PROVE  /\ RegisteredTokens(tx) \in Seq(Tokens(AllGroups))
         /\ GivenTokens(ToSet(OwnershipGifts(tx, h))) = ToSet(RegisteredTokens(tx))
         /\ \A t \in ToSet(RegisteredTokens(tx)) : t.group = [coll |-> Message(tx).coll, base |-> Base(tx)]
         /\ \A P : OnceIn(RegisteredTokens(tx), P) <=> OnceInParts(RegisteredParts(tx), P)
         /\ Len(Message(tx).groups) \in Nat
         /\ \A k \in 1..Len(Message(tx).groups) : RegisteredRanges(tx, k) \in Seq(AllRanges)
<1> DEFINE n == Len(Message(tx).groups)
           ss == RegisteredParts(tx)
           gs == OwnershipGifts(tx, h)
           T == Tokens(AllGroups)
           id == [coll |-> Message(tx).coll, base |-> Base(tx)]
           rr(k) == RegisteredRanges(tx, k)
<1>1. /\ tx \in TxTypes /\ Message(tx).cmd = "ownership" /\ Base(tx) \in Scripts \cup {OpReturn}
      /\ Len(Message(tx).groups) < Len(tx.outs)
  BY RegistersFacts DEF Allowed
<1>2. n \in Nat
  <2>1. PICK s : s = Message(tx).groups /\ s \in Seq(Seq(SlotRangesOf))
    BY <1>1, MessageFacts
  <2> QED
    BY <2>1
<1>3. \A k \in 1..n : rr(k) \in Seq(AllRanges) /\ GroupsIn(rr(k)) \subseteq {id}
  BY <1>1, RegisteredRangesType
<1>4. ss = [k \in 1..n |-> Expand(rr(k))]
  BY DEF RegisteredParts
<1>5. DOMAIN gs = 1..n /\ \A k \in 1..n : gs[k].ranges = rr(k)
  BY DEF OwnershipGifts
<1>6. RegisteredTokens(tx) = FlattenSeq(ss)
  BY DEF RegisteredTokens, RegisteredParts
<1> HIDE DEF n, ss, gs, T, id, rr
<1>7. \A k \in 1..n : Expand(rr(k)) \in Seq(T) /\ TokensIn(rr(k)) = ToSet(Expand(rr(k)))
  BY <1>3, TokensInExpand DEF T
<1>8. ss \in Seq(Seq(T)) /\ Len(ss) = n /\ \A k \in 1..n : ss[k] = Expand(rr(k))
  BY <1>2, <1>4, <1>7
<1>9. PICK new : new = FlattenSeq(ss)
  OBVIOUS
<1>10. /\ new \in Seq(T) /\ ToSet(new) = UNION {ToSet(ss[i]) : i \in 1..n}
       /\ \A P : OnceIn(new, P) <=> OnceInParts(ss, P)
  BY <1>8, <1>9, FlattenFacts, OnceFlatten
<1>11. ToSet(new) = UNION {TokensIn(rr(k)) : k \in 1..n}
  BY <1>7, <1>8, <1>10
<1>12. ToSet(gs) = {gs[k] : k \in 1..n}
  BY <1>5 DEF ToSet
<1>13. GivenTokens(ToSet(gs)) = UNION {TokensIn(rr(k)) : k \in 1..n}
  BY <1>5, <1>12 DEF GivenTokens
<1>14. ASSUME NEW t \in ToSet(new) PROVE t.group = id
  <2>1. PICK k \in 1..n : t \in TokensIn(rr(k))
    BY <1>11
  <2>2. PICK r \in ToSet(rr(k)) : t \in TokensOf(r)
    BY <2>1 DEF TokensIn
  <2>3. r.group \in GroupsIn(rr(k))
    BY <2>2 DEF GroupsIn
  <2>4. GroupsIn(rr(k)) \subseteq {id}
    BY <1>3
  <2>5. r.group = id
    BY <2>3, <2>4
  <2> QED
    BY <2>2, <2>5 DEF TokensOf
<1> QED
  BY <1>2, <1>3, <1>6, <1>9, <1>10, <1>11, <1>13, <1>14 DEF n, ss, gs, T, id, rr

(* All a transaction gives it took from its inputs or registers, and only a *)
(* Mix it rejects loses what its inputs carried.                            *)
LEMMA TxGiftTokens ==
  ASSUME TablesInv, NEW tx, Block(tx), NEW h
  PROVE  /\ GivenTokens(Registration(tx, h)) = ToSet(RegisteredTokens(tx))
         /\ GivenTokens(TxGifts(Db, tx, h)) =
              IF Message(tx).cmd = "mix" THEN IF MixAccepted(Db, tx) THEN Carried(tx) ELSE {}
              ELSE ToSet(RegisteredTokens(tx)) \cup Carried(tx)
         /\ Message(tx).cmd = "mix" => RegisteredTokens(tx) = << >>
<1>1. GivenTokens({}) = {} /\ ToSet(<< >>) = {}
  BY DEF GivenTokens, ToSet
<1>2. GivenTokens(Registration(tx, h)) = ToSet(RegisteredTokens(tx))
  <2>1. CASE Registers(tx)
    BY <2>1, RegisteredTokensAre, BlockFacts DEF Registration
  <2>2. CASE ~Registers(tx)
    BY <1>1, <2>2 DEF Registration, RegisteredTokens
  <2> QED
    BY <2>1, <2>2
<1>3. \A S, T : GivenTokens(S \cup T) = GivenTokens(S) \cup GivenTokens(T)
  BY DEF GivenTokens
<1>4. GivenTokens(ToSet(TransferGifts(Db, tx, h))) = Carried(tx)
  BY TransferGiftTokens
<1>5. Message(tx).cmd = "mix" => GivenTokens(ToSet(MixGifts(Db, tx, h))) = Carried(tx)
  BY MixGiftTokens
<1>6. Message(tx).cmd = "mix" => RegisteredTokens(tx) = << >>
  BY DEF RegisteredTokens, Registers
<1> DEFINE S == TxGifts(Db, tx, h)
<1>7. CASE Message(tx).cmd = "mix" /\ MixAccepted(Db, tx)
  <2>1. S = ToSet(MixGifts(Db, tx, h))
    BY <1>7 DEF TxGifts
  <2> HIDE DEF S
  <2>2. GivenTokens(S) = Carried(tx)
    BY <1>5, <1>7, <2>1
  <2> QED
    BY <1>2, <1>6, <1>7, <2>2 DEF S
<1>8. CASE Message(tx).cmd = "mix" /\ ~MixAccepted(Db, tx)
  <2>1. S = {}
    BY <1>8 DEF TxGifts
  <2> HIDE DEF S
  <2> QED
    BY <1>1, <1>2, <1>6, <1>8, <2>1 DEF S
<1>9. CASE Message(tx).cmd # "mix"
  <2>1. S = Registration(tx, h) \cup ToSet(TransferGifts(Db, tx, h))
    BY <1>9 DEF TxGifts
  <2> HIDE DEF S
  <2>2. GivenTokens(S) = ToSet(RegisteredTokens(tx)) \cup Carried(tx)
    BY <1>2, <1>3, <1>4, <2>1
  <2> QED
    BY <1>2, <1>9, <2>2 DEF S
<1> QED
  BY <1>7, <1>8, <1>9

-----------------------------------------------------------------------------
(* A block keeps the invariant.                                             *)

LEMMA OutsAfter ==
  ASSUME TablesInv, NEW tx, Block(tx)
  PROVE  /\ ChainOuts' = ChainOuts \cup OutsOf(height + 1, tx)
         /\ UnspentOuts' = (UnspentOuts \ ToSet(tx.ins)) \cup OutsOf(height + 1, tx)
<1> DEFINE N == OutsOf(height + 1, tx)
           S == ToSet(tx.ins)
<1>1. /\ \A c \in coins : \E e \in coins' : CoinAfter(c, e, S)
      /\ \A e \in coins' : \/ \E c \in coins : CoinAfter(c, e, S)
                           \/ e.out \in N /\ ~e.spent
      /\ \A o \in N : \E e \in coins' : e.out = o
      /\ N \cap ChainOuts = {} /\ S \subseteq UnspentOuts
  BY BlockFacts, TransactionFacts DEF Block, TablesInv
<1>2. \A c, e \in coins : c.out = e.out => c = e
  BY DEF TablesInv, CoinsOK
<1> HIDE DEF N, S
<1>3. ChainOuts' = {e.out : e \in coins'} /\ UnspentOuts' = {e.out : e \in {e \in coins' : ~e.spent}}
  BY DEF ChainOuts, UnspentOuts
<1>4. ChainOuts' = ChainOuts \cup N
  BY <1>1, <1>3 DEF CoinAfter, ChainOuts
<1>5. \A e \in coins' : e.out \in N => ~e.spent
  BY <1>1 DEF CoinAfter, ChainOuts
<1>6. ASSUME NEW o \in UnspentOuts' PROVE o \in (UnspentOuts \ S) \cup N
  <2>1. PICK e \in coins' : e.out = o /\ ~e.spent
    BY <1>3
  <2>2. CASE \E c \in coins : CoinAfter(c, e, S)
    <3>1. PICK c \in coins : CoinAfter(c, e, S)
      BY <2>2
    <3>2. c.out = o /\ ~c.spent /\ o \notin S
      BY <2>1, <3>1 DEF CoinAfter
    <3> QED
      BY <3>2 DEF UnspentOuts
  <2> QED
    BY <1>1, <2>1, <2>2
<1>7. ASSUME NEW o \in UnspentOuts \ S PROVE o \in UnspentOuts'
  <2>1. PICK c \in coins : c.out = o /\ ~c.spent
    BY DEF UnspentOuts
  <2>2. PICK e \in coins' : CoinAfter(c, e, S)
    BY <1>1
  <2>3. e.out = o /\ ~e.spent
    BY <2>1, <2>2 DEF CoinAfter
  <2> QED
    BY <1>3, <2>3
<1>8. ASSUME NEW o \in N PROVE o \in UnspentOuts'
  BY <1>1, <1>3, <1>5
<1> QED
  BY <1>4, <1>6, <1>7, <1>8 DEF N, S

LEMMA RangesAfter ==
  ASSUME TablesInv, NEW tx, Block(tx)
  PROVE  /\ Db' \in Dbs
         /\ DOMAIN ranges' \subseteq ChainOuts'
         /\ \A o \in ChainOuts : RangesAt(Db', o) = RangesAt(Db, o)
         /\ \A o \in OutsOf(height + 1, tx) :
              ToSet(RangesAt(Db', o)) = UNION {ToSet(f.ranges) : f \in {f \in TxGifts(Db, tx, height + 1) : f.out = o}}
<1> DEFINE h == height + 1
           N == OutsOf(h, tx)
           spent == MarkSpent(Db, ToSet(tx.ins))
           S == TxGifts(Db, tx, h)
<1>1. /\ N \cap ChainOuts = {} /\ Gave(spent, Db', S, tx, h) /\ ChainOuts' = ChainOuts \cup N
      /\ DOMAIN ranges \subseteq ChainOuts /\ ChainOuts \subseteq Outpoints
  BY BlockFacts, OutsAfter DEF TablesInv, TablesOK, CoinsOK, ChainOuts
<1>2. \A o : RangesAt(spent, o) = RangesAt(Db, o)
  BY DEF MarkSpent, Db, RangesAt
<1>3. DOMAIN spent.ranges = DOMAIN ranges
  BY DEF MarkSpent, Db
<1> HIDE DEF h, N, spent, S
<1>4. Db' \in Dbs
  BY <1>1 DEF Gave, TxDbs
<1>5. DOMAIN Db'.ranges \subseteq DOMAIN ranges \cup N
  BY <1>1, <1>3 DEF Gave, N
<1>6. Db'.ranges = ranges'
  BY DEF Db
<1>7. \A o \in ChainOuts : RangesAt(Db', o) = RangesAt(Db, o)
  BY <1>1, <1>2 DEF Gave, N
<1>8. ASSUME NEW o \in N
      PROVE  ToSet(RangesAt(Db', o)) = UNION {ToSet(f.ranges) : f \in {f \in S : f.out = o}}
  <2>1. o \notin DOMAIN ranges
    BY <1>1
  <2>2. RangesAt(Db, o) = << >>
    BY <2>1 DEF RangesAt, Db
  <2>3. ToSet(RangesAt(spent, o)) = {}
    BY <1>2, <2>2 DEF ToSet
  <2>4. ToSet(RangesAt(Db', o)) = ToSet(RangesAt(spent, o)) \cup UNION {ToSet(f.ranges) : f \in {f \in S : f.out = o}}
    BY <1>1 DEF Gave, N
  <2> QED
    BY <2>3, <2>4
<1> QED
  BY <1>1, <1>4, <1>5, <1>6, <1>7, <1>8 DEF N, S, h

LEMMA HeldAfter ==
  ASSUME TablesInv, NEW tx, Block(tx)
  PROVE  /\ \A o \in ChainOuts : EverHeld(o)' = EverHeld(o)
         /\ \A o \in OutsOf(height + 1, tx) :
              EverHeld(o)' = GivenTokens({f \in TxGifts(Db, tx, height + 1) : f.out = o})
         /\ UNION {EverHeld(o)' : o \in OutsOf(height + 1, tx)} = GivenTokens(TxGifts(Db, tx, height + 1))
<1> DEFINE N == OutsOf(height + 1, tx)
           S == TxGifts(Db, tx, height + 1)
<1>1. /\ \A o \in ChainOuts : RangesAt(Db', o) = RangesAt(Db, o)
      /\ \A o \in N : ToSet(RangesAt(Db', o)) = UNION {ToSet(f.ranges) : f \in {f \in S : f.out = o}}
      /\ \A f \in S : f.out \in N
  BY RangesAfter, BlockFacts DEF Gifts
<1>2. \A o : EverHeld(o)' = TokensIn(RangesAt(Db', o))
  BY DEF EverHeld
<1> HIDE DEF N, S
<1>3. \A o \in ChainOuts : EverHeld(o)' = EverHeld(o)
  BY <1>1, <1>2 DEF EverHeld
<1>4. ASSUME NEW o \in N PROVE EverHeld(o)' = GivenTokens({f \in S : f.out = o})
  <2>1. PICK rs : rs = RangesAt(Db', o)
    OBVIOUS
  <2>2. ToSet(rs) = UNION {ToSet(f.ranges) : f \in {f \in S : f.out = o}}
    BY <1>1, <2>1
  <2>3. UNION {TokensOf(r) : r \in ToSet(rs)}
        = UNION {UNION {TokensOf(r) : r \in ToSet(f.ranges)} : f \in {f \in S : f.out = o}}
    BY <2>2
  <2> QED
    BY <1>2, <2>1, <2>3 DEF TokensIn, GivenTokens
<1>5. UNION {GivenTokens({f \in S : f.out = o}) : o \in N} = GivenTokens(S)
  BY <1>1 DEF GivenTokens
<1> DEFINE after(o) == EverHeld(o)'
<1>6. UNION {after(o) : o \in N} = GivenTokens(S)
  <2>1. \A o \in N : after(o) = GivenTokens({f \in S : f.out = o})
    BY <1>4
  <2> HIDE DEF after
  <2> QED
    BY <1>5, <2>1
<1>7. UNION {EverHeld(o)' : o \in N} = GivenTokens(S)
  BY <1>6
<1> QED
  BY <1>3, <1>4, <1>7 DEF N, S

LEMMA BlockCoins ==
  ASSUME TablesInv, NEW tx, Block(tx)
  PROVE  CoinsOK'
<1> DEFINE h == height + 1
           N == OutsOf(h, tx)
           S == ToSet(tx.ins)
           Coins == [out : Outpoints, script : Scripts \cup {OpReturn}, spent : BOOLEAN]
           fresh(o) == [out |-> o, script |-> ScriptAt(tx, o.vout), spent |-> FALSE]
           after(c) == IF c.out \in S THEN [c EXCEPT !.spent = TRUE] ELSE c
<1>1. /\ Allowed(tx) /\ h \in Nat /\ h \in 1..Len(Shapes) /\ N \cap ChainOuts = {}
      /\ \A o \in N : o \in Outpoints /\ o.height = h /\ o.vout \in 0..MaxVout
      /\ \A e \in coins' : \/ \E c \in coins : CoinAfter(c, e, S)
                           \/ e.out \in N /\ e.script = ScriptAt(tx, e.out.vout) /\ ~e.spent
  BY BlockFacts
<1>2. /\ height' = h /\ coins' = {after(c) : c \in coins} \cup {fresh(o) : o \in N}
  BY DEF Block
<1>3. /\ coins \subseteq Coins /\ \A c, e \in coins : c.out = e.out => c = e
      /\ \A c \in coins : c.out.height <= height /\ c.out.vout <= MaxVout
      /\ height \in Nat
  BY LedgerConstants DEF TablesInv, CoinsOK
<1>4. \A o \in N : ScriptAt(tx, o.vout) \in Scripts \cup {OpReturn}
  BY <1>1, OutsOfFacts DEF Allowed
<1>5. \A o \in N : fresh(o) \in Coins /\ fresh(o).out = o
  <2> HIDE DEF N
  <2> QED
    BY <1>1, <1>4
<1>6. \A c \in coins : after(c) \in Coins
  BY <1>3
<1> HIDE DEF fresh, after, h, N, S
<1>7. coins' \subseteq Coins
  BY <1>2, <1>5, <1>6
<1>8. ASSUME NEW e \in coins', NEW f \in coins', e.out = f.out PROVE e = f
  <2>1. e \in Coins /\ f \in Coins
    BY <1>7
  <2>2. e.script = f.script /\ e.spent = f.spent
    <3>1. CASE (\E c \in coins : CoinAfter(c, e, S)) /\ (\E c \in coins : CoinAfter(c, f, S))
      <4>1. PICK c \in coins : CoinAfter(c, e, S)
        BY <3>1
      <4>2. PICK d \in coins : CoinAfter(d, f, S)
        BY <3>1
      <4>3. c = d
        BY <1>3, <1>8, <4>1, <4>2 DEF CoinAfter
      <4> QED
        BY <1>8, <4>1, <4>2, <4>3 DEF CoinAfter
    <3>2. ASSUME NEW c \in coins, CoinAfter(c, e, S) PROVE f.out \notin N
      BY <1>1, <1>8, <3>2 DEF CoinAfter, ChainOuts
    <3>3. ASSUME NEW c \in coins, CoinAfter(c, f, S) PROVE e.out \notin N
      BY <1>1, <1>8, <3>3 DEF CoinAfter, ChainOuts
    <3> QED
      BY <1>1, <1>8, <2>1, <3>1, <3>2, <3>3
  <2> QED
    BY <1>8, <2>1, <2>2
<1>9. ASSUME NEW e \in coins' PROVE e.out.height <= h /\ e.out.vout <= MaxVout
  <2>1. CASE e.out \in N
    <3>1. e.out.height = h /\ e.out.vout \in 0..MaxVout
      BY <1>1, <2>1
    <3> QED
      BY <1>1, <3>1, LedgerConstants
  <2>2. CASE \E c \in coins : CoinAfter(c, e, S)
    <3>1. PICK c \in coins : c.out = e.out
      BY <2>2 DEF CoinAfter
    <3>2. e.out.height <= height /\ e.out.vout <= MaxVout /\ e.out.height \in Nat
      BY <1>3, <3>1 DEF Outpoints
    <3> QED
      BY <1>3, <3>2 DEF h
  <2> QED
    BY <1>1, <2>1, <2>2
<1>10. h \in 0..Len(Shapes)
  BY <1>1, LedgerConstants
<1> QED
  BY <1>2, <1>7, <1>8, <1>9, <1>10 DEF CoinsOK

LEMMA RowsAfter ==
  ASSUME TablesInv, NEW tx, Block(tx), NEW u \in utxos'
  PROVE  \/ \E w \in utxos : /\ u.out = w.out /\ u.group = w.group /\ u.owner = w.owner /\ u.created = w.created
                             /\ u.spent = (w.spent \/ w.out \in ToSet(tx.ins))
         \/ \E f \in TxGifts(Db, tx, height + 1) : \E g \in GroupsIn(f.ranges) :
              u = NewRow(tx, height + 1, f.out, g)
<1> DEFINE S == ToSet(tx.ins)
           spent == MarkSpent(Db, S)
<1>1. spent.utxos = {IF w.out \in S THEN [w EXCEPT !.spent = TRUE] ELSE w : w \in utxos}
  BY DEF MarkSpent, Db
<1>2. Db'.utxos = utxos' /\ Gave(spent, Db', TxGifts(Db, tx, height + 1), tx, height + 1)
  BY BlockFacts DEF Db
<1>3. utxos \subseteq RowTypes
  BY DEF TablesInv, TablesOK, Dbs, Db
<1> HIDE DEF spent, S
<1>4. utxos' = spent.utxos \cup UNION {NewRows(f, tx, height + 1) : f \in TxGifts(Db, tx, height + 1)}
  BY <1>2 DEF Gave
<1>5. CASE u \in spent.utxos
  <2>1. PICK w \in utxos : u = IF w.out \in S THEN [w EXCEPT !.spent = TRUE] ELSE w
    BY <1>1, <1>5
  <2>2. w \in RowTypes
    BY <1>3
  <2>3. /\ u.out = w.out /\ u.group = w.group /\ u.owner = w.owner /\ u.created = w.created
        /\ u.spent = (w.spent \/ w.out \in S)
    BY <2>1, <2>2 DEF RowTypes
  <2> QED
    BY <2>3 DEF S
<1>6. CASE u \in UNION {NewRows(f, tx, height + 1) : f \in TxGifts(Db, tx, height + 1)}
  BY <1>6 DEF NewRows
<1> QED
  BY <1>4, <1>5, <1>6

(* A row stays, but for its mark.                                           *)
LEMMA RowKept ==
  ASSUME TablesInv, NEW tx, Block(tx), NEW w \in utxos
  PROVE  \E u \in utxos' : u.out = w.out /\ u.group = w.group /\ u.owner = w.owner
<1> DEFINE S == ToSet(tx.ins)
           spent == MarkSpent(Db, S)
           u == IF w.out \in S THEN [w EXCEPT !.spent = TRUE] ELSE w
<1>1. spent.utxos = {IF x.out \in S THEN [x EXCEPT !.spent = TRUE] ELSE x : x \in utxos}
  BY DEF MarkSpent, Db
<1>2. Db'.utxos = utxos' /\ Gave(spent, Db', TxGifts(Db, tx, height + 1), tx, height + 1)
  BY BlockFacts DEF Db
<1>3. w \in RowTypes
  BY DEF TablesInv, TablesOK, Dbs, Db
<1>4. u.out = w.out /\ u.group = w.group /\ u.owner = w.owner
  BY <1>3 DEF RowTypes
<1>5. u \in spent.utxos
  BY <1>1
<1> HIDE DEF spent, S, u
<1>6. u \in utxos'
  BY <1>2, <1>5 DEF Gave
<1> QED
  BY <1>4, <1>6

(* The rows for the groups of an output's ranges.                           *)
LEMMA RowsOfOutput ==
  ASSUME TablesInv, NEW tx, Block(tx)
  PROVE  RowsMatchRanges'
<1> DEFINE h == height + 1
           N == OutsOf(h, tx)
           S == ToSet(tx.ins)
           spent == MarkSpent(Db, S)
           T == TxGifts(Db, tx, h)
           groups(U, o) == {u.group : u \in {u \in U : u.out = o}}
<1>1. /\ N \cap ChainOuts = {} /\ Gave(spent, Db', T, tx, h) /\ ChainOuts' = ChainOuts \cup N
      /\ \A o \in ChainOuts : RangesAt(Db', o) = RangesAt(Db, o)
      /\ \A o \in N : ToSet(RangesAt(Db', o)) = UNION {ToSet(f.ranges) : f \in {f \in T : f.out = o}}
      /\ \A f \in T : f.out \in N
  BY BlockFacts, OutsAfter, RangesAfter DEF Gifts
<1>2. spent.utxos = {IF w.out \in S THEN [w EXCEPT !.spent = TRUE] ELSE w : w \in utxos}
  BY DEF MarkSpent, Db
<1>3. utxos \subseteq RowTypes /\ \A u \in utxos : u.out \in ChainOuts
  BY DEF TablesInv, TablesOK, Dbs, Db
<1>4. \A o \in ChainOuts : groups(utxos, o) = GroupsIn(RangesAt(Db, o))
  BY DEF TablesInv, RowsMatchRanges, ChainOuts, GroupsOf, GroupsIn
<1>5. Db'.utxos = utxos'
  BY DEF Db
<1> HIDE DEF spent, S, T, N, h
<1>6. utxos' = spent.utxos \cup UNION {NewRows(f, tx, h) : f \in T}
  BY <1>1, <1>5 DEF Gave
<1>7. \A o : groups(spent.utxos, o) = groups(utxos, o)
  <2>1. \A w \in utxos : [w EXCEPT !.spent = TRUE].out = w.out /\ [w EXCEPT !.spent = TRUE].group = w.group
    BY <1>3 DEF RowTypes
  <2> DEFINE marked(w) == IF w.out \in S THEN [w EXCEPT !.spent = TRUE] ELSE w
  <2>2. \A w \in utxos : marked(w).out = w.out /\ marked(w).group = w.group
    BY <2>1
  <2>3. spent.utxos = {marked(w) : w \in utxos}
    BY <1>2
  <2> HIDE DEF marked
  <2> QED
    BY <2>2, <2>3
<1>8. \A f \in T : \A u \in NewRows(f, tx, h) : u.out = f.out
  BY DEF NewRows, NewRow
<1>9. ASSUME NEW f \in T PROVE {u.group : u \in NewRows(f, tx, h)} = GroupsIn(f.ranges)
  <2> DEFINE row(g) == NewRow(tx, h, f.out, g)
  <2>1. \A g : row(g).group = g
    BY DEF NewRow
  <2>2. NewRows(f, tx, h) = {row(g) : g \in GroupsIn(f.ranges)}
    BY DEF NewRows
  <2> HIDE DEF row
  <2> QED
    BY <2>1, <2>2
<1>10. ASSUME NEW o \in ChainOuts PROVE groups(utxos', o) = GroupsIn(RangesAt(Db', o))
  <2>1. \A u \in UNION {NewRows(f, tx, h) : f \in T} : u.out # o
    BY <1>1, <1>8
  <2>2. groups(utxos', o) = groups(spent.utxos, o)
    BY <1>6, <2>1
  <2> QED
    BY <1>1, <1>4, <1>7, <2>2
<1>11. ASSUME NEW o \in N PROVE groups(utxos', o) = GroupsIn(RangesAt(Db', o))
  <2>1. groups(spent.utxos, o) = {}
    <3>1. groups(utxos, o) = {}
      BY <1>1, <1>3
    <3> QED
      BY <1>7, <3>1
  <2>2. groups(utxos', o) = UNION {GroupsIn(f.ranges) : f \in {f \in T : f.out = o}}
    <3>1. groups(utxos', o) = groups(spent.utxos, o) \cup groups(UNION {NewRows(f, tx, h) : f \in T}, o)
      BY <1>6
    <3>2. groups(UNION {NewRows(f, tx, h) : f \in T}, o)
          = UNION {{u.group : u \in NewRows(f, tx, h)} : f \in {f \in T : f.out = o}}
      BY <1>8
    <3> HIDE DEF groups
    <3> QED
      BY <1>9, <2>1, <3>1, <3>2
  <2>3. PICK rs : rs = RangesAt(Db', o)
    OBVIOUS
  <2>4. ToSet(rs) = UNION {ToSet(f.ranges) : f \in {f \in T : f.out = o}}
    BY <1>1, <2>3
  <2>5. GroupsIn(rs) = UNION {GroupsIn(f.ranges) : f \in {f \in T : f.out = o}}
    BY <2>4 DEF GroupsIn
  <2> QED
    BY <2>2, <2>3, <2>5
<1>12. \A o \in ChainOuts' : groups(utxos', o) = GroupsIn(RangesAt(Db', o))
  <2> HIDE DEF groups
  <2> QED
    BY <1>1, <1>10, <1>11
<1> QED
  BY <1>12 DEF RowsMatchRanges, ChainOuts, GroupsOf, GroupsIn

LEMMA BlockOwners ==
  ASSUME TablesInv, NEW tx, Block(tx)
  PROVE  OwnerIsOutput'
<1> DEFINE h == height + 1
           S == ToSet(tx.ins)
           T == TxGifts(Db, tx, h)
           owner(u, c) == IF u.out.vout = 0 /\ c.script = OpReturn THEN NoOwner ELSE c.script
<1>1. /\ \A c \in coins : \E e \in coins' : CoinAfter(c, e, S)
      /\ \A e \in coins' :
           \/ \E c \in coins : CoinAfter(c, e, S)
           \/ e.out \in OutsOf(h, tx) /\ e.script = ScriptAt(tx, e.out.vout) /\ ~e.spent
      /\ \A o \in OutsOf(h, tx) : \E e \in coins' : e.out = o
      /\ T \subseteq Gifts(tx, h) /\ OutsOf(h, tx) \cap ChainOuts = {}
  BY BlockFacts
<1>2. ASSUME NEW u \in utxos'
      PROVE  \E c \in coins' : c.out = u.out /\ c.spent = u.spent /\ u.owner = owner(u, c)
  <2>1. CASE \E w \in utxos : /\ u.out = w.out /\ u.owner = w.owner
                              /\ u.spent = (w.spent \/ w.out \in S)
    <3>1. PICK w \in utxos : u.out = w.out /\ u.owner = w.owner /\ u.spent = (w.spent \/ w.out \in S)
      BY <2>1
    <3>2. PICK c \in coins : c.out = w.out /\ c.spent = w.spent /\ w.owner = owner(w, c)
      BY DEF TablesInv, OwnerIsOutput
    <3>3. PICK e \in coins' : CoinAfter(c, e, S)
      BY <1>1
    <3> HIDE DEF S
    <3>4. e.out = c.out /\ e.script = c.script /\ e.spent = (c.spent \/ c.out \in S)
      BY <3>3 DEF CoinAfter
    <3>5. e.out = u.out /\ e.spent = u.spent
      BY <3>1, <3>2, <3>4
    <3>6. owner(u, e) = owner(w, c)
      BY <3>1, <3>4
    <3> HIDE DEF owner
    <3> QED
      BY <3>1, <3>2, <3>5, <3>6
  <2>2. CASE \E f \in T : \E g \in GroupsIn(f.ranges) : u = NewRow(tx, h, f.out, g)
    <3>1. PICK f \in T : \E g \in GroupsIn(f.ranges) : u = NewRow(tx, h, f.out, g)
      BY <2>2
    <3>2. f.out \in OutsOf(h, tx)
      BY <1>1 DEF Gifts
    <3>3. u.out = f.out /\ u.owner = OwnerOf(tx, f.out) /\ u.spent = FALSE
      BY <3>1 DEF NewRow
    <3>4. PICK e \in coins' : e.out = f.out
      BY <1>1, <3>2
    <3>5. e.script = ScriptAt(tx, e.out.vout) /\ e.spent = FALSE
      <4>1. ~ \E c \in coins : CoinAfter(c, e, S)
        BY <1>1, <3>2, <3>4 DEF CoinAfter, ChainOuts
      <4>2. e.script = ScriptAt(tx, e.out.vout) /\ ~e.spent
        BY <1>1, <4>1
      <4>3. e.spent \in BOOLEAN
        BY BlockCoins DEF CoinsOK
      <4> QED
        BY <4>2, <4>3
    <3>6. u.owner = owner(u, e)
      BY <3>3, <3>4, <3>5 DEF OwnerOf
    <3> QED
      BY <3>3, <3>4, <3>5, <3>6
  <2>3. \/ \E w \in utxos : /\ u.out = w.out /\ u.group = w.group /\ u.owner = w.owner /\ u.created = w.created
                            /\ u.spent = (w.spent \/ w.out \in S)
        \/ \E f \in T : \E g \in GroupsIn(f.ranges) : u = NewRow(tx, h, f.out, g)
    BY RowsAfter
  <2> HIDE DEF owner, T, S, h
  <2> QED
    BY <2>1, <2>2, <2>3
<1> QED
  BY <1>2 DEF OwnerIsOutput

LEMMA CarriedMinted ==
  ASSUME TablesInv, MintedOK, NEW tx, Block(tx)
  PROVE  Carried(tx) \subseteq minted
<1>1. ToSet(tx.ins) \subseteq ChainOuts
  BY TransactionFacts DEF Block, TablesInv, UnspentOuts, ChainOuts
<1> QED
  BY <1>1 DEF Carried, MintedOK

LEMMA NewTokens ==
  ASSUME TablesInv, NEW tx, Block(tx), NEW t \in ToSet(RegisteredTokens(tx))
  PROVE  t \in Tokens(AllGroups) /\ t.group.coll \in collections /\ t.group.base = Base(tx) /\ Registers(tx)
<1>1. Registers(tx)
  <2>1. ~Registers(tx) => RegisteredTokens(tx) = << >>
    BY DEF RegisteredTokens
  <2>2. ToSet(<< >>) = {}
    BY DEF ToSet
  <2> QED
    BY <2>1, <2>2
<1>2. Allowed(tx)
  BY BlockFacts
<1>3. Message(tx).coll \in collections
  BY <1>1 DEF Registers
<1>4. t.group = [coll |-> Message(tx).coll, base |-> Base(tx)]
  BY <1>1, <1>2, RegisteredTokensAre
<1>5. t \in Tokens(AllGroups)
  <2>1. PICK s : s = RegisteredTokens(tx) /\ s \in Seq(Tokens(AllGroups))
    BY <1>1, <1>2, RegisteredTokensAre
  <2> QED
    BY <2>1 DEF ToSet
<1> QED
  BY <1>1, <1>3, <1>4, <1>5

LEMMA GivenAre ==
  ASSUME TablesInv, MintedOK, NEW tx, Block(tx), NEW t \in GivenTokens(TxGifts(Db, tx, height + 1))
  PROVE  /\ t \in Carried(tx) \cup ToSet(RegisteredTokens(tx))
         /\ t.group.coll \in collections
<1>1. t \in Carried(tx) \cup ToSet(RegisteredTokens(tx))
  <2>1. GivenTokens(TxGifts(Db, tx, height + 1)) \subseteq Carried(tx) \cup ToSet(RegisteredTokens(tx))
    <3>1. PICK h : h = height + 1
      OBVIOUS
    <3>2. GivenTokens(TxGifts(Db, tx, h)) =
              IF Message(tx).cmd = "mix" THEN IF MixAccepted(Db, tx) THEN Carried(tx) ELSE {}
              ELSE ToSet(RegisteredTokens(tx)) \cup Carried(tx)
      BY TxGiftTokens
    <3> QED
      BY <3>1, <3>2
  <2> QED
    BY <2>1
<1> QED
  BY <1>1, CarriedMinted, NewTokens DEF MintedOK

LEMMA BlockTables ==
  ASSUME TablesInv, MintedOK, NEW tx, Block(tx)
  PROVE  TablesOK'
<1> DEFINE h == height + 1
           T == TxGifts(Db, tx, h)
<1>1. /\ Db' \in Dbs /\ DOMAIN ranges' \subseteq ChainOuts' /\ ChainOuts' = ChainOuts \cup OutsOf(h, tx)
      /\ h \in Nat /\ height \in Nat /\ T \subseteq Gifts(tx, h) /\ height' = h
      /\ \A o \in OutsOf(h, tx) : o.height = h
  <2>1. Db' \in Dbs /\ DOMAIN ranges' \subseteq ChainOuts' /\ ChainOuts' = ChainOuts \cup OutsOf(h, tx)
    BY RangesAfter, OutsAfter
  <2>2. h \in Nat /\ T \subseteq Gifts(tx, h) /\ \A o \in OutsOf(h, tx) : o.height = h
    BY BlockFacts
  <2>3. height' = h
    BY DEF Block
  <2>4. height \in Nat
    BY LedgerConstants DEF TablesInv, CoinsOK
  <2> QED
    BY <2>1, <2>2, <2>3, <2>4
<1>2. collections \subseteq collections' /\ collections' \subseteq collections \cup {h}
  BY DEF Block, DigestCollection
<1>3. /\ collections \subseteq 1..height
      /\ \A u \in utxos : /\ u.out \in ChainOuts /\ u.group.coll \in collections
                          /\ u.created = u.out.height /\ u.created > 0
  BY DEF TablesInv, TablesOK
<1>4. collections' \subseteq 1..height'
  BY <1>1, <1>2, <1>3
<1> HIDE DEF h, T
<1>5. ASSUME NEW f \in T, NEW g \in GroupsIn(f.ranges) PROVE g.coll \in collections
  <2>1. f.ranges \in Seq(AllRanges)
    BY <1>1 DEF Gifts
  <2>2. PICK r \in ToSet(f.ranges) : r.group = g
    BY DEF GroupsIn
  <2>3. r \in AllRanges
    <3>1. PICK s : s = f.ranges /\ s \in Seq(AllRanges)
      BY <2>1
    <3>2. r \in ToSet(s)
      BY <3>1
    <3> QED
      BY <3>1, <3>2 DEF ToSet
  <2>4. r.lo \in r.lo..r.hi
    BY <2>3, LedgerConstants DEF AllRanges, RangesOver
  <2>5. PICK t \in TokensOf(r) : t.group = g
    <3>1. [group |-> r.group, slot |-> r.lo] \in TokensOf(r)
      BY <2>4 DEF TokensOf
    <3>2. [group |-> r.group, slot |-> r.lo].group = g
      BY <2>2
    <3> QED
      BY <3>1, <3>2
  <2>6. t \in GivenTokens(T)
    BY <2>2 DEF GivenTokens, TokensIn
  <2>7. t.group.coll \in collections
    BY <2>6, GivenAre DEF T, h
  <2> QED
    BY <2>5, <2>7
<1>6. ASSUME NEW u \in utxos'
      PROVE  /\ u.out \in ChainOuts' /\ u.group.coll \in collections'
             /\ u.created = u.out.height /\ u.created > 0
  <2>1. CASE \E w \in utxos : u.out = w.out /\ u.group = w.group /\ u.created = w.created
    BY <1>1, <1>2, <1>3, <2>1
  <2>2. CASE \E f \in T : \E g \in GroupsIn(f.ranges) : u = NewRow(tx, h, f.out, g)
    <3>1. PICK f \in T : \E g \in GroupsIn(f.ranges) : u = NewRow(tx, h, f.out, g)
      BY <2>2
    <3>2. PICK g \in GroupsIn(f.ranges) : u = NewRow(tx, h, f.out, g)
      BY <3>1
    <3>3. u.out = f.out /\ u.group = g /\ u.created = h /\ f.out \in OutsOf(h, tx)
      BY <1>1, <3>2 DEF NewRow, Gifts
    <3>4. h > 0
      BY <1>1 DEF h
    <3> QED
      BY <1>1, <1>2, <1>5, <3>3, <3>4
  <2> QED
    BY <2>1, <2>2, RowsAfter DEF T, h
<1> QED
  BY <1>1, <1>4, <1>6 DEF TablesOK

LEMMA BlockMinted ==
  ASSUME TablesInv, MintedOK, NEW tx, Block(tx)
  PROVE  MintedOK'
<1> DEFINE h == height + 1
           N == OutsOf(h, tx)
           new == ToSet(RegisteredTokens(tx))
           after(o) == EverHeld(o)'
<1>1. minted' = minted \cup new /\ collections \subseteq collections' /\ ChainOuts' = ChainOuts \cup N
  BY OutsAfter DEF Block, DigestCollection
<1>2. \A t \in new : t \in Tokens(AllGroups) /\ t.group.coll \in collections
  BY NewTokens
<1>3. \A t \in GivenTokens(TxGifts(Db, tx, h)) : t \in minted \cup new
  BY GivenAre, CarriedMinted
<1>4. UNION {after(o) : o \in N} = GivenTokens(TxGifts(Db, tx, h))
  BY HeldAfter
<1>5. \A o \in ChainOuts : after(o) \subseteq minted
  <2>1. \A o \in ChainOuts : after(o) = EverHeld(o)
    BY HeldAfter
  <2> HIDE DEF after
  <2> QED
    BY <2>1 DEF MintedOK
<1>6. \A o \in ChainOuts' : after(o) \subseteq minted'
  <2> HIDE DEF after, N, new, h
  <2> QED
    BY <1>1, <1>3, <1>4, <1>5
<1>7. minted' \subseteq Tokens(AllGroups) /\ \A t \in minted' : t.group.coll \in collections'
  BY <1>1, <1>2 DEF MintedOK
<1> QED
  BY <1>6, <1>7 DEF MintedOK

-----------------------------------------------------------------------------
(* A token placed once is given once.                                       *)

Ranges1(t) == WithToken(AllGroups, MaxSlot, t)

LEMMA RangeOnce ==
  ASSUME NEW rs \in Seq(AllRanges), NEW t
  PROVE  /\ OnceIn(Expand(rs), {t}) <=> OnceIn(rs, Ranges1(t))
         /\ OnceIn(rs, Ranges1(t)) =>
              \A r, q \in ToSet(rs) : t \in TokensOf(r) /\ t \in TokensOf(q) => r = q
<1>1. OnceIn(Expand(rs), {t}) <=> OnceIn(rs, Ranges1(t))
  BY LedgerConstants, OnceExpand DEF AllRanges, Ranges1
<1>2. ASSUME OnceIn(rs, Ranges1(t)), NEW r \in ToSet(rs), NEW q \in ToSet(rs),
             t \in TokensOf(r), t \in TokensOf(q)
      PROVE  r = q
  <2>1. DOMAIN rs = 1..Len(rs) /\ \A i \in 1..Len(rs) : rs[i] \in AllRanges
    OBVIOUS
  <2>2. PICK i \in 1..Len(rs) : r = rs[i]
    BY <2>1 DEF ToSet
  <2>3. PICK j \in 1..Len(rs) : q = rs[j]
    BY <2>1 DEF ToSet
  <2>4. rs[i] \in Ranges1(t) /\ rs[j] \in Ranges1(t)
    BY <1>2, <2>1, <2>2, <2>3 DEF Ranges1, WithToken, AllRanges
  <2>5. i = j
    BY <1>2, <2>4 DEF OnceIn
  <2> QED
    BY <2>2, <2>3, <2>5
<1> QED
  BY <1>1, <1>2

LEMMA PlacedOnceAt ==
  ASSUME TablesInv, PlacedOnce, NEW t \in minted \ reminted, NEW o \in UnspentOuts
  PROVE  OnceIn(RangesAt(Db, o), Ranges1(t))
<1>1. PICK s : s = RangesAt(Db, o)
  OBVIOUS
<1>2. s \in Seq(AllRanges) /\ Distinct(s)
  BY <1>1, RangesAtType DEF TablesInv, TablesOK
<1>3. DOMAIN s = 1..Len(s)
  BY <1>2
<1>4. \A a \in 1..Len(s) : s[a] \in ToSet(RangesAt(Db, o))
  BY <1>1, <1>3 DEF ToSet
<1>5. \A a, b \in 1..Len(s) : s[a] \in Ranges1(t) /\ s[b] \in Ranges1(t) => s[a] = s[b]
  BY <1>4 DEF Ranges1, WithToken, PlacedOnce
<1> QED
  BY <1>1, <1>2, <1>5 DEF OnceIn, Distinct

(* The carried ranges hold a token placed once in one input, once there.    *)
LEMMA CarriedOnce ==
  ASSUME TablesInv, PlacedOnce, NEW tx, Block(tx), NEW t \in minted \ reminted
  PROVE  /\ OnceInParts(CarriedRanges(tx), Ranges1(t))
         /\ \A i \in 1..Len(TokenInputs(Db, tx)) : OnceIn(RangesAt(Db, TokenInputs(Db, tx)[i]), Ranges1(t))
         /\ \A i, j \in 1..Len(TokenInputs(Db, tx)) :
              t \in EverHeld(TokenInputs(Db, tx)[i]) /\ t \in EverHeld(TokenInputs(Db, tx)[j]) => i = j
<1> DEFINE n == Len(TokenInputs(Db, tx))
           in == TokenInputs(Db, tx)
           at(i) == RangesAt(Db, in[i])
<1>1. /\ n \in Nat /\ Distinct(in) /\ n = Len(in)
      /\ \A i \in 1..n : /\ in[i] \in UnspentOuts /\ UnspentRanges(Db, in[i]) = at(i)
                         /\ at(i) \in Seq(AllRanges) /\ Distinct(at(i))
  BY TokenInputsAre, InputsUnspent, RangesAtType DEF TablesInv, TablesOK
<1>2. Len(CarriedRanges(tx)) = n /\ \A i \in 1..n : CarriedRanges(tx)[i] = at(i)
  BY <1>1 DEF CarriedRanges
<1> HIDE DEF n, in
<1>3. ASSUME NEW i \in 1..n, NEW j \in 1..n, NEW r \in ToSet(at(i)), NEW q \in ToSet(at(j)),
             t \in TokensOf(r), t \in TokensOf(q)
      PROVE  i = j /\ r = q
  <2>1. in[i] = in[j] /\ r = q
    BY <1>1, <1>3 DEF PlacedOnce
  <2> QED
    BY <1>1, <2>1 DEF Distinct
<1>4. \A i \in 1..n : OnceIn(at(i), Ranges1(t))
  BY <1>1, PlacedOnceAt
<1>5. ASSUME NEW i \in 1..n, NEW j \in 1..n, Meets(at(i), Ranges1(t)), Meets(at(j), Ranges1(t))
      PROVE  i = j
  BY <1>3, <1>5 DEF Meets, Ranges1, WithToken
<1>6. ASSUME NEW i \in 1..n, NEW j \in 1..n, t \in EverHeld(in[i]), t \in EverHeld(in[j])
      PROVE  i = j
  BY <1>3, <1>6 DEF EverHeld, TokensIn
<1> QED
  BY <1>2, <1>4, <1>5, <1>6 DEF OnceInParts, n, in

GivesTokenOnce(S, t) ==
  \A f, g \in S : \A r \in ToSet(f.ranges), q \in ToSet(g.ranges) :
    t \in TokensOf(r) /\ t \in TokensOf(q) => f = g /\ r = q

LEMMA TransferGivesOnce ==
  ASSUME TablesInv, PlacedOnce, NEW tx, Block(tx), NEW t \in minted \ reminted, NEW h
  PROVE  GivesTokenOnce(ToSet(TransferGifts(Db, tx, h)), t)
<1> DEFINE gs == TransferGifts(Db, tx, h)
           n == Len(TokenInputs(Db, tx))
           in == TokenInputs(Db, tx)
           at(i) == RangesAt(Db, in[i])
<1>1. /\ n \in Nat
      /\ \A i \in 1..n : UnspentRanges(Db, in[i]) = at(i) /\ at(i) \in Seq(AllRanges)
      /\ \A i \in 1..n : OnceIn(at(i), Ranges1(t))
      /\ \A i, j \in 1..n : t \in EverHeld(in[i]) /\ t \in EverHeld(in[j]) => i = j
  BY TokenInputsAre, CarriedOnce
<1>2. DOMAIN gs = 1..n /\ \A i \in 1..n : gs[i].ranges = MergeOrdered(UnspentRanges(Db, in[i]))
  BY DEF TransferGifts
<1>3. \A i \in 1..n : EverHeld(in[i]) = TokensIn(at(i))
  BY DEF EverHeld
<1> HIDE DEF gs, n, in, at
<1>4. \A i \in 1..n : gs[i].ranges = MergeOrdered(at(i))
  BY <1>1, <1>2
<1>5. ASSUME NEW i \in 1..n
      PROVE  /\ MergeOrdered(at(i)) \in Seq(AllRanges) /\ TokensIn(MergeOrdered(at(i))) = TokensIn(at(i))
             /\ OnceIn(MergeOrdered(at(i)), Ranges1(t))
  <2>1. PICK us : us = at(i) /\ us \in Seq(AllRanges) /\ OnceIn(us, Ranges1(t))
    BY <1>1
  <2>2. PICK vs : vs = MergeOrdered(us)
    OBVIOUS
  <2>3. vs \in Seq(AllRanges) /\ Expand(vs) = Expand(us)
    BY <2>1, <2>2, LedgerConstants, MergeFacts DEF AllRanges
  <2>4. TokensIn(vs) = TokensIn(us)
    BY <2>1, <2>3, TokensInExpand
  <2>5. OnceIn(vs, Ranges1(t))
    BY <2>1, <2>3, RangeOnce
  <2> QED
    BY <2>1, <2>2, <2>3, <2>4, <2>5
<1>6. ASSUME NEW i \in 1..n, NEW j \in 1..n, NEW r \in ToSet(gs[i].ranges), NEW q \in ToSet(gs[j].ranges),
             t \in TokensOf(r), t \in TokensOf(q)
      PROVE  i = j /\ r = q
  <2>1. t \in TokensIn(gs[i].ranges) /\ t \in TokensIn(gs[j].ranges)
    BY <1>6 DEF TokensIn
  <2>2. t \in EverHeld(in[i]) /\ t \in EverHeld(in[j])
    BY <1>3, <1>4, <1>5, <2>1
  <2>3. i = j
    BY <1>1, <2>2
  <2>4. PICK vs : vs = MergeOrdered(at(i)) /\ vs \in Seq(AllRanges) /\ OnceIn(vs, Ranges1(t))
    BY <1>5
  <2>5. r \in ToSet(vs) /\ q \in ToSet(vs)
    BY <1>4, <1>6, <2>3, <2>4
  <2> QED
    BY <1>6, <2>3, <2>4, <2>5, RangeOnce
<1>7. ToSet(gs) = {gs[i] : i \in 1..n}
  BY <1>2 DEF ToSet
<1>8. GivesTokenOnce(ToSet(gs), t)
  <2> SUFFICES ASSUME NEW f \in ToSet(gs), NEW g \in ToSet(gs), NEW r \in ToSet(f.ranges),
                      NEW q \in ToSet(g.ranges), t \in TokensOf(r), t \in TokensOf(q)
               PROVE  f = g /\ r = q
    BY DEF GivesTokenOnce
  <2>1. PICK i \in 1..n : f = gs[i]
    BY <1>7
  <2>2. PICK j \in 1..n : g = gs[j]
    BY <1>7
  <2>3. i = j /\ r = q
    BY <1>6, <2>1, <2>2
  <2> QED
    BY <2>1, <2>2, <2>3
<1> QED
  BY <1>8 DEF gs

LEMMA MixGivesOnce ==
  ASSUME TablesInv, PlacedOnce, NEW tx, Block(tx), NEW t \in minted \ reminted, NEW h,
         Message(tx).cmd = "mix"
  PROVE  GivesTokenOnce(ToSet(MixGifts(Db, tx, h)), t)
<1> DEFINE gs == MixGifts(Db, tx, h)
           m == Message(tx)
           n == Len(m.outs)
           rs == InputRanges(Db, tx)
           given(k) == Assigned(m, rs, k)
<1>1. DecodedMix(m)
  BY MessageFacts, BlockFacts DEF Allowed
<1>2. rs \in Seq(AllRanges) /\ OnceIn(rs, Ranges1(t))
  BY InputTokens, CarriedOnce
<1>3. DOMAIN gs = 1..n /\ \A k \in 1..n : gs[k].ranges = given(k)
  BY DEF MixGifts
<1> HIDE DEF gs, m, n, rs
<1>4. OnceIn(Expand(rs), {t})
  BY <1>2, RangeOnce
<1>5. \A k : given(k) \in Seq(AllRanges)
  BY <1>1, <1>2, LedgerConstants, AssignedByIndex DEF AllRanges
<1>6. /\ \A k \in 1..n : OnceIn(Expand(given(k)), {t})
      /\ \A j, k \in 1..n : t \in ToSet(Expand(given(j))) /\ t \in ToSet(Expand(given(k))) => j = k
  <2>1. AssignsOnce(m, rs, t)
    BY <1>1, <1>2, <1>4, LedgerConstants, MixKeepsTokens DEF AllRanges
  <2> QED
    BY <2>1 DEF AssignsOnce, n
<1> HIDE DEF given
<1>7. ASSUME NEW i \in 1..n, NEW j \in 1..n, NEW r \in ToSet(gs[i].ranges), NEW q \in ToSet(gs[j].ranges),
             t \in TokensOf(r), t \in TokensOf(q)
      PROVE  i = j /\ r = q
  <2>1. t \in TokensIn(given(i)) /\ t \in TokensIn(given(j))
    BY <1>3, <1>7 DEF TokensIn
  <2>2. i = j
    BY <1>5, <1>6, <2>1, TokensInExpand
  <2>3. PICK vs : vs = given(i) /\ vs \in Seq(AllRanges) /\ OnceIn(Expand(vs), {t})
    BY <1>5, <1>6
  <2>4. r \in ToSet(vs) /\ q \in ToSet(vs)
    BY <1>3, <1>7, <2>2, <2>3
  <2> QED
    BY <1>7, <2>2, <2>3, <2>4, RangeOnce
<1>8. ToSet(gs) = {gs[i] : i \in 1..n}
  BY <1>3 DEF ToSet
<1>9. GivesTokenOnce(ToSet(gs), t)
  <2> SUFFICES ASSUME NEW f \in ToSet(gs), NEW g \in ToSet(gs), NEW r \in ToSet(f.ranges),
                      NEW q \in ToSet(g.ranges), t \in TokensOf(r), t \in TokensOf(q)
               PROVE  f = g /\ r = q
    BY DEF GivesTokenOnce
  <2>1. PICK i \in 1..n : f = gs[i]
    BY <1>8
  <2>2. PICK j \in 1..n : g = gs[j]
    BY <1>8
  <2>3. i = j /\ r = q
    BY <1>7, <2>1, <2>2
  <2> QED
    BY <2>1, <2>2, <2>3
<1> QED
  BY <1>9 DEF gs

LEMMA RegistrationGivesOnce ==
  ASSUME TablesInv, NEW tx, Block(tx), NEW t, t \notin Twice(RegisteredTokens(tx)), NEW h, Registers(tx)
  PROVE  GivesTokenOnce(ToSet(OwnershipGifts(tx, h)), t)
<1> DEFINE gs == OwnershipGifts(tx, h)
           n == Len(Message(tx).groups)
           ss == RegisteredParts(tx)
           rr(k) == RegisteredRanges(tx, k)
           new == RegisteredTokens(tx)
<1>1. /\ new \in Seq(Tokens(AllGroups)) /\ n \in Nat
      /\ OnceIn(new, {t}) <=> OnceInParts(ss, {t})
      /\ \A k \in 1..n : rr(k) \in Seq(AllRanges)
  BY BlockFacts, RegisteredTokensAre
<1>2. DOMAIN gs = 1..n /\ \A k \in 1..n : gs[k].ranges = rr(k)
  BY DEF OwnershipGifts
<1>3. Len(ss) = n /\ \A k \in 1..n : ss[k] = Expand(rr(k))
  BY <1>1 DEF RegisteredParts
<1> HIDE DEF gs, n, ss, rr, new
<1>4. OnceIn(new, {t})
  <2>1. Len(new) \in Nat
    BY <1>1
  <2>2. \A i \in 1..Len(new) : \A j \in 1..i - 1 : ~(new[i] = t /\ new[j] = t)
    BY DEF Twice, new
  <2>3. ASSUME NEW i \in 1..Len(new), NEW j \in 1..Len(new), new[i] = t, new[j] = t PROVE i = j
    <3>1. i < j => i \in 1..j - 1
      BY <2>1
    <3>2. j < i => j \in 1..i - 1
      BY <2>1
    <3>3. ~(i < j) /\ ~(j < i)
      BY <2>2, <2>3, <3>1, <3>2
    <3> QED
      BY <2>1, <3>3
  <2> QED
    BY <2>3 DEF OnceIn
<1>5. /\ \A k \in 1..n : OnceIn(Expand(rr(k)), {t})
      /\ \A j, k \in 1..n : Meets(Expand(rr(j)), {t}) /\ Meets(Expand(rr(k)), {t}) => j = k
  BY <1>1, <1>3, <1>4 DEF OnceInParts
<1>6. ASSUME NEW i \in 1..n, NEW j \in 1..n, NEW r \in ToSet(gs[i].ranges), NEW q \in ToSet(gs[j].ranges),
             t \in TokensOf(r), t \in TokensOf(q)
      PROVE  i = j /\ r = q
  <2>1. t \in TokensIn(rr(i)) /\ t \in TokensIn(rr(j))
    BY <1>2, <1>6 DEF TokensIn
  <2>2. t \in ToSet(Expand(rr(i))) /\ t \in ToSet(Expand(rr(j)))
    BY <1>1, <2>1, TokensInExpand
  <2>3. i = j
    BY <1>5, <2>2 DEF Meets
  <2>4. PICK vs : vs = rr(i) /\ vs \in Seq(AllRanges) /\ OnceIn(Expand(vs), {t})
    BY <1>1, <1>5
  <2>5. r \in ToSet(vs) /\ q \in ToSet(vs)
    BY <1>2, <1>6, <2>3, <2>4
  <2> QED
    BY <1>6, <2>3, <2>4, <2>5, RangeOnce
<1>7. ToSet(gs) = {gs[i] : i \in 1..n}
  BY <1>2 DEF ToSet
<1>8. GivesTokenOnce(ToSet(gs), t)
  <2> SUFFICES ASSUME NEW f \in ToSet(gs), NEW g \in ToSet(gs), NEW r \in ToSet(f.ranges),
                      NEW q \in ToSet(g.ranges), t \in TokensOf(r), t \in TokensOf(q)
               PROVE  f = g /\ r = q
    BY DEF GivesTokenOnce
  <2>1. PICK i \in 1..n : f = gs[i]
    BY <1>7
  <2>2. PICK j \in 1..n : g = gs[j]
    BY <1>7
  <2>3. i = j /\ r = q
    BY <1>6, <2>1, <2>2
  <2> QED
    BY <2>1, <2>2, <2>3
<1> QED
  BY <1>8 DEF gs

(* A token still registered once, after the block, the block gives once.    *)
LEMMA BlockGivesOnce ==
  ASSUME TablesInv, MintedOK, PlacedOnce, NEW tx, Block(tx), NEW t \in minted' \ reminted', NEW h
  PROVE  GivesTokenOnce(TxGifts(Db, tx, h), t)
<1> DEFINE new == RegisteredTokens(tx)
           Reg == Registration(tx, h)
           Tra == ToSet(TransferGifts(Db, tx, h))
           Mix == ToSet(MixGifts(Db, tx, h))
<1>1. /\ t \in minted \cup ToSet(new) /\ t \notin reminted /\ t \notin Twice(new)
      /\ ~(t \in ToSet(new) /\ t \in minted)
  BY DEF Block
<1>2. \A S : \A f \in S : \A r \in ToSet(f.ranges) : t \in TokensOf(r) => t \in GivenTokens(S)
  BY DEF GivenTokens, TokensIn
<1>3. GivenTokens(Reg) = ToSet(new) /\ GivenTokens(Tra) = Carried(tx) /\ Carried(tx) \subseteq minted
  BY TxGiftTokens, TransferGiftTokens, CarriedMinted
<1>4. Message(tx).cmd = "mix" => GivenTokens(Mix) = Carried(tx)
  BY MixGiftTokens
<1>5. GivesTokenOnce({}, t)
  BY DEF GivesTokenOnce
<1>6. t \in minted => GivesTokenOnce(Tra, t)
  BY <1>1, TransferGivesOnce
<1>7. t \in minted /\ Message(tx).cmd = "mix" => GivesTokenOnce(Mix, t)
  BY <1>1, MixGivesOnce
<1>8. GivesTokenOnce(Reg, t)
  BY <1>1, <1>5, RegistrationGivesOnce DEF Registration
<1> HIDE DEF new, Reg, Tra, Mix
<1>9. \A S : t \notin GivenTokens(S) => GivesTokenOnce(S, t)
  BY <1>2 DEF GivesTokenOnce
<1>10. Message(tx).cmd = "mix" => GivesTokenOnce(Mix, t)
  BY <1>3, <1>4, <1>7, <1>9
<1>11. GivesTokenOnce(Reg \cup Tra, t)
  <2>1. CASE t \in minted
    <3>1. t \notin GivenTokens(Reg)
      BY <1>1, <1>3, <2>1
    <3> QED
      BY <1>2, <1>6, <2>1, <3>1 DEF GivesTokenOnce
  <2>2. CASE t \notin minted
    <3>1. t \notin GivenTokens(Tra)
      BY <1>3, <2>2
    <3> QED
      BY <1>2, <1>8, <3>1 DEF GivesTokenOnce
  <2> QED
    BY <2>1, <2>2
<1> QED
  BY <1>5, <1>10, <1>11 DEF TxGifts, Reg, Tra, Mix

LEMMA BlockPlaces ==
  ASSUME TablesInv, MintedOK, PlacedOnce, NEW tx, Block(tx)
  PROVE  PlacedOnce'
<1> DEFINE h == height + 1
           N == OutsOf(h, tx)
           S == ToSet(tx.ins)
           T == TxGifts(Db, tx, h)
           new == ToSet(RegisteredTokens(tx))
<1>1. /\ UnspentOuts' = (UnspentOuts \ S) \cup N /\ N \cap ChainOuts = {} /\ S \subseteq UnspentOuts
      /\ \A o \in ChainOuts : RangesAt(Db', o) = RangesAt(Db, o)
      /\ \A o \in N : ToSet(RangesAt(Db', o)) = UNION {ToSet(f.ranges) : f \in {f \in T : f.out = o}}
  BY OutsAfter, RangesAfter, BlockFacts, TransactionFacts DEF Block, TablesInv
<1>2. UnspentOuts \subseteq ChainOuts
  BY DEF UnspentOuts, ChainOuts
<1>3. \A t \in GivenTokens(T) : t \in Carried(tx) \cup new
  BY GivenAre
<1>4. \A t \in minted' \ reminted' : /\ GivesTokenOnce(T, t) /\ t \notin reminted
                                     /\ t \in minted => t \notin new
  BY BlockGivesOnce DEF Block
<1> HIDE DEF N, S, T, new, h
<1> SUFFICES ASSUME NEW t \in minted' \ reminted', NEW o \in UnspentOuts', NEW p \in UnspentOuts',
                    NEW r \in ToSet(RangesAt(Db', o)), NEW q \in ToSet(RangesAt(Db', p)),
                    t \in TokensOf(r), t \in TokensOf(q)
             PROVE  o = p /\ r = q
  BY DEF PlacedOnce
<1>5. ASSUME NEW x \in UnspentOuts \ S, NEW a \in ToSet(RangesAt(Db', x)), t \in TokensOf(a)
      PROVE  a \in ToSet(RangesAt(Db, x)) /\ t \in minted /\ t \notin Carried(tx)
  <2>1. a \in ToSet(RangesAt(Db, x))
    BY <1>1, <1>2, <1>5
  <2>2. t \in minted
    BY <1>2, <1>5, <2>1 DEF MintedOK, EverHeld, TokensIn
  <2>3. ASSUME t \in Carried(tx) PROVE FALSE
    <3>1. PICK y \in S : t \in EverHeld(y)
      BY <2>3 DEF Carried, S
    <3>2. PICK b \in ToSet(RangesAt(Db, y)) : t \in TokensOf(b)
      BY <3>1 DEF EverHeld, TokensIn
    <3>3. x = y
      BY <1>1, <1>4, <1>5, <2>1, <2>2, <3>2 DEF PlacedOnce
    <3> QED
      BY <3>3
  <2> QED
    BY <2>1, <2>2, <2>3
<1>6. ASSUME NEW x \in N, NEW a \in ToSet(RangesAt(Db', x)), t \in TokensOf(a)
      PROVE  /\ \E f \in T : f.out = x /\ a \in ToSet(f.ranges)
             /\ t \in Carried(tx) \cup new
  <2>1. PICK f \in T : f.out = x /\ a \in ToSet(f.ranges)
    BY <1>1, <1>6
  <2>2. t \in GivenTokens(T)
    BY <1>6, <2>1 DEF GivenTokens, TokensIn
  <2> QED
    BY <1>3, <2>1, <2>2
<1>7. CASE o \in UnspentOuts \ S /\ p \in UnspentOuts \ S
  BY <1>4, <1>5, <1>7 DEF PlacedOnce
<1>8. CASE o \in N /\ p \in N
  <2>1. PICK f \in T : f.out = o /\ r \in ToSet(f.ranges)
    BY <1>6, <1>8
  <2>2. PICK g \in T : g.out = p /\ q \in ToSet(g.ranges)
    BY <1>6, <1>8
  <2>3. f = g /\ r = q
    BY <1>4, <2>1, <2>2 DEF GivesTokenOnce
  <2> QED
    BY <2>1, <2>2, <2>3
<1>9. ~(o \in UnspentOuts \ S /\ p \in N) /\ ~(p \in UnspentOuts \ S /\ o \in N)
  BY <1>4, <1>5, <1>6
<1> QED
  BY <1>1, <1>7, <1>8, <1>9

-----------------------------------------------------------------------------
(* The invariant, and what it says of the tables.                           *)

LEMMA InitHolds == Init => IInv
<1> SUFFICES ASSUME Init PROVE IInv
  OBVIOUS
<1> DEFINE n == Len(Funding)
           fresh(v) == [out |-> Out(0, v), script |-> ScriptAt([outs |-> Funding], v), spent |-> FALSE]
<1>1. coins = {fresh(v) : v \in 0..n - 1} /\ height = 0 /\ collections = {} /\ utxos = {} /\ ranges = << >>
      /\ minted = {} /\ reminted = {}
  BY DEF Init
<1>2. /\ n \in Nat /\ n <= MaxVout + 1 /\ MaxVout \in Nat /\ Len(Shapes) \in Nat
      /\ \A v \in 0..n - 1 : Funding[v + 1] \in Scripts \cup {OpReturn}
  BY LedgerConstants
<1>3. \A v \in 0..n - 1 : /\ fresh(v) \in [out : Outpoints, script : Scripts \cup {OpReturn}, spent : BOOLEAN]
                          /\ fresh(v).out.height = 0 /\ fresh(v).out.vout = v
  BY <1>2 DEF Out, Outpoints, ScriptAt
<1> HIDE DEF n
<1>4. CoinsOK
  <2>1. \A c \in coins : c \in [out : Outpoints, script : Scripts \cup {OpReturn}, spent : BOOLEAN]
                         /\ \E v \in 0..n - 1 : c = fresh(v)
    BY <1>1, <1>3
  <2>2. ASSUME NEW c \in coins, NEW e \in coins, c.out = e.out PROVE c = e
    <3>1. PICK v \in 0..n - 1 : c = fresh(v)
      BY <2>1
    <3>2. PICK w \in 0..n - 1 : e = fresh(w)
      BY <2>1
    <3> HIDE DEF fresh
    <3>3. v = w
      BY <1>3, <2>2, <3>1, <3>2
    <3> QED
      BY <3>1, <3>2, <3>3
  <2>3. ASSUME NEW c \in coins PROVE c.out.height <= 0 /\ c.out.vout <= MaxVout
    <3>1. PICK v \in 0..n - 1 : c = fresh(v)
      BY <2>1
    <3> HIDE DEF fresh
    <3> QED
      BY <1>2, <1>3, <3>1
  <2> HIDE DEF fresh
  <2> QED
    BY <1>1, <1>2, <2>1, <2>2, <2>3 DEF CoinsOK
<1> HIDE DEF fresh
<1>5. \A o : RangesAt(Db, o) = << >>
  BY <1>1 DEF RangesAt, Db
<1>6. Db \in Dbs
  <2>1. << >> \in [{} -> Seq(AllRanges)] /\ {} \in SUBSET Outpoints
    OBVIOUS
  <2>2. << >> \in RangeTables
    BY <2>1 DEF RangeTables
  <2> QED
    BY <1>1, <2>2 DEF Dbs, Db
<1>7. TablesOK
  BY <1>1, <1>6 DEF TablesOK
<1>8. RowsMatchRanges
  <2>1. GroupsOf(<< >>) = {}
    BY DEF GroupsOf, ToSet
  <2> QED
    BY <1>1, <1>5, <2>1 DEF RowsMatchRanges
<1>9. OwnerIsOutput /\ PlacedOnce
  BY <1>1 DEF OwnerIsOutput, PlacedOnce
<1>10. MintedOK
  BY <1>1, <1>5, TokensInEmpty DEF MintedOK, EverHeld
<1> QED
  BY <1>4, <1>7, <1>8, <1>9, <1>10 DEF IInv, TablesInv

LEMMA StepHolds == IInv /\ [Next]_vars => IInv'
<1> SUFFICES ASSUME IInv, [Next]_vars PROVE IInv'
  OBVIOUS
<1>1. CASE ParseBlock
  <2>1. PICK tx \in NextTxs : Block(tx)
    BY <1>1, ParseBlockIsBlock
  <2> QED
    BY <2>1, BlockCoins, BlockTables, RowsOfOutput, BlockOwners, BlockMinted, BlockPlaces
    DEF IInv, TablesInv
<1>2. CASE UNCHANGED <<coins, height, tables, minted, reminted>>
  BY <1>2 DEF tables, IInv, TablesInv, CoinsOK, TablesOK, RowsMatchRanges, OwnerIsOutput, MintedOK, PlacedOnce,
              Db, ChainOuts, UnspentOuts, EverHeld
<1> QED
  BY <1>1, <1>2 DEF Next, ParseError, vars

(* The tables stay consistent with each other and with the chain, and every *)
(* token registered once is in one range of one unspent output              *)
(* (storage/sqlite.rs, parser/brc721_parser.rs: parse_tx).                  *)
THEOREM LedgerInvariant == Spec => []IInv
<1> QED
  BY InitHolds, StepHolds, PTL DEF Spec

(* Rows and ranges are of outputs of the chain, under collections           *)
(* registered before; a range is not empty (sqlite.rs: the ownership        *)
(* tables).                                                                 *)
THEOREM TypeCorrect == Spec => []TypeOK
<1>1. ASSUME IInv PROVE TypeOK
  <2> DEFINE outpoints == {c.out : c \in coins}
             groups == [coll : collections, base : Scripts \cup {OpReturn}]
  <2>1. CoinsOK /\ TablesOK /\ RowsMatchRanges
    BY <1>1 DEF IInv, TablesInv
  <2>2. utxos \subseteq RowTypes /\ ranges \in RangeTables
    BY <2>1 DEF TablesOK, Dbs, Db
  <2>3. ASSUME NEW u \in utxos
        PROVE  u \in [out : outpoints, group : groups, created : 1..height,
                      owner : Scripts \cup {OpReturn, NoOwner}, spent : BOOLEAN]
    <3>1. u \in RowTypes /\ u.out \in outpoints /\ u.group.coll \in collections
          /\ u.created = u.out.height /\ u.created > 0
      BY <2>1, <2>2 DEF TablesOK, ChainOuts
    <3>2. u.out.height <= height
      BY <2>1, <3>1 DEF CoinsOK
    <3>3. height \in Nat
      BY <2>1, LedgerConstants DEF CoinsOK
    <3>4. u.created \in 1..height
      BY <3>1, <3>2, <3>3 DEF RowTypes
    <3>5. u.group \in groups
      BY <3>1 DEF RowTypes, AllGroups
    <3> HIDE DEF outpoints, groups
    <3> QED
      BY <3>1, <3>4, <3>5 DEF RowTypes
  <2>4. ASSUME NEW o \in DOMAIN ranges, NEW r \in ToSet(ranges[o])
        PROVE  r.group \in groups /\ r.lo \in Slots /\ r.hi \in r.lo..MaxSlot
    <3>1. RangesAt(Db, o) = ranges[o] /\ o \in ChainOuts
      BY <2>1 DEF RangesAt, Db, TablesOK
    <3>2. PICK s : s = ranges[o] /\ s \in Seq(AllRanges)
      BY <2>1, <3>1, RangesAtType DEF TablesOK
    <3>3. r \in AllRanges
      BY <3>2 DEF ToSet
    <3>4. r.group \in {u.group : u \in {u \in utxos : u.out = o}}
      BY <2>1, <3>1 DEF RowsMatchRanges, GroupsOf, ChainOuts
    <3>5. PICK u \in utxos : u.group = r.group
      BY <3>4
    <3>6. u.group \in groups
      BY <2>1, <2>2 DEF TablesOK, RowTypes, AllGroups
    <3>7. r.lo \in 0..MaxSlot /\ r.hi \in 0..MaxSlot /\ r.lo <= r.hi
      BY <3>3 DEF AllRanges, RangesOver
    <3>8. r.hi \in r.lo..MaxSlot
      BY <3>7, LedgerConstants
    <3> QED
      BY <3>5, <3>6, <3>7, <3>8 DEF Slots
  <2> QED
    BY <2>1, <2>3, <2>4 DEF TypeOK, TablesOK, ChainOuts
<1> QED
  BY <1>1, LedgerInvariant, PTL

(* No row without ranges, no range without a row: the join of               *)
(* list_unspent_ownership_ranges_by_outpoint never loses a range.           *)
THEOREM RowsAndRanges == Spec => []RowsMatchRanges
<1>1. IInv => RowsMatchRanges
  BY DEF IInv, TablesInv
<1> QED
  BY <1>1, LedgerInvariant, PTL

(* A row is unspent as long as Bitcoin's output is and names its script, so *)
(* that REST may answer with one row's owner for the output                 *)
(* (rest/handlers.rs:293).                                                  *)
THEOREM OwnersAreOutputs == Spec => []OwnerIsOutput
<1>1. IInv => OwnerIsOutput
  BY DEF IInv, TablesInv
<1> QED
  BY <1>1, LedgerInvariant, PTL

(* No sequence of transfers, burns and mixes doubles a token.               *)
THEOREM TokensRestOnce == Spec => []RestsOnce
<1>1. ASSUME IInv PROVE RestsOnce
  <2> DEFINE e(o) == Expand(UnspentRanges(Db, o))
  <2>1. TablesInv /\ PlacedOnce /\ Db \in Dbs /\ DOMAIN ranges \subseteq ChainOuts
    BY <1>1 DEF IInv, TablesInv, TablesOK
  <2> SUFFICES ASSUME NEW t \in minted \ reminted
               PROVE  Cardinality(UNION {{<<o, i>> : i \in {i \in DOMAIN e(o) : e(o)[i] = t}} : o \in DOMAIN ranges}) <= 1
    BY DEF RestsOnce
  <2> DEFINE places == UNION {{<<o, i>> : i \in {i \in DOMAIN e(o) : e(o)[i] = t}} : o \in DOMAIN ranges}
  <2>2. ASSUME NEW o \in DOMAIN ranges, NEW i \in DOMAIN e(o), e(o)[i] = t
        PROVE  /\ o \in UnspentOuts /\ i \in 1..Len(e(o)) /\ OnceIn(e(o), {t})
               /\ \E r \in ToSet(RangesAt(Db, o)) : t \in TokensOf(r)
    <3>1. PICK c \in coins : c.out = o
      BY <2>1 DEF ChainOuts
    <3>2. UnspentRanges(Db, o) = IF c.spent THEN << >> ELSE RangesAt(Db, o)
      BY <2>1, <3>1, UnspentRangesAre
    <3>3. PICK us : us = UnspentRanges(Db, o) /\ us \in Seq(AllRanges)
      BY <2>1, UnspentRangesType
    <3>4. PICK x : x = Expand(us) /\ x \in Seq(Tokens(AllGroups)) /\ ToSet(x) = TokensIn(us)
      BY <3>3, TokensInExpand
    <3>5. t \in TokensIn(us) /\ i \in 1..Len(x) /\ x = e(o)
      BY <2>2, <3>3, <3>4 DEF ToSet
    <3>6. ~c.spent
      BY <3>2, <3>3, <3>5, TokensInEmpty
    <3>7. us = RangesAt(Db, o) /\ o \in UnspentOuts
      BY <3>1, <3>2, <3>3, <3>6 DEF UnspentOuts
    <3>8. OnceIn(us, Ranges1(t))
      BY <2>1, <3>7, PlacedOnceAt
    <3>9. OnceIn(x, {t})
      BY <3>3, <3>4, <3>8, RangeOnce
    <3>10. \E r \in ToSet(RangesAt(Db, o)) : t \in TokensOf(r)
      BY <3>5, <3>7 DEF TokensIn
    <3> HIDE DEF e
    <3> QED
      BY <3>5, <3>7, <3>9, <3>10
  <2> HIDE DEF e
  <2>3. ASSUME NEW o \in DOMAIN ranges, NEW i \in DOMAIN e(o), e(o)[i] = t,
               NEW p \in DOMAIN ranges, NEW j \in DOMAIN e(p), e(p)[j] = t
        PROVE  o = p /\ i = j
    <3>1. o = p
      BY <2>1, <2>2, <2>3 DEF PlacedOnce
    <3> QED
      BY <2>2, <2>3, <3>1 DEF OnceIn
  <2>4. \A x, y \in places : x = y
    BY <2>3
  <2> HIDE DEF places
  <2>5. CASE places = {}
    BY <2>5, FS_EmptySet DEF places
  <2>6. CASE places # {}
    <3>1. PICK x \in places : TRUE
      BY <2>6
    <3>2. places = {x}
      BY <2>4, <3>1
    <3>3. Cardinality(places) = 1
      BY <3>2, FS_Singleton
    <3> QED
      BY <3>3 DEF places
  <2> QED
    BY <2>5, <2>6
<1> QED
  BY <1>1, LedgerInvariant, PTL

-----------------------------------------------------------------------------
(* What rests where.                                                        *)

LEMMA HoldsAre ==
  ASSUME TablesInv
  PROVE  Holds = UNION {{<<t, o>> : t \in EverHeld(o)} : o \in UnspentOuts}
<1> DEFINE at(o) == ToSet(Expand(UnspentRanges(Db, o)))
<1>1. Db \in Dbs /\ DOMAIN ranges \subseteq ChainOuts /\ \A c, e \in coins : c.out = e.out => c = e
  BY DEF TablesInv, TablesOK, CoinsOK
<1>2. ASSUME NEW c \in coins PROVE at(c.out) = IF c.spent THEN {} ELSE EverHeld(c.out)
  <2>1. PICK us : us = UnspentRanges(Db, c.out) /\ us \in Seq(AllRanges)
    BY <1>1, UnspentRangesType
  <2>2. at(c.out) = TokensIn(us)
    BY <2>1, TokensInExpand
  <2>3. us = IF c.spent THEN << >> ELSE RangesAt(Db, c.out)
    BY <2>1, UnspentRangesAre
  <2> QED
    BY <2>2, <2>3, TokensInEmpty DEF EverHeld
<1>3. \A o : o \notin DOMAIN ranges => EverHeld(o) = {}
  BY TokensInEmpty DEF EverHeld, RangesAt, Db
<1>4. Holds = UNION {{<<t, o>> : t \in at(o)} : o \in DOMAIN ranges}
  BY DEF Holds
<1> HIDE DEF at
<1>5. \A o \in DOMAIN ranges : at(o) = IF o \in UnspentOuts THEN EverHeld(o) ELSE {}
  BY <1>1, <1>2 DEF ChainOuts, UnspentOuts
<1>6. \A o \in UnspentOuts : o \in DOMAIN ranges \/ EverHeld(o) = {}
  BY <1>3
<1> QED
  BY <1>4, <1>5, <1>6

LEMMA HoldsMembers ==
  ASSUME TablesInv
  PROVE  /\ \A x \in Holds : x = <<x[1], x[2]>> /\ x[2] \in UnspentOuts /\ x[1] \in EverHeld(x[2])
         /\ \A o \in UnspentOuts : \A t \in EverHeld(o) : <<t, o>> \in Holds
BY HoldsAre

(* The holdings after a block: those of the outputs it leaves unspent, and  *)
(* its gifts.                                                               *)
GiftHolds(S) == UNION {{<<t, f.out>> : t \in TokensIn(f.ranges)} : f \in S}

LEMMA HoldsAfter ==
  ASSUME TablesInv, MintedOK, NEW tx, Block(tx)
  PROVE  Holds' = {x \in Holds : x[2] \notin ToSet(tx.ins)} \cup GiftHolds(TxGifts(Db, tx, height + 1))
<1> DEFINE h == height + 1
           N == OutsOf(h, tx)
           S == ToSet(tx.ins)
           T == TxGifts(Db, tx, h)
           after(o) == EverHeld(o)'
           holding(o) == {<<t, o>> : t \in after(o)}
<1>1. UnspentOuts' = (UnspentOuts \ S) \cup N /\ ChainOuts' = ChainOuts \cup N
  BY OutsAfter
<1>2. /\ \A o \in ChainOuts : after(o) = EverHeld(o)
      /\ \A o \in N : after(o) = GivenTokens({f \in T : f.out = o})
  BY HeldAfter
<1>3. (\A f \in T : f.out \in N) /\ Db' \in Dbs
  <2>1. T \subseteq Gifts(tx, h)
    BY BlockFacts
  <2> QED
    BY <2>1, BlockTables DEF Gifts, TablesOK
<1>4. UnspentOuts \subseteq ChainOuts
  BY DEF UnspentOuts, ChainOuts
<1>5. Holds' = UNION {holding(o) : o \in UnspentOuts'}
  <2>1. TablesInv'
    BY BlockCoins, BlockTables, RowsOfOutput, BlockOwners DEF TablesInv
  <2>2. (Holds = UNION {{<<t, o>> : t \in EverHeld(o)} : o \in UnspentOuts})'
    BY <2>1, HoldsAre, PTL
  <2> QED
    BY <2>2
<1> HIDE DEF N, S, T, after, h
<1>6. Holds = UNION {{<<t, o>> : t \in EverHeld(o)} : o \in UnspentOuts}
  BY HoldsAre
<1>7. UNION {holding(o) : o \in N} = GiftHolds(T)
  BY <1>2, <1>3 DEF GiftHolds, GivenTokens
<1>8. UNION {holding(o) : o \in UnspentOuts \ S} = {x \in Holds : x[2] \notin S}
  BY <1>2, <1>4, <1>6
<1>9. Holds' = (UNION {holding(o) : o \in UnspentOuts \ S}) \cup UNION {holding(o) : o \in N}
  <2> HIDE DEF holding
  <2> QED
    BY <1>1, <1>5
<1> QED
  BY <1>7, <1>8, <1>9 DEF S, T, h

(* The rows that cover a token are those of the unspent outputs it rests    *)
(* on.                                                                      *)
LEMMA CoversIs ==
  ASSUME TablesInv, NEW t \in Tokens(AllGroups)
  PROVE  /\ \A u \in utxos : Covers(Db, u, t) => u.out \in UnspentOuts /\ t \in EverHeld(u.out)
         /\ \A o \in UnspentOuts : t \in EverHeld(o) => \E u \in utxos : u.out = o /\ Covers(Db, u, t)
<1>0. \A o : RangesAt(Db, o) \in Seq(AllRanges)
  BY RangesAtType DEF TablesInv, TablesOK
<1>1. \A o : \A r \in ToSet(RangesAt(Db, o)) :
        t \in TokensOf(r) <=> r.group = t.group /\ r.lo <= t.slot /\ t.slot <= r.hi
  <2> SUFFICES ASSUME NEW o, NEW r \in ToSet(RangesAt(Db, o))
               PROVE  t \in TokensOf(r) <=> r.group = t.group /\ r.lo <= t.slot /\ t.slot <= r.hi
    OBVIOUS
  <2>1. PICK s : s = RangesAt(Db, o) /\ s \in Seq(AllRanges)
    BY <1>0
  <2>2. r \in AllRanges
    BY <2>1 DEF ToSet
  <2>3. r.lo \in Int /\ r.hi \in Int
    BY <2>2, LedgerConstants DEF AllRanges, RangesOver
  <2>4. t.slot \in Int /\ t = [group |-> t.group, slot |-> t.slot]
    BY DEF Tokens
  <2> QED
    BY <2>3, <2>4 DEF TokensOf
<1>2. \A u \in utxos : \E c \in coins : c.out = u.out /\ c.spent = u.spent
  BY DEF TablesInv, OwnerIsOutput
<1>3. \A c, e \in coins : c.out = e.out => c = e
  BY DEF TablesInv, CoinsOK
<1>4. \A u \in utxos : u.spent = (u.out \notin UnspentOuts)
  <2>1. utxos \subseteq RowTypes /\ \A c \in coins : c.spent \in BOOLEAN
    BY DEF TablesInv, TablesOK, CoinsOK, Dbs, Db
  <2> QED
    BY <1>2, <1>3, <2>1 DEF UnspentOuts, RowTypes
<1>5. ASSUME NEW u \in utxos, Covers(Db, u, t)
      PROVE  u.out \in UnspentOuts /\ t \in EverHeld(u.out)
  BY <1>1, <1>4, <1>5 DEF Covers, EverHeld, TokensIn
<1>6. ASSUME NEW o \in UnspentOuts, t \in EverHeld(o)
      PROVE  \E u \in utxos : u.out = o /\ Covers(Db, u, t)
  <2>1. PICK r \in ToSet(RangesAt(Db, o)) : t \in TokensOf(r)
    BY <1>6 DEF EverHeld, TokensIn
  <2>2. r.group = t.group /\ r.lo <= t.slot /\ t.slot <= r.hi
    BY <1>1, <2>1
  <2>3. o \in {c.out : c \in coins}
    BY DEF UnspentOuts
  <2>4. t.group \in {u.group : u \in {u \in utxos : u.out = o}}
    BY <2>1, <2>2, <2>3 DEF TablesInv, RowsMatchRanges, GroupsOf
  <2>5. PICK u \in utxos : u.out = o /\ u.group = t.group
    BY <2>4
  <2>6. ~u.spent
    BY <1>4, <2>5
  <2> QED
    BY <2>1, <2>2, <2>5, <2>6 DEF Covers
<1> QED
  BY <1>5, <1>6

(* The slot lookup finds outputs the token rests on, and one exactly if     *)
(* there is one.                                                            *)
LEMMA FoundIs ==
  ASSUME TablesInv, NEW t \in Tokens(AllGroups)
  PROVE  LET found == {u.out : u \in Found(Db, t)}
             rests == {h[2] : h \in {h \in Holds : h[1] = t}}
         IN  /\ rests = {o \in UnspentOuts : t \in EverHeld(o)}
             /\ \A u \in Found(Db, t) : u \in utxos /\ Covers(Db, u, t)
             /\ found \subseteq rests /\ (found = {} <=> rests = {})
<1> DEFINE rows  == {u \in utxos : Covers(Db, u, t)}
           found == {u.out : u \in Found(Db, t)}
           rests == {h[2] : h \in {h \in Holds : h[1] = t}}
<1>1. rests = {o \in UnspentOuts : t \in EverHeld(o)}
  <2>1. \A x \in Holds : x[2] \in UnspentOuts /\ x[1] \in EverHeld(x[2])
    BY HoldsMembers
  <2>2. ASSUME NEW o \in UnspentOuts, t \in EverHeld(o) PROVE \E x \in Holds : x[1] = t /\ x[2] = o
    <3>1. <<t, o>> \in Holds
      BY <2>2, HoldsMembers
    <3> QED
      BY <3>1
  <2> QED
    BY <2>1, <2>2
<1>2. \A u \in rows : u.out \in rests
  BY <1>1, CoversIs
<1>3. \A o \in rests : \E u \in rows : u.out = o
  BY <1>1, CoversIs
<1>4. /\ Found(Db, t) \subseteq rows
      /\ rows # {} => Found(Db, t) # {}
  <2>1. Found(Db, t) = {u \in rows : \A v \in rows : v.created <= u.created}
    BY DEF Found, Db
  <2>2. \A u \in rows : u.created \in 0..height /\ height \in Nat
    <3>1. \A u \in utxos : u.created \in Nat /\ u.created = u.out.height /\ u.out \in ChainOuts
      BY DEF TablesInv, TablesOK, Dbs, Db, RowTypes
    <3>2. \A o \in ChainOuts : o.height <= height
      BY DEF TablesInv, CoinsOK, ChainOuts
    <3>3. height \in Nat
      BY LedgerConstants DEF TablesInv, CoinsOK
    <3> QED
      BY <3>1, <3>2, <3>3
  <2>3. ASSUME rows # {} PROVE \E u \in rows : \A v \in rows : v.created <= u.created
    <3> DEFINE age(u) == [start |-> height - u.created, row |-> u]
               ages == {age(u) : u \in rows}
    <3>1. \A e \in ages : e.start \in Nat
      BY <2>2
    <3>2. ages # {}
      BY <2>3
    <3> HIDE DEF ages
    <3>3. PICK e \in ages : \A f \in ages : e.start <= f.start
      BY <3>1, <3>2, LeastStart
    <3>4. PICK u \in rows : e = age(u)
      BY DEF ages
    <3>5. \A v \in rows : (age(v)).start = height - v.created
      OBVIOUS
    <3>6. \A v \in rows : age(v) \in ages
      BY DEF ages
    <3> HIDE DEF age, rows
    <3> QED
      BY <2>2, <3>3, <3>4, <3>5, <3>6
  <2> QED
    BY <2>1, <2>3
<1>5. \A u \in Found(Db, t) : u \in utxos /\ Covers(Db, u, t)
  BY <1>4
<1> HIDE DEF rows
<1>6. found \subseteq rests /\ (found = {} <=> rests = {})
  <2> HIDE DEF rests
  <2> QED
    BY <1>2, <1>3, <1>4
<1> HIDE DEF found, rests
<1>7. rests = {o \in UnspentOuts : t \in EverHeld(o)} /\ found \subseteq rests /\ (found = {} <=> rests = {})
  BY <1>1, <1>6
<1> QED
  BY <1>5, <1>7 DEF found, rests

(* The owner REST answers for a token is that of an output whose spending   *)
(* moves it; find_unspent_ownership_utxo_for_slot (storage/sqlite.rs) finds *)
(* one exactly as long as there is one.                                     *)
THEOREM FinderFindsHolder == Spec => []FinderAgrees
<1>1. ASSUME IInv PROVE FinderAgrees
  <2>1. TablesInv /\ PlacedOnce /\ MintedOK
    BY <1>1 DEF IInv
  <2> SUFFICES ASSUME NEW t \in minted
               PROVE  LET found == {u.out : u \in Found(Db, t)}
                          rests == {h[2] : h \in {h \in Holds : h[1] = t}}
                      IN  IF t \in reminted THEN found \subseteq rests /\ (found = {} <=> rests = {})
                          ELSE found = rests
    BY DEF FinderAgrees
  <2> DEFINE found == {u.out : u \in Found(Db, t)}
             rests == {h[2] : h \in {h \in Holds : h[1] = t}}
  <2>2. t \in Tokens(AllGroups)
    BY <2>1 DEF MintedOK
  <2>3. /\ rests = {o \in UnspentOuts : t \in EverHeld(o)}
        /\ found \subseteq rests /\ (found = {} <=> rests = {})
    BY <2>1, <2>2, FoundIs
  <2>4. t \notin reminted => \A o, p \in rests : o = p
    BY <2>1, <2>3 DEF PlacedOnce, EverHeld, TokensIn
  <2> HIDE DEF found, rests
  <2>5. IF t \in reminted THEN found \subseteq rests /\ (found = {} <=> rests = {}) ELSE found = rests
    BY <2>3, <2>4
  <2> QED
    BY <2>5 DEF found, rests
<1> QED
  BY <1>1, LedgerInvariant, PTL

(* The tokens of the gifts, if no output held them, are registered here.    *)
LEMMA NewOrHeld ==
  ASSUME TablesInv, MintedOK, NEW tx, Block(tx), NEW x \in Holds'
  PROVE  \/ x[1] \in {h[1] : h \in Holds}
         \/ x[1] \in ToSet(RegisteredTokens(tx))
<1>1. CASE x \in Holds
  BY <1>1
<1>2. CASE x \in GiftHolds(TxGifts(Db, tx, height + 1))
  <2>1. x[1] \in GivenTokens(TxGifts(Db, tx, height + 1))
    BY <1>2 DEF GiftHolds, GivenTokens
  <2>2. x[1] \in Carried(tx) \cup ToSet(RegisteredTokens(tx))
    BY <2>1, GivenAre
  <2>3. ASSUME x[1] \in Carried(tx) PROVE \E h \in Holds : h[1] = x[1]
    <3>1. PICK o \in ToSet(tx.ins) : x[1] \in EverHeld(o)
      BY <2>3 DEF Carried
    <3>2. <<x[1], o>> \in Holds
      BY <3>1, InputsUnspent, HoldsMembers
    <3> QED
      BY <3>2
  <2> QED
    BY <2>2, <2>3
<1> QED
  BY <1>1, <1>2, HoldsAfter

(* A token no output held is registered by a transaction that spends an     *)
(* output of the address in its id (register_ownership.rs: the base is read *)
(* from input 0).                                                           *)
THEOREM BaseAddressSigns == Spec => BaseSigns
<1> DEFINE Signed == \A t \in {h[1] : h \in Holds'} \ {h[1] : h \in Holds} :
                       \E c \in SpentNow : c.script = t.group.base
<1>1. ASSUME IInv, [Next]_vars PROVE [Signed]_vars
  <2>1. CASE ParseBlock
    <3>1. PICK tx \in NextTxs : Block(tx)
      BY <2>1, ParseBlockIsBlock
    <3>2. TablesInv /\ MintedOK
      BY <1>1 DEF IInv
    <3> SUFFICES ASSUME NEW x \in Holds', x[1] \notin {h[1] : h \in Holds}
                 PROVE  \E c \in SpentNow : c.script = x[1].group.base
      OBVIOUS
    <3>3. x[1] \in ToSet(RegisteredTokens(tx))
      BY <3>1, <3>2, NewOrHeld
    <3>4. x[1].group.base = Base(tx) /\ Registers(tx)
      BY <3>1, <3>2, <3>3, NewTokens
    <3>5. Allowed(tx)
      BY <3>1, <3>2, BlockFacts
    <3>6. tx.ins # << >> /\ tx.ins \in Seq(Outpoints)
      BY <3>1, <3>4, <3>5, RegistersFacts DEF Allowed, TxTypes
    <3>7. PICK c \in coins : c.out = tx.ins[1] /\ ~c.spent /\ Base(tx) = c.script
      BY <3>1, <3>2, <3>6, TransactionFacts DEF Block, TablesInv
    <3>8. c.out \in ToSet(tx.ins)
      BY <3>6, <3>7 DEF ToSet
    <3>9. [c EXCEPT !.spent = TRUE] \in coins'
      BY <3>1, <3>7, <3>8 DEF Block
    <3> QED
      BY <3>4, <3>7, <3>9 DEF SpentNow
  <2>2. CASE UNCHANGED <<coins, height, tables, minted, reminted>>
    <3>1. Holds' = Holds
      BY <2>2 DEF Holds, Db, tables
    <3> QED
      BY <3>1
  <2> QED
    BY <1>1, <2>1, <2>2 DEF Next, ParseError, vars
<1> HIDE DEF Signed
<1>2. Spec => [][Signed]_vars
  BY <1>1, LedgerInvariant, PTL DEF Spec
<1> QED
  BY <1>2, PTL DEF Signed, BaseSigns

-----------------------------------------------------------------------------
(* The refinement: what rests on the inputs of a transaction moves to its   *)
(* outputs.                                                                 *)
SpentOuts == {c.out : c \in {c \in coins : c.spent}}

ChainPoints == [height : 0..Len(Shapes), vout : 0..MaxVout]

LEMMA SpentAfter ==
  ASSUME TablesInv, NEW tx, Block(tx)
  PROVE  SpentOuts' = SpentOuts \cup ToSet(tx.ins)
<1> DEFINE N == OutsOf(height + 1, tx)
           S == ToSet(tx.ins)
<1>1. /\ \A c \in coins : \E e \in coins' : CoinAfter(c, e, S)
      /\ \A e \in coins' : \/ \E c \in coins : CoinAfter(c, e, S)
                           \/ e.out \in N /\ ~e.spent
      /\ S \subseteq UnspentOuts
  BY BlockFacts, TransactionFacts DEF Block, TablesInv
<1> HIDE DEF N, S
<1>2. SpentOuts' = {e.out : e \in {e \in coins' : e.spent}}
  BY DEF SpentOuts
<1>3. ASSUME NEW e \in coins', e.spent PROVE e.out \in SpentOuts \cup S
  <2>1. PICK c \in coins : CoinAfter(c, e, S)
    BY <1>1, <1>3
  <2> QED
    BY <1>3, <2>1 DEF CoinAfter, SpentOuts
<1>4. ASSUME NEW c \in coins, c.spent \/ c.out \in S PROVE \E e \in coins' : e.spent /\ e.out = c.out
  BY <1>1, <1>4 DEF CoinAfter
<1>5. \A o \in S : \E c \in coins : c.out = o
  BY <1>1 DEF UnspentOuts
<1>6. \A o \in SpentOuts \cup S : \E c \in coins : c.out = o /\ (c.spent \/ c.out \in S)
  BY <1>5 DEF SpentOuts
<1> QED
  BY <1>2, <1>3, <1>4, <1>6 DEF S

LEMMA PointsTyped ==
  ASSUME TablesInv
  PROVE  UnspentOuts \subseteq ChainPoints /\ UnspentOuts \cap SpentOuts = {}
<1>1. /\ height \in 0..Len(Shapes) /\ Len(Shapes) \in Nat /\ MaxVout \in Nat
      /\ \A c \in coins : c.out \in Outpoints /\ c.out.height <= height /\ c.out.vout <= MaxVout
  BY LedgerConstants DEF TablesInv, CoinsOK
<1>2. \A c \in coins : c.out \in ChainPoints
  BY <1>1 DEF Outpoints, ChainPoints
<1>3. \A c, e \in coins : c.out = e.out => c = e
  BY DEF TablesInv, CoinsOK
<1> QED
  BY <1>2, <1>3 DEF UnspentOuts, SpentOuts

LEMMA SpendHolds ==
  ASSUME TablesInv, TablesInv', NEW tx, Block(tx)
  PROVE  /\ Promise!Ins = ToSet(tx.ins) /\ Promise!Outs = OutsOf(height + 1, tx)
         /\ Promise!Spend
         /\ Promise!Kept = {x \in Holds : x[2] \notin ToSet(tx.ins)}
         /\ Promise!TokensIn(Promise!SpentHolds(Promise!Ins)) = Carried(tx)
<1> DEFINE N == OutsOf(height + 1, tx)
           S == ToSet(tx.ins)
<1>1. /\ UnspentOuts' = (UnspentOuts \ S) \cup N /\ SpentOuts' = SpentOuts \cup S
      /\ N \cap ChainOuts = {} /\ S \subseteq UnspentOuts
  BY OutsAfter, SpentAfter, BlockFacts, TransactionFacts DEF Block, TablesInv
<1>2. UnspentOuts \subseteq ChainOuts /\ SpentOuts \subseteq ChainOuts
  BY DEF UnspentOuts, SpentOuts, ChainOuts
<1>3. UnspentOuts \cap SpentOuts = {}
  BY PointsTyped
<1>4. UnspentOuts' \subseteq ChainPoints
  <2>1. (UnspentOuts \subseteq ChainPoints)'
    BY PointsTyped, PTL
  <2> QED
    BY <2>1 DEF ChainPoints
<1> HIDE DEF N, S
<1>5. Promise!Ins = S /\ Promise!Outs = N
  <2>1. Promise!Ins = UnspentOuts \ UnspentOuts' /\ Promise!Outs = UnspentOuts' \ UnspentOuts
    BY DEF Promise!Ins, Promise!Outs, UnspentOuts
  <2> QED
    BY <1>1, <1>2, <2>1
<1>6. Promise!Spend
  <2>1. UnspentOuts' \subseteq ChainPoints \ SpentOuts /\ SpentOuts' = SpentOuts \cup Promise!Ins
    BY <1>1, <1>2, <1>3, <1>4, <1>5
  <2> QED
    BY <2>1 DEF Promise!Spend, UnspentOuts, SpentOuts, ChainPoints
<1>7. Promise!SpentHolds(S) = {x \in Holds : x[2] \in S}
  BY DEF Promise!SpentHolds
<1>8. Promise!Kept = {x \in Holds : x[2] \notin S}
  BY <1>5, <1>7 DEF Promise!Kept
<1>9. Promise!TokensIn(Promise!SpentHolds(S)) = Carried(tx)
  <2>1. Promise!TokensIn(Promise!SpentHolds(S)) = {x[1] : x \in {x \in Holds : x[2] \in S}}
    BY <1>7 DEF Promise!TokensIn
  <2>2. \A x \in Holds : x[1] \in EverHeld(x[2])
    BY HoldsMembers
  <2>3. ASSUME NEW o \in S, NEW t \in EverHeld(o) PROVE \E x \in Holds : x[1] = t /\ x[2] = o
    <3>1. <<t, o>> \in Holds
      BY <1>1, HoldsMembers
    <3> QED
      BY <3>1
  <2>4. Carried(tx) = UNION {EverHeld(o) : o \in S}
    BY DEF Carried, S
  <2> QED
    BY <2>1, <2>2, <2>3, <2>4
<1> QED
  BY <1>5, <1>6, <1>8, <1>9 DEF S, N

(* Gifts of the tokens of the inputs, each token once, are a move.          *)
LEMMA GiftsMove ==
  ASSUME TablesInv, TablesInv', NEW tx, Block(tx), NEW G,
         \A f \in G : f.out \in OutsOf(height + 1, tx),
         GivenTokens(G) = Carried(tx),
         \A t \in Carried(tx) \ reminted : GivesTokenOnce(G, t)
  PROVE  Promise!Moves(GiftHolds(G))
<1> DEFINE H == GiftHolds(G)
           C == Promise!TokensIn(Promise!SpentHolds(Promise!Ins))
<1>1. C = Carried(tx) /\ Promise!Outs = OutsOf(height + 1, tx)
  BY SpendHolds
<1>2. \A x \in H : \E f \in G : x[2] = f.out /\ x[1] \in TokensIn(f.ranges) /\ x = <<x[1], x[2]>>
  BY DEF GiftHolds
<1>3. H \subseteq C \X Promise!Outs
  <2> SUFFICES ASSUME NEW x \in H PROVE x \in C \X Promise!Outs
    OBVIOUS
  <2>1. PICK f \in G : x[2] = f.out /\ x[1] \in TokensIn(f.ranges) /\ x = <<x[1], x[2]>>
    BY <1>2
  <2>2. x[1] \in GivenTokens(G)
    BY <2>1 DEF GivenTokens
  <2>3. x[1] \in C /\ x[2] \in Promise!Outs
    BY <1>1, <2>1, <2>2
  <2> HIDE DEF H, C
  <2> QED
    BY <2>1, <2>3
<1>4. C \subseteq Promise!TokensIn(H)
  <2>1. ASSUME NEW t \in C PROVE \E x \in H : x[1] = t
    <3>1. PICK f \in G : t \in TokensIn(f.ranges)
      BY <1>1 DEF GivenTokens
    <3>2. <<t, f.out>> \in H
      BY <3>1 DEF GiftHolds
    <3> QED
      BY <3>2
  <2> HIDE DEF C, H
  <2> QED
    BY <2>1 DEF Promise!TokensIn
<1>5. ASSUME NEW x \in H, NEW y \in H, x[1] = y[1], x[1] \notin reminted PROVE x = y
  <2>1. PICK f \in G : x[2] = f.out /\ x[1] \in TokensIn(f.ranges) /\ x = <<x[1], x[2]>>
    BY <1>2
  <2>2. PICK g \in G : y[2] = g.out /\ y[1] \in TokensIn(g.ranges) /\ y = <<y[1], y[2]>>
    BY <1>2
  <2>3. x[1] \in Carried(tx) \ reminted
    BY <1>5, <2>1 DEF GivenTokens
  <2>4. GivesTokenOnce(G, x[1])
    BY <2>3
  <2>5. f = g
    BY <1>5, <2>1, <2>2, <2>4 DEF GivesTokenOnce, TokensIn
  <2> HIDE DEF H
  <2> QED
    BY <1>5, <2>1, <2>2, <2>5
<1> HIDE DEF C
<1> QED
  BY <1>3, <1>4, <1>5 DEF Promise!Moves, C

LEMMA GiftsInHolds ==
  ASSUME TablesInv, MintedOK, NEW tx, Block(tx), NEW G, G \subseteq TxGifts(Db, tx, height + 1)
  PROVE  /\ \A f \in G : f.out \in OutsOf(height + 1, tx)
         /\ GiftHolds(G) \in SUBSET {x \in Holds' : x[2] \in OutsOf(height + 1, tx)}
<1> DEFINE T == TxGifts(Db, tx, height + 1)
           N == OutsOf(height + 1, tx)
<1>1. T \subseteq Gifts(tx, height + 1)
  BY BlockFacts
<1>2. \A f \in T : f.out \in N
  BY <1>1 DEF Gifts
<1>3. GiftHolds(T) \subseteq Holds'
  BY HoldsAfter
<1> HIDE DEF T, N
<1>4. GiftHolds(G) \subseteq GiftHolds(T)
  BY DEF GiftHolds, T
<1>5. \A x \in GiftHolds(G) : x[2] \in N
  BY <1>2 DEF GiftHolds, T
<1> QED
  BY <1>2, <1>3, <1>4, <1>5 DEF T, N

(* The tokens a block registers.                                            *)
LEMMA RegistrationHolds ==
  ASSUME TablesInv, MintedOK, NEW tx, Block(tx), Message(tx).cmd # "mix"
  PROVE  LET new == GiftHolds(Registration(tx, height + 1))
         IN  /\ Promise!TokensIn(new) = ToSet(RegisteredTokens(tx))
             /\ new \subseteq [group : [coll : 1..Len(Shapes), base : Scripts \cup {OpReturn}], slot : Slots]
                              \X OutsOf(height + 1, tx)
             /\ \A x, y \in new : x[1] = y[1] /\ x # y => x[1] \in reminted'
<1> DEFINE h == height + 1
           G == Registration(tx, h)
           new == GiftHolds(G)
           N == OutsOf(h, tx)
<1>1. G \subseteq TxGifts(Db, tx, h)
  BY DEF TxGifts
<1>2. G \subseteq Gifts(tx, h)
  BY <1>1, BlockFacts
<1>3. GivenTokens(G) = ToSet(RegisteredTokens(tx))
  BY TxGiftTokens
<1>4. \A t \in Twice(RegisteredTokens(tx)) : t \in reminted'
  BY DEF Block
<1>5. \A t : t \notin Twice(RegisteredTokens(tx)) => GivesTokenOnce(G, t)
  BY RegistrationGivesOnce DEF Registration, GivesTokenOnce
<1> HIDE DEF G, h, N
<1>6. \A x \in new : \E f \in G : x[2] = f.out /\ x[1] \in TokensIn(f.ranges) /\ x = <<x[1], x[2]>>
  BY DEF GiftHolds
<1>7. Promise!TokensIn(new) = GivenTokens(G)
  <2>1. \A x \in new : x[1] \in GivenTokens(G)
    BY <1>6 DEF GivenTokens
  <2>2. ASSUME NEW t \in GivenTokens(G) PROVE \E x \in new : x[1] = t
    <3>1. PICK f \in G : t \in TokensIn(f.ranges)
      BY <2>2 DEF GivenTokens
    <3>2. <<t, f.out>> \in new
      BY <3>1 DEF GiftHolds
    <3> QED
      BY <3>2
  <2> HIDE DEF new
  <2> QED
    BY <2>1, <2>2 DEF Promise!TokensIn
<1>8. ASSUME NEW x \in new
      PROVE  x \in [group : [coll : 1..Len(Shapes), base : Scripts \cup {OpReturn}], slot : Slots] \X N
  <2>1. PICK f \in G : x[2] = f.out /\ x[1] \in TokensIn(f.ranges) /\ x = <<x[1], x[2]>>
    BY <1>6
  <2>2. PICK rs : rs = f.ranges /\ rs \in Seq(AllRanges)
    BY <1>2 DEF Gifts
  <2>3. PICK r \in ToSet(rs) : x[1] \in TokensOf(r)
    BY <2>1, <2>2 DEF TokensIn
  <2>4. r \in AllRanges
    BY <2>2 DEF ToSet
  <2>5. PICK s \in r.lo..r.hi : x[1] = [group |-> r.group, slot |-> s]
    BY <2>3 DEF TokensOf
  <2>6. s \in Slots
    BY <2>4, <2>5, LedgerConstants DEF AllRanges, RangesOver, Slots
  <2>7. x[1] \in ToSet(RegisteredTokens(tx))
    BY <1>3, <2>1 DEF GivenTokens
  <2>8. x[1].group.coll \in collections
    BY <2>7, NewTokens
  <2>9. r.group.coll \in 1..Len(Shapes)
    <3>1. collections \subseteq 1..height /\ height \in 0..Len(Shapes) /\ Len(Shapes) \in Nat
      BY LedgerConstants DEF TablesInv, TablesOK, CoinsOK
    <3>2. x[1].group = r.group
      BY <2>5
    <3>3. r.group.coll \in 1..height
      BY <2>8, <3>1, <3>2
    <3> QED
      BY <3>1, <3>3
  <2>10. r.group \in [coll : 1..Len(Shapes), base : Scripts \cup {OpReturn}]
    BY <2>4, <2>9 DEF AllRanges, RangesOver, AllGroups
  <2>11. x[1] \in [group : [coll : 1..Len(Shapes), base : Scripts \cup {OpReturn}], slot : Slots]
    BY <2>5, <2>6, <2>10
  <2>12. x[2] \in N
    BY <1>2, <2>1 DEF Gifts, N
  <2> HIDE DEF new
  <2> QED
    BY <2>1, <2>11, <2>12
<1>9. ASSUME NEW x \in new, NEW y \in new, x[1] = y[1], x[1] \notin reminted' PROVE x = y
  <2>1. PICK f \in G : x[2] = f.out /\ x[1] \in TokensIn(f.ranges) /\ x = <<x[1], x[2]>>
    BY <1>6
  <2>2. PICK g \in G : y[2] = g.out /\ y[1] \in TokensIn(g.ranges) /\ y = <<y[1], y[2]>>
    BY <1>6
  <2>3. GivesTokenOnce(G, x[1])
    BY <1>4, <1>5, <1>9
  <2>4. f = g
    BY <1>9, <2>1, <2>2, <2>3 DEF GivesTokenOnce, TokensIn
  <2> HIDE DEF new
  <2> QED
    BY <1>9, <2>1, <2>2, <2>4
<1> HIDE DEF new
<1>10. /\ Promise!TokensIn(new) = ToSet(RegisteredTokens(tx))
       /\ new \subseteq [group : [coll : 1..Len(Shapes), base : Scripts \cup {OpReturn}], slot : Slots] \X N
       /\ \A x, y \in new : x[1] = y[1] /\ x # y => x[1] \in reminted'
  BY <1>3, <1>7, <1>8, <1>9
<1> QED
  BY <1>10 DEF new, G, N, h

LEMMA BlockRefines ==
  ASSUME TablesInv, TablesInv', MintedOK, PlacedOnce, NEW tx, Block(tx)
  PROVE  Promise!Next
<1> DEFINE h == height + 1
           N == OutsOf(h, tx)
           T == TxGifts(Db, tx, h)
           moved == {x \in Holds' : x[2] \in N}
<1>1. /\ Promise!Outs = N /\ Promise!Spend
      /\ Promise!Kept = {x \in Holds : x[2] \notin ToSet(tx.ins)}
  BY SpendHolds
<1>2. Holds' = Promise!Kept \cup GiftHolds(T)
  BY <1>1, HoldsAfter
<1>3. Carried(tx) \subseteq minted
  BY CarriedMinted
<1>4. /\ minted' = minted \cup ToSet(RegisteredTokens(tx))
      /\ reminted' = reminted \cup Twice(RegisteredTokens(tx)) \cup (ToSet(RegisteredTokens(tx)) \cap minted)
  BY DEF Block
<1>5. Message(tx).cmd = "mix" => minted' = minted /\ reminted' = reminted
  <2> SUFFICES ASSUME Message(tx).cmd = "mix" PROVE minted' = minted /\ reminted' = reminted
    OBVIOUS
  <2>1. RegisteredTokens(tx) = << >>
    BY TxGiftTokens
  <2>2. ToSet(<< >>) = {} /\ Twice(<< >>) = {}
    BY DEF ToSet, Twice
  <2> QED
    BY <1>4, <2>1, <2>2
<1> HIDE DEF h, N, T
<1>6. CASE Message(tx).cmd = "mix" /\ MixAccepted(Db, tx)
  <2> DEFINE G == ToSet(MixGifts(Db, tx, h))
  <2>1. T = G
    BY <1>6 DEF TxGifts, T
  <2>2. GivenTokens(G) = Carried(tx)
    BY <1>6, MixGiftTokens
  <2>3. \A t \in Carried(tx) \ reminted : GivesTokenOnce(G, t)
    BY <1>3, <1>6, MixGivesOnce
  <2> HIDE DEF G
  <2>4. (\A f \in G : f.out \in N) /\ GiftHolds(G) \in SUBSET moved
    BY <2>1, GiftsInHolds DEF T, N, h
  <2>5. Promise!Moves(GiftHolds(G))
    BY <2>2, <2>3, <2>4, GiftsMove DEF N, h
  <2> HIDE DEF moved
  <2>6. GiftHolds(G) \in SUBSET {x \in Holds' : x[2] \in Promise!Outs}
    BY <1>1, <2>4 DEF moved
  <2>7. Promise!Transfer
    BY <1>1, <1>2, <1>5, <1>6, <2>1, <2>5, <2>6 DEF Promise!Transfer
  <2> QED
    BY <2>7 DEF Promise!Next
<1>7. CASE Message(tx).cmd = "mix" /\ ~MixAccepted(Db, tx)
  <2>1. T = {}
    BY <1>7 DEF TxGifts, T
  <2>2. GiftHolds(T) = {}
    BY <2>1 DEF GiftHolds
  <2>3. Promise!Lose
    BY <1>1, <1>2, <1>5, <1>7, <2>2 DEF Promise!Lose
  <2> QED
    BY <2>3 DEF Promise!Next
<1>8. CASE Message(tx).cmd # "mix"
  <2> DEFINE G == ToSet(TransferGifts(Db, tx, h))
             R == Registration(tx, h)
             new == GiftHolds(R)
  <2>1. T = R \cup G
    BY <1>8 DEF TxGifts, T
  <2>2. GivenTokens(G) = Carried(tx)
    BY TransferGiftTokens
  <2>3. \A t \in Carried(tx) \ reminted : GivesTokenOnce(G, t)
    BY <1>3, TransferGivesOnce
  <2>4. /\ Promise!TokensIn(new) = ToSet(RegisteredTokens(tx))
        /\ new \subseteq [group : [coll : 1..Len(Shapes), base : Scripts \cup {OpReturn}], slot : Slots] \X N
        /\ \A x, y \in new : x[1] = y[1] /\ x # y => x[1] \in reminted'
    BY <1>8, RegistrationHolds DEF h, N
  <2> HIDE DEF G, R
  <2>5. GiftHolds(T) = GiftHolds(G) \cup new
    BY <2>1 DEF GiftHolds
  <2> HIDE DEF new
  <2>6. (\A f \in G : f.out \in N) /\ GiftHolds(G) \in SUBSET moved
    BY <2>1, GiftsInHolds DEF T, N, h
  <2>7. new \in SUBSET moved
    BY <2>1, GiftsInHolds DEF T, N, h, new
  <2>8. Promise!Moves(GiftHolds(G))
    BY <2>2, <2>3, <2>6, GiftsMove DEF N, h
  <2> HIDE DEF moved
  <2>9. /\ GiftHolds(G) \in SUBSET {x \in Holds' : x[2] \in Promise!Outs}
        /\ new \in SUBSET {x \in Holds' : x[2] \in Promise!Outs}
    BY <1>1, <2>6, <2>7 DEF moved
  <2>10. /\ Holds' = Promise!Kept \cup GiftHolds(G) \cup new
         /\ minted' = minted \cup Promise!TokensIn(new)
         /\ reminted \cup (Promise!TokensIn(new) \cap minted) \subseteq reminted'
    BY <1>2, <1>4, <2>4, <2>5
  <2>11. Promise!Register
    BY <1>1, <2>4, <2>8, <2>9, <2>10 DEF Promise!Register
  <2> QED
    BY <2>11 DEF Promise!Next
<1> QED
  BY <1>6, <1>7, <1>8

LEMMA InitRefines == Init => Promise!Init
<1> SUFFICES ASSUME Init PROVE Promise!Init
  OBVIOUS
<1>1. TablesInv
  BY InitHolds DEF IInv
<1>2. UnspentOuts \subseteq ChainPoints
  BY <1>1, PointsTyped
<1>3. \A c \in coins : c.spent = FALSE
  BY DEF Init
<1>4. SpentOuts = {}
  BY <1>3 DEF SpentOuts
<1>5. DOMAIN ranges = {} /\ minted = {} /\ reminted = {}
  BY DEF Init
<1>6. Holds = {}
  BY <1>5 DEF Holds
<1> QED
  BY <1>2, <1>4, <1>5, <1>6 DEF Promise!Init, UnspentOuts, SpentOuts, ChainPoints

(* The tables implement the promise made to the owner of a token: it moves  *)
(* only with the output it rests on, to outputs of the spending             *)
(* transaction, none is left behind, and only a rejected Mix loses tokens   *)
(* (parser/brc721_parser.rs: parse_tx).                                     *)
THEOREM LedgerImplementsTokenLedger == Spec => ImplementsTokenLedger
<1>1. ASSUME IInv, IInv', [Next]_vars PROVE [Promise!Next]_(Promise!vars)
  <2>1. CASE ParseBlock
    <3>1. PICK tx \in NextTxs : Block(tx)
      BY <2>1, ParseBlockIsBlock
    <3> QED
      BY <1>1, <3>1, BlockRefines DEF IInv
  <2>2. CASE UNCHANGED <<coins, height, tables, minted, reminted>>
    <3>1. Holds' = Holds
      BY <2>2 DEF Holds, Db, tables
    <3> QED
      BY <2>2, <3>1 DEF Promise!vars
  <2> QED
    BY <1>1, <2>1, <2>2 DEF Next, ParseError, vars
<1> QED
  BY <1>1, InitRefines, LedgerInvariant, PTL DEF Spec, ImplementsTokenLedger, Promise!Spec

-----------------------------------------------------------------------------
(* What one transaction makes of any tables of earlier blocks.              *)

(* Tables of the blocks up to h, in which every row has a range.            *)
Grounded(d, h) ==
  /\ d \in Dbs
  /\ \A u \in d.utxos :
       u.out.height <= h /\ \E r \in ToSet(RangesAt(d, u.out)) : r.group = u.group
  /\ \A o \in DOMAIN d.ranges : o.height <= h

(* The two give o the same tokens.                                          *)
AgreeAt(d, e, o) ==
  UnspentGroups(e, o) = UnspentGroups(d, o) /\ UnspentRanges(e, o) = UnspentRanges(d, o)

(* v is u, marked if its output is in S.                                    *)
Marked(u, v, S) ==
  v.out = u.out /\ v.group = u.group /\ (v.spent <=> u.spent \/ u.out \in S)

LEMMA MarkSpentFacts ==
  ASSUME NEW d \in Dbs, NEW S
  PROVE  /\ MarkSpent(d, S) \in Dbs /\ MarkSpent(d, S).ranges = d.ranges
         /\ \A v \in MarkSpent(d, S).utxos : \E u \in d.utxos : Marked(u, v, S)
         /\ \A u \in d.utxos : \E v \in MarkSpent(d, S).utxos : Marked(u, v, S)
<1> DEFINE after(u) == IF u.out \in S THEN [u EXCEPT !.spent = TRUE] ELSE u
           e == MarkSpent(d, S)
<1>1. d = [utxos |-> d.utxos, ranges |-> d.ranges] /\ d.utxos \in SUBSET RowTypes /\ d.ranges \in RangeTables
  <2>1. d \in [utxos : SUBSET RowTypes, ranges : RangeTables]
    BY DEF Dbs
  <2> QED
    BY <2>1
<1>2. e = [utxos |-> {after(u) : u \in d.utxos}, ranges |-> d.ranges]
  <2>1. e = [d EXCEPT !.utxos = {after(u) : u \in d.utxos}]
    BY DEF MarkSpent
  <2>2. PICK A, B, D : A = d.utxos /\ B = d.ranges /\ D = {after(u) : u \in d.utxos}
    OBVIOUS
  <2> HIDE DEF e, after
  <2>3. d = [utxos |-> A, ranges |-> B] /\ e = [d EXCEPT !.utxos = D]
    BY <1>1, <2>1, <2>2
  <2>4. e = [utxos |-> D, ranges |-> B]
    BY <2>3
  <2> QED
    BY <2>2, <2>4
<1>3. ASSUME NEW u \in RowTypes
      PROVE  after(u) \in RowTypes /\ Marked(u, after(u), S)
  BY DEF RowTypes, Marked
<1> HIDE DEF after, e
<1>4. (\A v \in e.utxos : \E u \in d.utxos : v = after(u)) /\ \A u \in d.utxos : after(u) \in e.utxos
  BY <1>2
<1>5. e.utxos \in SUBSET RowTypes
  BY <1>1, <1>3, <1>4
<1>6. e \in Dbs /\ e.ranges = d.ranges
  BY <1>1, <1>2, <1>5 DEF Dbs
<1>7. \A v \in e.utxos : \E u \in d.utxos : Marked(u, v, S)
  BY <1>1, <1>3, <1>4
<1>8. \A u \in d.utxos : \E v \in e.utxos : Marked(u, v, S)
  BY <1>1, <1>3, <1>4
<1> QED
  BY <1>6, <1>7, <1>8 DEF e

(* The outputs of a new block have nothing yet.                             *)
LEMMA ParseGives ==
  ASSUME NEW h \in Nat, NEW k \in Nat, h < k, NEW d, Grounded(d, h), NEW tx, Allowed(tx)
  PROVE  /\ Gave(MarkSpent(d, ToSet(tx.ins)), ParseTx(d, tx, k), TxGifts(d, tx, k), tx, k)
         /\ TxGifts(d, tx, k) \subseteq Gifts(tx, k)
         /\ \A o \in OutsOf(k, tx) :
              /\ o \in Outpoints /\ o.height = k /\ o \notin DOMAIN d.ranges
              /\ \A u \in MarkSpent(d, ToSet(tx.ins)).utxos : u.out # o
<1> DEFINE spent == MarkSpent(d, ToSet(tx.ins))
<1>1. d \in Dbs /\ tx \in TxTypes
  BY DEF Grounded, Allowed
<1>2. spent \in Dbs /\ \A v \in spent.utxos : \E u \in d.utxos : Marked(u, v, ToSet(tx.ins))
  BY <1>1, MarkSpentFacts
<1> HIDE DEF spent
<1>3. ASSUME NEW o \in OutsOf(k, tx)
      PROVE  /\ o \in Outpoints /\ o.height = k /\ o \notin DOMAIN d.ranges
             /\ \A u \in spent.utxos : u.out # o
  <2>1. o \in Outpoints /\ o.height = k
    BY <1>1, OutsOfFacts
  <2>2. \A p \in DOMAIN d.ranges : p.height <= h
    BY DEF Grounded
  <2>3. ASSUME NEW v \in spent.utxos, v.out = o PROVE FALSE
    <3>1. PICK u \in d.utxos : u.out = v.out
      BY <1>2 DEF Marked
    <3>2. u.out.height <= h
      BY DEF Grounded
    <3> QED
      BY <2>1, <2>3, <3>1, <3>2
  <2> QED
    BY <2>1, <2>2, <2>3
<1>4. spent \in TxDbs(tx, k)
  BY <1>2, <1>3 DEF TxDbs
<1>5. Gave(spent, ParseTx(d, tx, k), TxGifts(d, tx, k), tx, k)
  BY <1>1, <1>4, ParseTxGives DEF spent
<1>6. TxGifts(d, tx, k) \subseteq Gifts(tx, k)
  BY <1>1, GiftsType
<1> QED
  BY <1>3, <1>5, <1>6 DEF spent

(* What is given to an output rests there.                                  *)
LEMMA GiftsRest ==
  ASSUME NEW h \in Nat, NEW k \in Nat, h < k, NEW d, Grounded(d, h), NEW tx, Allowed(tx),
         NEW o \in OutsOf(k, tx)
  PROVE  TokensIn(UnspentRanges(ParseTx(d, tx, k), o))
         = GivenTokens({f \in TxGifts(d, tx, k) : f.out = o})
<1> DEFINE spent == MarkSpent(d, ToSet(tx.ins))
           e     == ParseTx(d, tx, k)
           S     == TxGifts(d, tx, k)
           mine  == {f \in S : f.out = o}
<1>1. /\ Gave(spent, e, S, tx, k) /\ S \subseteq Gifts(tx, k)
      /\ o \in Outpoints /\ o \notin DOMAIN d.ranges
  BY ParseGives
<1>2. d \in Dbs /\ spent.ranges = d.ranges
  BY MarkSpentFacts DEF Grounded
<1> HIDE DEF spent, e, S
<1>3. RangesAt(spent, o) = << >>
  BY <1>1, <1>2 DEF RangesAt
<1>4. ToSet(RangesAt(e, o)) = UNION {ToSet(f.ranges) : f \in mine}
  <2>1. ToSet(RangesAt(e, o)) = ToSet(RangesAt(spent, o)) \cup UNION {ToSet(f.ranges) : f \in mine}
    BY <1>1 DEF Gave
  <2>2. ToSet(RangesAt(spent, o)) = {}
    BY <1>3 DEF ToSet
  <2> QED
    BY <2>1, <2>2
<1>5. ASSUME NEW f \in mine, NEW r \in ToSet(f.ranges)
      PROVE  r.group \in UnspentGroups(e, o)
  <2>1. f \in S /\ f.out = o
    OBVIOUS
  <2>2. r.group \in GroupsIn(f.ranges)
    BY DEF GroupsIn
  <2>3. NewRow(tx, k, o, r.group) \in NewRows(f, tx, k)
    BY <2>1, <2>2 DEF NewRows
  <2>4. NewRow(tx, k, o, r.group) \in e.utxos
    BY <1>1, <2>1, <2>3 DEF Gave
  <2>5. /\ NewRow(tx, k, o, r.group).out = o /\ NewRow(tx, k, o, r.group).group = r.group
        /\ ~NewRow(tx, k, o, r.group).spent
    BY DEF NewRow
  <2> QED
    BY <2>4, <2>5 DEF UnspentGroups
<1>6. e \in Dbs
  BY <1>1 DEF Gave, TxDbs
<1>7. ToSet(UnspentRanges(e, o)) = {r \in ToSet(RangesAt(e, o)) : r.group \in UnspentGroups(e, o)}
  BY <1>6, UnspentRangesType
<1> HIDE DEF mine
<1>8. ToSet(UnspentRanges(e, o)) = UNION {ToSet(f.ranges) : f \in mine}
  BY <1>4, <1>5, <1>7
<1>9. TokensIn(UnspentRanges(e, o)) = GivenTokens(mine)
  <2>1. TokensIn(UnspentRanges(e, o)) = UNION {TokensOf(r) : r \in UNION {ToSet(f.ranges) : f \in mine}}
    BY <1>8 DEF TokensIn
  <2>2. GivenTokens(mine) = UNION {UNION {TokensOf(r) : r \in ToSet(f.ranges)} : f \in mine}
    BY DEF GivenTokens, TokensIn
  <2> QED
    BY <2>1, <2>2
<1> QED
  BY <1>9 DEF mine, S, e

(* An earlier output that is not spent keeps what it has.                   *)
LEMMA OthersStay ==
  ASSUME NEW h \in Nat, NEW k \in Nat, h < k, NEW d, Grounded(d, h), NEW tx, Allowed(tx),
         NEW o \in Outpoints, o.height <= h, o \notin ToSet(tx.ins)
  PROVE  AgreeAt(d, ParseTx(d, tx, k), o)
<1> DEFINE ins   == ToSet(tx.ins)
           spent == MarkSpent(d, ins)
           e     == ParseTx(d, tx, k)
           S     == TxGifts(d, tx, k)
<1>1. /\ Gave(spent, e, S, tx, k) /\ S \subseteq Gifts(tx, k)
      /\ \A p \in OutsOf(k, tx) : p.height = k
  BY ParseGives
<1>2. /\ d \in Dbs /\ spent.ranges = d.ranges
      /\ \A v \in spent.utxos : \E u \in d.utxos : Marked(u, v, ins)
      /\ \A u \in d.utxos : \E v \in spent.utxos : Marked(u, v, ins)
  BY MarkSpentFacts DEF Grounded
<1>3. o \notin ins
  OBVIOUS
<1> HIDE DEF spent, e, S, ins
<1>4. o \notin OutsOf(k, tx)
  <2>1. o.height # k
    BY DEF Outpoints
  <2> QED
    BY <1>1, <2>1
<1>5. RangesAt(e, o) = RangesAt(d, o)
  <2>1. RangesAt(e, o) = RangesAt(spent, o)
    BY <1>1, <1>4 DEF Gave
  <2> QED
    BY <1>2, <2>1 DEF RangesAt
<1>6. ASSUME NEW u \in e.utxos, u.out = o PROVE u \in spent.utxos
  <2>1. ASSUME NEW f \in S, u \in NewRows(f, tx, k) PROVE FALSE
    <3>1. u.out = f.out
      BY <2>1 DEF NewRows, NewRow
    <3>2. f.out \in OutsOf(k, tx)
      BY <1>1 DEF Gifts
    <3> QED
      BY <1>4, <1>6, <3>1, <3>2
  <2> QED
    BY <1>1, <2>1 DEF Gave
<1>7. UnspentGroups(e, o) \subseteq UnspentGroups(d, o)
  <2> SUFFICES ASSUME NEW v \in e.utxos, v.out = o, ~v.spent PROVE v.group \in UnspentGroups(d, o)
    BY DEF UnspentGroups
  <2>1. PICK u \in d.utxos : Marked(u, v, ins)
    BY <1>2, <1>6
  <2> QED
    BY <2>1 DEF Marked, UnspentGroups
<1>8. UnspentGroups(d, o) \subseteq UnspentGroups(e, o)
  <2> SUFFICES ASSUME NEW u \in d.utxos, u.out = o, ~u.spent PROVE u.group \in UnspentGroups(e, o)
    BY DEF UnspentGroups
  <2>1. PICK v \in spent.utxos : Marked(u, v, ins)
    BY <1>2
  <2>2. v \in e.utxos /\ ~v.spent /\ v.out = o /\ v.group = u.group
    BY <1>1, <1>3, <2>1 DEF Gave, Marked
  <2> QED
    BY <2>2 DEF UnspentGroups
<1>9. UnspentGroups(e, o) = UnspentGroups(d, o)
  BY <1>7, <1>8
<1>10. UnspentRanges(e, o) = UnspentRanges(d, o)
  BY <1>5, <1>9 DEF UnspentRanges
<1> QED
  BY <1>9, <1>10 DEF AgreeAt, e

(* The block's tables are grounded again.                                   *)
LEMMA StaysGrounded ==
  ASSUME NEW h \in Nat, NEW k \in Nat, h < k, NEW d, Grounded(d, h), NEW tx, Allowed(tx)
  PROVE  Grounded(ParseTx(d, tx, k), k)
<1> DEFINE ins   == ToSet(tx.ins)
           spent == MarkSpent(d, ins)
           e     == ParseTx(d, tx, k)
           S     == TxGifts(d, tx, k)
<1>1. /\ Gave(spent, e, S, tx, k) /\ S \subseteq Gifts(tx, k)
      /\ \A p \in OutsOf(k, tx) : p \in Outpoints /\ p.height = k
      /\ \A p \in OutsOf(k, tx) : \A u \in spent.utxos : u.out # p
  BY ParseGives
<1>2. /\ d \in Dbs /\ spent.ranges = d.ranges
      /\ \A v \in spent.utxos : \E u \in d.utxos : Marked(u, v, ins)
  BY MarkSpentFacts DEF Grounded
<1> HIDE DEF spent, e, S, ins
<1>3. e \in Dbs
  BY <1>1 DEF Gave, TxDbs
<1>4. ASSUME NEW o \in DOMAIN e.ranges PROVE o.height <= k
  <2>1. o \in DOMAIN d.ranges \/ o \in OutsOf(k, tx)
    BY <1>1, <1>2 DEF Gave
  <2>2. CASE o \in DOMAIN d.ranges
    <3>1. o.height <= h
      BY <2>2 DEF Grounded
    <3>2. o \in Outpoints
      <4>1. d.ranges \in RangeTables
        BY <1>2 DEF Dbs
      <4>2. PICK D \in SUBSET Outpoints : d.ranges \in [D -> Seq(AllRanges)]
        BY <4>1 DEF RangeTables
      <4> QED
        BY <2>2, <4>2
    <3>3. o.height \in Nat
      BY <3>2 DEF Outpoints
    <3> QED
      BY <3>1, <3>3
  <2>3. CASE o \in OutsOf(k, tx)
    BY <1>1, <2>3
  <2> QED
    BY <2>1, <2>2, <2>3
<1>5. ASSUME NEW u \in e.utxos
      PROVE  u.out.height <= k /\ \E r \in ToSet(RangesAt(e, u.out)) : r.group = u.group
  <2>1. CASE u \in spent.utxos
    <3>1. PICK v \in d.utxos : v.out = u.out /\ v.group = u.group
      BY <1>2, <2>1 DEF Marked
    <3>2. v.out.height <= h /\ \E r \in ToSet(RangesAt(d, v.out)) : r.group = v.group
      BY DEF Grounded
    <3>3. v.out \in Outpoints /\ v.out.height \in Nat
      BY <1>2 DEF Dbs, RowTypes, Outpoints
    <3>4. u.out \notin OutsOf(k, tx)
      BY <1>1, <2>1
    <3>5. RangesAt(e, u.out) = RangesAt(d, u.out)
      <4>1. RangesAt(e, u.out) = RangesAt(spent, u.out)
        BY <1>1, <3>1, <3>3, <3>4 DEF Gave
      <4> QED
        BY <1>2, <4>1 DEF RangesAt
    <3>6. u.out.height <= k
      BY <3>1, <3>2, <3>3
    <3> QED
      BY <3>1, <3>2, <3>5, <3>6
  <2>2. CASE u \notin spent.utxos
    <3>1. PICK f \in S : u \in NewRows(f, tx, k)
      BY <1>1, <2>2 DEF Gave
    <3>2. PICK g \in GroupsIn(f.ranges) : u = NewRow(tx, k, f.out, g)
      BY <3>1 DEF NewRows
    <3>3. u.out = f.out /\ u.group = g
      BY <3>2 DEF NewRow
    <3>4. f.out \in OutsOf(k, tx)
      BY <1>1 DEF Gifts
    <3>5. PICK r \in ToSet(f.ranges) : r.group = g
      BY <3>2 DEF GroupsIn
    <3>6. r \in ToSet(RangesAt(e, f.out))
      <4>1. ToSet(RangesAt(e, f.out)) = ToSet(RangesAt(spent, f.out))
                                        \cup UNION {ToSet(i.ranges) : i \in {i \in S : i.out = f.out}}
        BY <1>1, <3>4 DEF Gave
      <4> QED
        BY <3>5, <4>1
    <3> QED
      BY <1>1, <3>3, <3>4, <3>5, <3>6
  <2> QED
    BY <2>1, <2>2
<1>6. Grounded(e, k)
  BY <1>3, <1>4, <1>5 DEF Grounded
<1> QED
  BY <1>6 DEF e

(* Without an OP_RETURN, output i - 1 takes what token input i carries.     *)
LEMMA TransferRests ==
  ASSUME NEW h \in Nat, NEW k \in Nat, h < k, NEW d, Grounded(d, h), NEW tx, Allowed(tx),
         Message(tx).cmd # "mix", \A v \in 1..Len(tx.outs) : tx.outs[v] # OpReturn,
         NEW i \in 1..Len(TokenInputs(d, tx)), i <= Len(tx.outs)
  PROVE  TokensIn(UnspentRanges(d, TokenInputs(d, tx)[i]))
         \subseteq TokensIn(UnspentRanges(ParseTx(d, tx, k), Out(k, i - 1)))
<1> DEFINE all == [v \in 1..Len(tx.outs) |-> v - 1]
           rs  == UnspentRanges(d, TokenInputs(d, tx)[i])
           o   == Out(k, i - 1)
           S   == TxGifts(d, tx, k)
<1>1. d \in Dbs /\ tx \in TxTypes
  BY DEF Grounded, Allowed
<1>2. PICK outs : outs = tx.outs /\ outs \in Seq(Scripts \cup {OpReturn})
  BY <1>1 DEF TxTypes
<1>3. RemainingOutputs(tx) = all
  <2>1. all \in Seq(Int)
    BY <1>2
  <2>2. ToSet(all) \subseteq {v \in 0..Len(tx.outs) - 1 : ScriptAt(tx, v) # OpReturn}
    <3> SUFFICES ASSUME NEW j \in 1..Len(outs)
                 PROVE  j - 1 \in 0..Len(outs) - 1 /\ ScriptAt(tx, j - 1) # OpReturn
      BY <1>2 DEF ToSet
    <3>1. j - 1 + 1 = j
      OBVIOUS
    <3> QED
      BY <1>2, <3>1 DEF ScriptAt
  <2>3. Keep(all, {v \in 0..Len(tx.outs) - 1 : ScriptAt(tx, v) # OpReturn}) = all
    <3> HIDE DEF all
    <3> QED
      BY <2>1, <2>2, KeepFacts
  <2> QED
    BY <2>3 DEF RemainingOutputs
<1>4. i \in 1..Len(outs)
  <2>1. Len(TokenInputs(d, tx)) \in Nat
    BY <1>1, TransferGiftsType
  <2> QED
    BY <1>2, <2>1
<1>5. Dest(tx, i) = i - 1
  <2>1. Len(all) = Len(outs) /\ all[i] = i - 1 /\ all # << >>
    BY <1>2, <1>4
  <2> HIDE DEF all
  <2> QED
    BY <1>2, <1>3, <1>4, <2>1 DEF Dest
<1>6. o \in OutsOf(k, tx)
  <2>1. i - 1 \in Nat /\ i - 1 < Len(tx.outs)
    BY <1>2, <1>4
  <2> QED
    BY <1>1, <2>1, OutIsOf
<1> DEFINE f == [out |-> Out(k, Dest(tx, i)), rows |-> rs, ranges |-> MergeOrdered(rs)]
<1>7. f \in S /\ f.out = o /\ f.ranges = MergeOrdered(rs)
  <2>1. PICK gs : gs = TransferGifts(d, tx, k) /\ gs \in Seq(Gifts(tx, k)) /\ Len(gs) = Len(TokenInputs(d, tx))
    BY <1>1, TransferGiftsType
  <2>2. gs[i] = f /\ i \in 1..Len(gs)
    BY <2>1 DEF TransferGifts
  <2>3. gs[i] \in ToSet(gs)
    BY <2>1, <2>2 DEF ToSet
  <2>4. ToSet(gs) \subseteq S
    BY <2>1 DEF TxGifts
  <2>5. f.out = o /\ f.ranges = MergeOrdered(rs)
    BY <1>5
  <2> HIDE DEF f, S
  <2> QED
    BY <2>2, <2>3, <2>4, <2>5
<1>8. TokensIn(MergeOrdered(rs)) = TokensIn(rs)
  <2>1. rs \in Seq(AllRanges)
    BY <1>1, UnspentRangesType
  <2> HIDE DEF rs
  <2>2. MergeOrdered(rs) \in Seq(AllRanges) /\ Expand(MergeOrdered(rs)) = Expand(rs)
    BY <2>1, MergeFacts, LedgerConstants DEF AllRanges
  <2> QED
    BY <2>1, <2>2, TokensInExpand
<1> HIDE DEF f, o, rs, S
<1>9. TokensIn(UnspentRanges(ParseTx(d, tx, k), o)) = GivenTokens({g \in S : g.out = o})
  BY <1>6, GiftsRest DEF S
<1>10. TokensIn(f.ranges) \subseteq GivenTokens({g \in S : g.out = o})
  BY <1>7 DEF GivenTokens
<1> QED
  BY <1>7, <1>8, <1>9, <1>10 DEF rs, o

(* Output j of an accepted Mix has the tokens of its indices.               *)
LEMMA MixRests ==
  ASSUME NEW h \in Nat, NEW k \in Nat, h < k, NEW d, Grounded(d, h), NEW tx, Allowed(tx),
         Message(tx).cmd = "mix", MixAccepted(d, tx), NEW j \in 1..Len(Message(tx).outs)
  PROVE  TokensIn(UnspentRanges(ParseTx(d, tx, k), Out(k, j)))
         = {Expand(InputRanges(d, tx))[x + 1] : x \in Given(Message(tx), InputRanges(d, tx), j)}
<1> DEFINE m  == Message(tx)
           rs == InputRanges(d, tx)
           o  == Out(k, j)
           as == Assigned(m, rs, j)
           f  == [out |-> o, rows |-> as, ranges |-> as]
           S  == TxGifts(d, tx, k)
<1>1. d \in Dbs /\ tx \in TxTypes
  BY DEF Grounded, Allowed
<1>2. /\ S = ToSet(MixGifts(d, tx, k)) /\ MixGifts(d, tx, k) \in Seq(Gifts(tx, k))
      /\ Len(MixGifts(d, tx, k)) = Len(m.outs) /\ Len(m.outs) \in Nat /\ o \in OutsOf(k, tx)
  BY <1>1, MixGiftsType DEF TxGifts
<1>3. \A g \in S : g.out = o => g = f
  <2> SUFFICES ASSUME NEW i \in 1..Len(m.outs), MixGifts(d, tx, k)[i].out = o
               PROVE  MixGifts(d, tx, k)[i] = f
    BY <1>2 DEF ToSet
  <2>1. MixGifts(d, tx, k)[i] = [out |-> Out(k, i), rows |-> Assigned(m, rs, i), ranges |-> Assigned(m, rs, i)]
    BY DEF MixGifts
  <2>2. i = j
    BY <2>1 DEF Out
  <2> QED
    BY <2>1, <2>2
<1>4. f \in S /\ f.out = o /\ f.ranges = as
  <2>1. MixGifts(d, tx, k)[j] = f
    BY DEF MixGifts
  <2> HIDE DEF f
  <2>2. f \in S
    BY <1>2, <2>1 DEF ToSet
  <2> QED
    BY <2>2 DEF f
<1>5. rs \in Seq(AllRanges) /\ DecodedMix(m)
  BY <1>1, TokenInputsFacts, MessageFacts
<1> HIDE DEF m, rs
<1>6. as \in Seq(AllRanges) /\ Expand(as) = TokensAt(rs, IndicesOf(m, rs, j))
  BY <1>5, AssignedByIndex, LedgerConstants DEF AllRanges
<1>7. /\ IndicesOf(m, rs, j) \in Seq(0..Total(rs) - 1)
      /\ ToSet(IndicesOf(m, rs, j)) = Given(m, rs, j)
  BY <1>5, IndicesOfFacts, LedgerConstants DEF AllRanges
<1> HIDE DEF as, f, o, S
<1>8. TokensIn(UnspentRanges(ParseTx(d, tx, k), o)) = GivenTokens({g \in S : g.out = o})
  BY <1>2, GiftsRest DEF S
<1>9. GivenTokens({g \in S : g.out = o}) = TokensIn(as)
  <2>1. {g \in S : g.out = o} = {f}
    BY <1>3, <1>4
  <2> QED
    BY <1>4, <2>1 DEF GivenTokens
<1>10. TokensIn(as) = ToSet(TokensAt(rs, IndicesOf(m, rs, j)))
  BY <1>6, TokensInExpand
<1>11. ToSet(TokensAt(rs, IndicesOf(m, rs, j))) = {Expand(rs)[x + 1] : x \in Given(m, rs, j)}
  <2>1. PICK idx : idx = IndicesOf(m, rs, j) /\ idx \in Seq(0..Total(rs) - 1)
    BY <1>7
  <2>2. ToSet(TokensAt(rs, idx)) = {Expand(rs)[idx[i] + 1] : i \in 1..Len(idx)}
    BY <2>1 DEF TokensAt, ToSet
  <2>3. ToSet(idx) = {idx[i] : i \in 1..Len(idx)} /\ ToSet(idx) = Given(m, rs, j)
    BY <1>7, <2>1 DEF ToSet
  <2>4. {Expand(rs)[idx[i] + 1] : i \in 1..Len(idx)} = {Expand(rs)[x + 1] : x \in {idx[i] : i \in 1..Len(idx)}}
    OBVIOUS
  <2> QED
    BY <2>1, <2>2, <2>3, <2>4
<1> QED
  BY <1>8, <1>9, <1>10, <1>11 DEF m, rs, o

(* If no input carries tokens, output j of a registration has group j.      *)
LEMMA RegistrationRests ==
  ASSUME NEW h \in Nat, NEW k \in Nat, h < k, NEW d, Grounded(d, h), NEW tx, Allowed(tx),
         Registers(tx), TokenInputs(d, tx) = << >>, NEW j \in 1..Len(Message(tx).groups)
  PROVE  TokensIn(UnspentRanges(ParseTx(d, tx, k), Out(k, j))) = TokensIn(RegisteredRanges(tx, j))
<1> DEFINE o  == Out(k, j)
           as == RegisteredRanges(tx, j)
           f  == [out |-> o, rows |-> as, ranges |-> as]
           S  == TxGifts(d, tx, k)
<1>1. d \in Dbs /\ tx \in TxTypes
  BY DEF Grounded, Allowed
<1>2. PICK gs : gs = OwnershipGifts(tx, k) /\ gs \in Seq(Gifts(tx, k))
                /\ Len(gs) = Len(Message(tx).groups) /\ o \in OutsOf(k, tx)
  BY <1>1, RegistersFacts, OwnershipGiftsType
<1>3. S = ToSet(gs)
  <2>1. ToSet(TransferGifts(d, tx, k)) = {}
    <3>1. Len(TokenInputs(d, tx)) = 0
      OBVIOUS
    <3>2. TransferGifts(d, tx, k) \in Seq(Gifts(tx, k)) /\ Len(TransferGifts(d, tx, k)) = 0
      BY <1>1, <3>1, TransferGiftsType
    <3> QED
      BY <3>2 DEF ToSet
  <2>2. Message(tx).cmd = "ownership"
    BY RegistersFacts
  <2> QED
    BY <1>2, <2>1, <2>2 DEF TxGifts, Registration
<1>4. \A g \in S : g.out = o => g = f
  <2> SUFFICES ASSUME NEW i \in 1..Len(gs), gs[i].out = o
               PROVE  gs[i] = f
    BY <1>2, <1>3 DEF ToSet
  <2>1. gs[i] = [out |-> Out(k, i), rows |-> RegisteredRanges(tx, i), ranges |-> RegisteredRanges(tx, i)]
    BY <1>2 DEF OwnershipGifts
  <2>2. i = j
    BY <2>1 DEF Out
  <2> QED
    BY <2>1, <2>2
<1>5. f \in S /\ f.out = o /\ f.ranges = as
  <2>1. gs[j] = f
    BY <1>2 DEF OwnershipGifts
  <2> HIDE DEF f
  <2>2. f \in S
    BY <1>2, <1>3, <2>1 DEF ToSet
  <2> QED
    BY <2>2 DEF f
<1> HIDE DEF as, f, o, S
<1>6. TokensIn(UnspentRanges(ParseTx(d, tx, k), o)) = GivenTokens({g \in S : g.out = o})
  BY <1>2, GiftsRest DEF S
<1>7. {g \in S : g.out = o} = {f}
  BY <1>4, <1>5
<1> QED
  BY <1>5, <1>6, <1>7 DEF GivenTokens, as, o

LEMMA GroupsHaveRanges ==
  ASSUME NEW h, NEW d, Grounded(d, h), NEW o, UnspentGroups(d, o) # {}
  PROVE  UnspentRanges(d, o) # << >>
<1>1. PICK u \in d.utxos : u.out = o /\ ~u.spent
  BY DEF UnspentGroups
<1>2. PICK r \in ToSet(RangesAt(d, o)) : r.group = u.group
  BY <1>1 DEF Grounded
<1>3. u.group \in UnspentGroups(d, o)
  BY <1>1 DEF UnspentGroups
<1>4. r \in ToSet(UnspentRanges(d, o))
  BY <1>2, <1>3, UnspentRangesType DEF Grounded
<1> QED
  BY <1>4 DEF ToSet

(* What comes after, and is none of it, is not kept.                        *)
LEMMA KeepPrefix ==
  ASSUME NEW A, NEW s \in Seq(A), NEW t \in Seq(A), NEW S, ToSet(s) \subseteq S, ToSet(t) \cap S = {}
  PROVE  Keep(s \o t, S) = s
<1> DEFINE f == [u \in Seq(A) |-> Keep(u, S)]
<1>1. Splits(f, s, t)
  <2>1. ByElement(f, A, A)
    BY KeepByElement
  <2> HIDE DEF f
  <2> QED
    BY <2>1, OfConcat
<1>2. s \o t \in Seq(A)
  OBVIOUS
<1>3. Keep(s \o t, S) = Keep(s, S) \o Keep(t, S)
  BY <1>1, <1>2 DEF Splits
<1>4. Keep(s, S) = s /\ Keep(t, S) = << >>
  BY KeepFacts
<1>5. s \o << >> = s
  OBVIOUS
<1> QED
  BY <1>3, <1>4, <1>5

RangesOfAll(d, s) == FlattenSeq([i \in 1..Len(s) |-> UnspentRanges(d, s[i])])
Joined(s, t, u) == u = s \o t

(* Of named inputs that carry tokens and others, behind them, that do not,  *)
(* a Mix numbers the tokens of the named.                                   *)
LEMMA NamedFirst ==
  ASSUME NEW h, NEW d, Grounded(d, h), NEW tx, Allowed(tx),
         NEW named \in Seq(Outpoints), NEW rest \in Seq(Outpoints), Joined(named, rest, tx.ins),
         \A o \in ToSet(named) : UnspentRanges(d, o) # << >>,
         \A o \in ToSet(rest) : UnspentRanges(d, o) = << >>
  PROVE  /\ TokenInputs(d, tx) = named /\ OwnershipInputsArePrefix(d, tx)
         /\ InputRanges(d, tx) = RangesOfAll(d, named)
<1> DEFINE S == {o \in ToSet(tx.ins) : UnspentRanges(d, o) # << >>}
<1>1. PICK ins : ins = named \o rest /\ ins \in Seq(Outpoints) /\ Len(ins) = Len(named) + Len(rest)
        /\ (\A i \in 1..Len(named) : ins[i] = named[i])
        /\ (\A i \in 1..Len(ins) : i \notin 1..Len(named) => ins[i] \in ToSet(rest))
  <2>1. /\ named \o rest \in Seq(Outpoints) /\ Len(named \o rest) = Len(named) + Len(rest)
        /\ \A i \in 1..Len(named) : (named \o rest)[i] = named[i]
    OBVIOUS
  <2>2. ASSUME NEW i \in 1..Len(named \o rest), i \notin 1..Len(named)
        PROVE  (named \o rest)[i] \in ToSet(rest)
    <3>1. i - Len(named) \in 1..Len(rest) /\ (named \o rest)[i] = rest[i - Len(named)]
      BY <2>2
    <3> QED
      BY <3>1 DEF ToSet
  <2> QED
    BY <2>1, <2>2
<1>2. tx.ins = ins /\ Len(named) \in Nat /\ Len(rest) \in Nat
  BY <1>1 DEF Joined
<1>3. \A i \in 1..Len(named) : named[i] \in ToSet(named)
  BY DEF ToSet
<1>4. TokenInputs(d, tx) = named
  <2>1. ToSet(named) \subseteq ToSet(ins)
    <3>1. \A i \in 1..Len(named) : i \in 1..Len(ins)
      BY <1>1, <1>2
    <3>2. \A i \in 1..Len(named) : named[i] = ins[i] /\ ins[i] \in ToSet(ins)
      <4>1. \A i \in 1..Len(ins) : ins[i] \in ToSet(ins)
        <5>1. ins \in Seq(Outpoints)
          BY <1>1
        <5> QED
          BY <5>1 DEF ToSet
      <4>2. \A i \in 1..Len(named) : named[i] = ins[i]
        BY <1>1
      <4> QED
        BY <3>1, <4>1, <4>2
    <3>3. ToSet(named) = {named[i] : i \in 1..Len(named)}
      BY DEF ToSet
    <3> QED
      BY <3>2, <3>3
  <2>2. ToSet(named) \subseteq S /\ ToSet(rest) \cap S = {}
    BY <1>2, <2>1
  <2>3. TokenInputs(d, tx) = Keep(named \o rest, S)
    BY DEF TokenInputs, Joined
  <2> HIDE DEF S
  <2> QED
    BY <2>2, <2>3, KeepPrefix
<1>5. OwnershipInputsArePrefix(d, tx)
  <2> SUFFICES ASSUME NEW j \in 1..Len(ins), NEW i \in 1..j, UnspentRanges(d, ins[j]) # << >>
               PROVE  UnspentRanges(d, ins[i]) # << >>
    BY <1>2 DEF OwnershipInputsArePrefix
  <2>1. j \in 1..Len(named)
    BY <1>1
  <2>2. i \in 1..Len(named)
    BY <1>2, <2>1
  <2> QED
    BY <1>1, <1>3, <2>2
<1> QED
  BY <1>4, <1>5 DEF InputRanges, RangesOfAll

LEMMA ListedDistinct ==
  ASSUME NEW S, NEW s \in Seq(S), NEW t \in Seq(S), Distinct(s), ToSet(s) \subseteq ToSet(t)
  PROVE  Len(s) <= Len(t)
<1>1. PICK m \in Nat, n \in Nat : m = Len(s) /\ n = Len(t)
  <2>1. Len(s) \in Nat /\ Len(t) \in Nat
    OBVIOUS
  <2> QED
    BY <2>1
<1>2. ASSUME NEW l \in Nat PROVE IsFiniteSet(1..l) /\ Cardinality(1..l) = l
  <2>1. 1 \in Int /\ l \in Int /\ l - 1 + 1 = l
    OBVIOUS
  <2>2. IsFiniteSet(1..l) /\ Cardinality(1..l) = IF 1 > l THEN 0 ELSE l - 1 + 1
    BY <2>1, FS_Interval
  <2> QED
    BY <2>1, <2>2
<1>3. t \in Surjection(1..n, ToSet(t))
  BY <1>1 DEF Surjection, ToSet
<1>4. IsFiniteSet(ToSet(t)) /\ Cardinality(ToSet(t)) <= n
  BY <1>1, <1>2, <1>3, FS_Surjection
<1>5. s \in Injection(1..m, ToSet(t))
  <2>1. \A i \in 1..m : s[i] \in ToSet(s)
    BY <1>1 DEF ToSet
  <2>2. s \in [1..m -> ToSet(t)]
    BY <1>1, <2>1
  <2> QED
    BY <1>1, <2>2 DEF Injection, IsInjective, Distinct
<1>6. m <= Cardinality(ToSet(t))
  BY <1>1, <1>2, <1>4, <1>5, FS_Injection
<1>7. Cardinality(ToSet(t)) \in Nat
  BY <1>4, FS_CardinalityType
<1> QED
  BY <1>1, <1>4, <1>6, <1>7

(* If only the named inputs carry tokens, the first outputs take them.      *)
LEMMA NamedTransferred ==
  ASSUME NEW h \in Nat, NEW k \in Nat, h < k, NEW d, Grounded(d, h), NEW tx, Allowed(tx),
         Message(tx).cmd # "mix", \A v \in 1..Len(tx.outs) : tx.outs[v] # OpReturn,
         NEW named \in Seq(Outpoints), Distinct(tx.ins), Len(named) <= Len(tx.outs),
         \A o \in ToSet(tx.ins) \ ToSet(named) : UnspentRanges(d, o) = << >>,
         NEW o \in ToSet(named), o \in ToSet(tx.ins), NEW t \in TokensIn(UnspentRanges(d, o))
  PROVE  \E i \in 1..Len(named) : t \in TokensIn(UnspentRanges(ParseTx(d, tx, k), Out(k, i - 1)))
<1> DEFINE S == {p \in ToSet(tx.ins) : UnspentRanges(d, p) # << >>}
<1>1. d \in Dbs /\ tx \in TxTypes /\ tx.ins \in Seq(Outpoints) /\ Len(tx.outs) \in Nat
  BY DEF Grounded, Allowed, TxTypes
<1>2. PICK ins : ins = TokenInputs(d, tx) /\ ins \in Seq(Outpoints) /\ ToSet(ins) = S
  BY <1>1, TokenInputsFacts
<1>3. Distinct(ins)
  <2>1. ins = Keep(tx.ins, S)
    BY <1>2 DEF TokenInputs
  <2> HIDE DEF S
  <2> QED
    BY <1>1, <2>1, KeepDistinct
<1>4. Len(ins) <= Len(named)
  <2>1. ToSet(ins) \subseteq ToSet(named)
    BY <1>2
  <2> QED
    BY <1>2, <1>3, <2>1, ListedDistinct
<1>5. o \in ToSet(ins)
  <2>1. UnspentRanges(d, o) # << >>
    BY TokensInEmpty
  <2> QED
    BY <1>2, <2>1
<1>6. PICK i \in 1..Len(ins) : ins[i] = o
  BY <1>2, <1>5 DEF ToSet
<1>7. i \in 1..Len(named) /\ i <= Len(tx.outs)
  BY <1>1, <1>2, <1>4
<1> HIDE DEF S
<1>8. TokensIn(UnspentRanges(d, ins[i])) \subseteq TokensIn(UnspentRanges(ParseTx(d, tx, k), Out(k, i - 1)))
  BY <1>2, <1>7, TransferRests
<1> QED
  BY <1>6, <1>7, <1>8

=============================================================================
