------------------------------ MODULE RestProofs ------------------------------
(***************************************************************************)
(* What the readers of the ownership tables answer, for any chain and       *)
(* however blocks are committed between their queries.  The ranges of an    *)
(* output never change once it exists (HeldAfter, RangesAfter), and that is *)
(* why queries made one after another add up to one moment.                 *)
(***************************************************************************)
EXTENDS Rest, LedgerProofs

(* What a reply gets from a row.                                            *)
RowHoldings(u) == {<<t, u.out>> : t \in ToSet(Expand(RangesOfRow(u)))}

Listing(rows) == UNION {RowHoldings(u) : u \in rows}

(* A row of the table, spent or not, backs the answer about a token.        *)
Backed(r) ==
  \E u \in utxos : /\ u.out = r.out /\ u.owner = r.owner
                   /\ u.group = r.arg.group /\ r.arg \in EverHeld(u.out)

ReadingRows ==
  /\ req = [kind |-> req.kind, arg |-> req.arg, rows |-> req.rows, all |-> req.all,
            got |-> req.got, truth |-> req.truth]
  /\ req.rows \subseteq req.all
  /\ \A u \in req.all : u.out \in ChainOuts
  /\ req.got = Listing(req.all \ req.rows)
  /\ req.truth = IF req.kind = "address" THEN Listing(req.all) ELSE {g[1] : g \in Listing(req.all)}

(* The rows of the outpoint are those of the token the client was told of.  *)
Follows ==
  prior # NoReply /\ req.kind = "utxo" =>
    prior.arg \in req.truth /\ \A u \in req.all : u.owner = prior.owner

(* What `wallet assets` has read: a token that an address held at the first *)
(* query and still holds has been read, or rests where a query is to come,  *)
(* for its address, its outpoint or the ranges of its row.                  *)
Awaited(h) ==
  ScriptOf(h[2]) \in req.left \/ h[2] \in req.outs \/ h \in Listing(req.rows) \/ h \in req.got

ReadingWallet ==
  /\ req = [kind |-> req.kind, arg |-> req.arg, left |-> req.left, outs |-> req.outs,
            rows |-> req.rows, got |-> req.got, since |-> req.since, ever |-> req.ever]
  /\ req.arg \subseteq Scripts /\ req.left \subseteq req.arg
  /\ \A o \in req.outs : o \in ChainOuts /\ ScriptOf(o) \in req.arg
  /\ \A u \in req.rows : u.out \in ChainOuts
  /\ HeldBy(req.arg) \subseteq req.ever /\ Listing(req.rows) \subseteq req.ever /\ req.got \subseteq req.ever
  /\ \A h \in req.since : h[2] \in ChainOuts
  /\ \A h \in req.since \cap Holds : Awaited(h)

ReqOK ==
  /\ "kind" \in DOMAIN req
  /\ req.kind = "token" => req.arg \in Client.token
  /\ req.kind \in {"address", "utxo"} => ReadingRows
  /\ req.kind = "wallet" => ReadingWallet
  /\ Follows

Answers ==
  /\ ListingIsSnapshot
  /\ OwnerAnswer
  /\ OwnerThenAssets
  /\ StillTokensListed
  /\ reply.kind = "token" /\ reply.found /\ reply.status = "registered" => Backed(reply)

RestInv == IInv /\ ReqOK /\ Answers

-----------------------------------------------------------------------------
(* The tokens a row shows are those of its group its output was given.      *)
LEMMA RowTokens ==
  ASSUME TablesInv, NEW u
  PROVE  RowHoldings(u) = {<<t, u.out>> : t \in {t \in EverHeld(u.out) : t.group = u.group}}
<1> DEFINE mine == {r \in ToSet(RangesAt(Db, u.out)) : r.group = u.group}
<1>1. PICK rs : rs = RangesAt(Db, u.out) /\ rs \in Seq(AllRanges)
  BY RangesAtType DEF TablesInv, TablesOK
<1>2. PICK ks : ks = RangesOfRow(u) /\ ks \in Seq(AllRanges) /\ ToSet(ks) = ToSet(rs) \cap mine
  BY <1>1, KeepFacts DEF RangesOfRow
<1>3. ToSet(ks) = mine
  BY <1>1, <1>2
<1>4. ToSet(Expand(ks)) = UNION {TokensOf(r) : r \in mine}
  BY <1>2, <1>3, TokensInExpand DEF TokensIn
<1>5. \A r : \A t \in TokensOf(r) : t.group = r.group
  BY DEF TokensOf
<1>6. EverHeld(u.out) = UNION {TokensOf(r) : r \in ToSet(rs)}
  BY <1>1 DEF EverHeld, TokensIn
<1>7. UNION {TokensOf(r) : r \in mine} = {t \in EverHeld(u.out) : t.group = u.group}
  BY <1>1, <1>5, <1>6
<1> QED
  BY <1>2, <1>4, <1>7 DEF RowHoldings

(* The rows of the outputs of the chain, and who owns them.                 *)
LEMMA RowsAre ==
  ASSUME TablesInv
  PROVE  /\ \A u \in utxos : \E c \in coins :
              /\ c.out = u.out /\ u.out \in ChainOuts /\ ScriptOf(u.out) = c.script
              /\ u.spent = (u.out \notin UnspentOuts)
              /\ u.owner = IF u.out.vout = 0 /\ c.script = OpReturn THEN NoOwner ELSE c.script
         /\ \A o \in ChainOuts : \A t \in EverHeld(o) : \E u \in utxos : u.out = o /\ u.group = t.group
         /\ \A u, w \in utxos : u.out = w.out => u.owner = w.owner
<1>1. /\ \A c, e \in coins : c.out = e.out => c = e
      /\ \A c \in coins : c.spent \in BOOLEAN
  BY DEF TablesInv, CoinsOK
<1>2. ASSUME NEW u \in utxos
      PROVE  \E c \in coins :
              /\ c.out = u.out /\ u.out \in ChainOuts /\ ScriptOf(u.out) = c.script
              /\ u.spent = (u.out \notin UnspentOuts)
              /\ u.owner = IF u.out.vout = 0 /\ c.script = OpReturn THEN NoOwner ELSE c.script
  <2>1. PICK c \in coins : /\ c.out = u.out /\ c.spent = u.spent
                           /\ u.owner = IF u.out.vout = 0 /\ c.script = OpReturn THEN NoOwner ELSE c.script
    BY DEF TablesInv, OwnerIsOutput
  <2>2. ScriptOf(u.out) = c.script
    <3>1. (CHOOSE e \in coins : e.out = u.out) = c
      BY <1>1, <2>1
    <3> QED
      BY <3>1 DEF ScriptOf
  <2>3. u.out \in ChainOuts /\ c.spent = (u.out \notin UnspentOuts)
    BY <1>1, <2>1 DEF ChainOuts, UnspentOuts
  <2> QED
    BY <2>1, <2>2, <2>3
<1>3. ASSUME NEW o \in ChainOuts, NEW t \in EverHeld(o) PROVE \E u \in utxos : u.out = o /\ u.group = t.group
  <2>1. PICK r \in ToSet(RangesAt(Db, o)) : t \in TokensOf(r)
    BY DEF EverHeld, TokensIn
  <2>2. t.group = r.group
    BY <2>1 DEF TokensOf
  <2>3. r.group \in {u.group : u \in {u \in utxos : u.out = o}}
    BY <2>1 DEF TablesInv, RowsMatchRanges, ChainOuts, GroupsOf
  <2> QED
    BY <2>2, <2>3
<1>4. ASSUME NEW u \in utxos, NEW w \in utxos, u.out = w.out PROVE u.owner = w.owner
  <2>1. PICK c \in coins : c.out = u.out /\ u.owner = IF u.out.vout = 0 /\ c.script = OpReturn THEN NoOwner ELSE c.script
    BY <1>2
  <2>2. PICK e \in coins : e.out = w.out /\ w.owner = IF w.out.vout = 0 /\ e.script = OpReturn THEN NoOwner ELSE e.script
    BY <1>2
  <2> QED
    BY <1>1, <1>4, <2>1, <2>2
<1> QED
  BY <1>2, <1>3, <1>4

(* The rows of an address, of an outpoint, list what parse_tx would move.   *)
LEMMA RowsListTruth ==
  ASSUME TablesInv
  PROVE  /\ \A s \in Scripts : Listing(Rows("address", s)) = Truth("address", s)
         /\ \A o : {g[1] : g \in Listing(Rows("utxo", o))} = Truth("utxo", o)
         /\ \A u \in utxos : u.out \in ChainOuts
<1>1. \A u : RowHoldings(u) = {<<t, u.out>> : t \in {t \in EverHeld(u.out) : t.group = u.group}}
  BY RowTokens
<1>2. /\ \A x \in Holds : x = <<x[1], x[2]>> /\ x[2] \in UnspentOuts /\ x[1] \in EverHeld(x[2])
      /\ \A o \in UnspentOuts : \A t \in EverHeld(o) : <<t, o>> \in Holds
      /\ UnspentOuts \subseteq ChainOuts
  BY HoldsMembers DEF UnspentOuts, ChainOuts
<1>3. \A g : \A rows : g \in Listing(rows) <=>
        \E u \in rows : g = <<g[1], u.out>> /\ g[1] \in EverHeld(u.out) /\ g[1].group = u.group
  BY <1>1 DEF Listing
<1>4. ASSUME NEW s \in Scripts PROVE Listing(Rows("address", s)) = Truth("address", s)
  <2>1. Rows("address", s) = {u \in utxos : ~u.spent /\ u.owner = s}
    BY DEF Rows
  <2>2. Truth("address", s) = {h \in Holds : ScriptOf(h[2]) = s}
    BY DEF Truth
  <2>3. ASSUME NEW u \in utxos, ~u.spent
        PROVE  u.out \in UnspentOuts /\ (u.owner = s <=> ScriptOf(u.out) = s)
    <3>1. PICK c \in coins : /\ ScriptOf(u.out) = c.script /\ u.spent = (u.out \notin UnspentOuts)
                             /\ u.owner = IF u.out.vout = 0 /\ c.script = OpReturn THEN NoOwner ELSE c.script
      BY RowsAre
    <3> QED
      BY <2>3, <3>1, RestConstants
  <2>4. ASSUME NEW g \in Listing(Rows("address", s)) PROVE g \in Truth("address", s)
    <3>1. PICK u \in utxos : /\ ~u.spent /\ u.owner = s
                             /\ g = <<g[1], u.out>> /\ g[1] \in EverHeld(u.out)
      BY <1>3, <2>1, <2>4
    <3>2. <<g[1], u.out>> \in Holds /\ ScriptOf(u.out) = s
      BY <1>2, <2>3, <3>1
    <3> QED
      BY <2>2, <3>1, <3>2
  <2>5. ASSUME NEW g \in Truth("address", s) PROVE g \in Listing(Rows("address", s))
    <3>1. /\ g = <<g[1], g[2]>> /\ g[2] \in UnspentOuts /\ g[1] \in EverHeld(g[2])
          /\ ScriptOf(g[2]) = s /\ g[2] \in ChainOuts
      BY <1>2, <2>2, <2>5
    <3>2. PICK u \in utxos : u.out = g[2] /\ u.group = g[1].group
      BY <3>1, RowsAre
    <3>3. u.spent = (u.out \notin UnspentOuts)
      BY RowsAre
    <3>4. ~u.spent
      BY <3>1, <3>2, <3>3
    <3>5. u.owner = s
      BY <2>3, <3>1, <3>2, <3>4
    <3> QED
      BY <1>3, <2>1, <3>1, <3>2, <3>4, <3>5
  <2> QED
    BY <2>4, <2>5
<1>5. ASSUME NEW o PROVE {g[1] : g \in Listing(Rows("utxo", o))} = Truth("utxo", o)
  <2>1. Rows("utxo", o) = {u \in utxos : ~u.spent /\ u.out = o}
    BY DEF Rows
  <2>2. Truth("utxo", o) = {h[1] : h \in {h \in Holds : h[2] = o}}
    BY DEF Truth, TokensOn
  <2>3. \A u \in utxos : u.spent = (u.out \notin UnspentOuts)
    BY RowsAre
  <2>4. ASSUME NEW g \in Listing(Rows("utxo", o)) PROVE \E h \in Holds : h[1] = g[1] /\ h[2] = o
    <3>1. PICK u \in utxos : ~u.spent /\ u.out = o /\ g[1] \in EverHeld(u.out)
      BY <1>3, <2>1, <2>4
    <3>2. <<g[1], o>> \in Holds
      BY <1>2, <2>3, <3>1
    <3> QED
      BY <3>2
  <2>5. ASSUME NEW h \in Holds, h[2] = o PROVE \E g \in Listing(Rows("utxo", o)) : g[1] = h[1]
    <3>1. h = <<h[1], o>> /\ o \in UnspentOuts /\ h[1] \in EverHeld(o) /\ o \in ChainOuts
      BY <1>2, <2>5
    <3>2. PICK u \in utxos : u.out = o /\ u.group = h[1].group
      BY <3>1, RowsAre
    <3>3. ~u.spent
      BY <2>3, <3>1, <3>2
    <3>4. h \in Listing(Rows("utxo", o))
      BY <1>3, <2>1, <3>1, <3>2, <3>3
    <3> QED
      BY <3>4
  <2> QED
    BY <2>2, <2>4, <2>5
<1> QED
  BY <1>4, <1>5, RowsAre

(* A block changes nothing a reader has read or will read of a row.         *)
LEMMA BlockKeepsRows ==
  ASSUME TablesInv, TablesInv', NEW tx, Block(tx)
  PROVE  /\ \A rows : (\A u \in rows : u.out \in ChainOuts) => Listing(rows)' = Listing(rows)
         /\ ChainOuts \subseteq ChainOuts'
         /\ \A r : Backed(r) => Backed(r)'
<1>1. /\ \A o \in ChainOuts : EverHeld(o)' = EverHeld(o)
      /\ ChainOuts \subseteq ChainOuts'
  BY HeldAfter, OutsAfter
<1>2. \A o \in ChainOuts : RangesAt(Db', o) = RangesAt(Db, o)
  BY RangesAfter
<1>3. ASSUME NEW u, u.out \in ChainOuts PROVE RowHoldings(u)' = RowHoldings(u)
  BY <1>2, <1>3 DEF RowHoldings, RangesOfRow
<1>4. ASSUME NEW rows, \A u \in rows : u.out \in ChainOuts PROVE Listing(rows)' = Listing(rows)
  <2> DEFINE after(u) == RowHoldings(u)'
  <2>1. \A u \in rows : after(u) = RowHoldings(u)
    BY <1>3, <1>4
  <2>2. Listing(rows)' = UNION {after(u) : u \in rows}
    BY DEF Listing
  <2> HIDE DEF after
  <2> QED
    BY <2>1, <2>2 DEF Listing
<1>5. ASSUME NEW r, Backed(r) PROVE Backed(r)'
  <2>1. PICK w \in utxos : /\ w.out = r.out /\ w.owner = r.owner
                           /\ w.group = r.arg.group /\ r.arg \in EverHeld(w.out)
    BY <1>5 DEF Backed
  <2>2. w.out \in ChainOuts
    BY RowsListTruth
  <2>3. PICK u \in utxos' : u.out = w.out /\ u.group = w.group /\ u.owner = w.owner
    BY RowKept
  <2>4. r.arg \in EverHeld(u.out)'
    BY <1>1, <2>1, <2>2, <2>3
  <2> QED
    BY <2>1, <2>3, <2>4 DEF Backed
<1> QED
  BY <1>1, <1>4, <1>5

-----------------------------------------------------------------------------
(* `wallet assets`.                                                         *)

(* Putting one more range in its place among sorted ones.                  *)
LEMMA InsertSorted ==
  ASSUME NEW s \in Seq(AllRanges), NEW rs \in Seq(AllRanges), NEW r \in AllRanges,
         Len(s) = Len(rs), InOrderOf(s, rs)
  PROVE  \E q \in Seq(AllRanges) : Len(q) = Len(Append(rs, r)) /\ InOrderOf(q, Append(rs, r))
<1> DEFINE n == Len(s)
           Later == {i \in 1..n : Precedes(r, s[i])}
<1>1. /\ n \in Nat /\ DOMAIN s = 1..n /\ Len(Append(rs, r)) = n + 1
      /\ \A i \in 1..n : s[i] \in AllRanges
  OBVIOUS
<1>2. \A x, y, z \in AllRanges : /\ Precedes(x, y) /\ ~Precedes(z, y) => ~Precedes(z, x)
                                 /\ Precedes(x, y) => ~Precedes(y, x)
  BY LedgerConstants DEF Precedes, AllRanges, RangesOver
<1>3. PICK p \in 1..n + 1 : /\ \A i \in 1..n : i < p => ~Precedes(r, s[i])
                            /\ \A i \in 1..n : i >= p => ~Precedes(s[i], r)
  <2>1. CASE Later = {}
    <3>1. n + 1 \in 1..n + 1 /\ \A i \in 1..n : ~(i >= n + 1)
      BY <1>1
    <3> QED
      BY <2>1, <3>1
  <2>2. CASE Later # {}
    <3>1. PICK p \in Later : \A i \in Later : p <= i
      <4>1. Later \in SUBSET Nat /\ Later # {}
        BY <2>2
      <4> HIDE DEF Later
      <4> QED
        BY <4>1, LeastIndex
    <3>2. p \in 1..n /\ Precedes(r, s[p]) /\ \A i \in 1..n : i < p => ~Precedes(r, s[i])
      BY <3>1
    <3>3. ASSUME NEW i \in 1..n, i >= p PROVE ~Precedes(s[i], r)
      <4>1. CASE i = p
        BY <1>1, <1>2, <3>2, <4>1
      <4>2. CASE p < i
        <5>1. ~Precedes(s[i], s[p])
          BY <1>1, <3>2, <4>2 DEF InOrderOf
        <5> QED
          BY <1>1, <1>2, <3>2, <5>1
      <4> QED
        BY <3>3, <4>1, <4>2
    <3> QED
      BY <3>2, <3>3
  <2> QED
    BY <2>1, <2>2
<1> DEFINE q == [i \in 1..n + 1 |-> IF i < p THEN s[i] ELSE IF i = p THEN r ELSE s[i - 1]]
<1>4. q \in Seq(AllRanges) /\ Len(q) = n + 1
  <2>1. \A i \in 1..n + 1 : q[i] \in AllRanges
    BY <1>1
  <2> QED
    BY <1>1, <2>1
<1>5. ToSet(q) = ToSet(Append(rs, r))
  <2>1. ToSet(Append(rs, r)) = ToSet(s) \cup {r}
    BY AppendToSet DEF InOrderOf
  <2>2. ToSet(q) = {q[i] : i \in 1..n + 1}
    BY <1>1 DEF ToSet
  <2>3. ToSet(s) = {s[i] : i \in 1..n}
    BY <1>1 DEF ToSet
  <2>4. \A i \in 1..n + 1 : q[i] \in ToSet(s) \cup {r}
    BY <1>1, <2>3
  <2>5. q[p] = r
    OBVIOUS
  <2>6. ASSUME NEW i \in 1..n PROVE s[i] \in ToSet(q)
    <3>1. CASE i < p
      <4>1. i \in 1..n + 1 /\ q[i] = s[i]
        BY <1>1, <3>1
      <4> HIDE DEF q
      <4> QED
        BY <2>2, <4>1
    <3>2. CASE i >= p
      <4>1. i + 1 \in 1..n + 1 /\ q[i + 1] = s[i]
        BY <1>1, <3>2
      <4> HIDE DEF q
      <4> QED
        BY <2>2, <4>1
    <3> QED
      BY <1>1, <3>1, <3>2
  <2>7. r \in ToSet(q)
    <3> HIDE DEF q
    <3> QED
      BY <2>2, <2>5
  <2> HIDE DEF q
  <2> QED
    BY <2>1, <2>2, <2>3, <2>4, <2>6, <2>7
<1>6. ASSUME NEW i \in 1..n + 1, NEW j \in 1..n + 1, i < j PROVE ~Precedes(q[j], q[i])
  <2>1. \A a, b \in 1..n : a < b => ~Precedes(s[b], s[a])
    BY DEF InOrderOf
  <2>2. CASE j < p
    <3>1. i \in 1..n /\ j \in 1..n /\ q[j] = s[j] /\ q[i] = s[i]
      BY <1>1, <1>6, <2>2
    <3> QED
      BY <1>6, <2>1, <3>1
  <2>3. CASE j = p
    <3>1. i \in 1..n /\ q[j] = r /\ q[i] = s[i] /\ i < p
      BY <1>1, <1>6, <2>3
    <3> QED
      BY <1>3, <3>1
  <2>4. CASE j > p /\ i < p
    <3>1. i \in 1..n /\ j - 1 \in 1..n /\ q[j] = s[j - 1] /\ q[i] = s[i] /\ i < j - 1
      BY <1>1, <2>4
    <3> QED
      BY <2>1, <3>1
  <2>5. CASE j > p /\ i = p
    <3>1. j - 1 \in 1..n /\ q[j] = s[j - 1] /\ q[i] = r /\ j - 1 >= p
      BY <1>1, <2>5
    <3> QED
      BY <1>3, <3>1
  <2>6. CASE i > p
    <3>1. i - 1 \in 1..n /\ j - 1 \in 1..n /\ q[j] = s[j - 1] /\ q[i] = s[i - 1] /\ i - 1 < j - 1
      BY <1>1, <1>6, <2>6
    <3> QED
      BY <2>1, <3>1
  <2> QED
    BY <1>1, <1>6, <2>2, <2>3, <2>4, <2>5, <2>6
<1>7. InOrderOf(q, Append(rs, r))
  <2>1. \A i, j \in 1..n + 1 : i < j => ~Precedes(q[j], q[i])
    BY <1>6
  <2> HIDE DEF q
  <2> QED
    BY <1>1, <1>5, <2>1 DEF InOrderOf
<1> HIDE DEF q
<1> QED
  BY <1>1, <1>4, <1>7

(* sort_by has a result: the ranges it is given, in order.                  *)
LEMMA SortedFacts ==
  ASSUME NEW rs \in Seq(AllRanges)
  PROVE  /\ SortedRanges(rs) \in Seq(AllRanges) /\ Len(SortedRanges(rs)) = Len(rs)
         /\ InOrderOf(SortedRanges(rs), rs)
<1> DEFINE K == {x \in Seq(AllRanges) : \E s \in Seq(AllRanges) : Len(s) = Len(x) /\ InOrderOf(s, x)}
<1>1. << >> \in K
  <2>1. << >> \in Seq(AllRanges) /\ Len(<< >>) = 0
    OBVIOUS
  <2>2. InOrderOf(<< >>, << >>)
    BY <2>1 DEF InOrderOf
  <2> QED
    BY <2>1, <2>2
<1>2. ASSUME NEW x \in Seq(AllRanges), NEW r \in AllRanges, x \in K PROVE Append(x, r) \in K
  <2>1. PICK s \in Seq(AllRanges) : Len(s) = Len(x) /\ InOrderOf(s, x)
    BY <1>2
  <2>2. \E q \in Seq(AllRanges) : Len(q) = Len(Append(x, r)) /\ InOrderOf(q, Append(x, r))
    BY <2>1, InsertSorted
  <2>3. Append(x, r) \in Seq(AllRanges)
    OBVIOUS
  <2> QED
    BY <2>2, <2>3
<1>3. rs \in K
  <2> HIDE DEF K
  <2> QED
    BY <1>1, <1>2, SeqInduction
<1>4. PICK s \in Seq(AllRanges) : Len(s) = Len(rs) /\ InOrderOf(s, rs)
  BY <1>3
<1>5. s \in [1..Len(rs) -> ToSet(rs)]
  <2>1. s \in [1..Len(rs) -> ToSet(s)]
    BY <1>4 DEF ToSet
  <2> QED
    BY <1>4, <2>1 DEF InOrderOf
<1>6. PICK t : t = SortedRanges(rs) /\ t \in [1..Len(rs) -> ToSet(rs)] /\ InOrderOf(t, rs)
  BY <1>4, <1>5 DEF SortedRanges
<1>7. ToSet(rs) \subseteq AllRanges
  BY DEF ToSet
<1>8. t \in Seq(AllRanges) /\ Len(t) = Len(rs)
  <2>1. Len(rs) \in Nat
    OBVIOUS
  <2> QED
    BY <1>6, <1>7, <2>1
<1> QED
  BY <1>6, <1>8

Widened(l, r) == [l EXCEPT !.hi = IF @ < r.hi THEN r.hi ELSE @]

LEMMA WidenedFacts ==
  ASSUME NEW l \in AllRanges, NEW r \in AllRanges
  PROVE  /\ Widened(l, r) \in AllRanges
         /\ Widened(l, r).lo = l.lo /\ Widened(l, r).group = l.group
         /\ Widened(l, r).hi = IF l.hi < r.hi THEN r.hi ELSE l.hi
<1>1. /\ l \in [group : AllGroups, lo : 0..MaxSlot, hi : 0..MaxSlot] /\ l.lo <= l.hi
      /\ r.hi \in 0..MaxSlot /\ MaxSlot \in Nat
  BY LedgerConstants DEF AllRanges, RangesOver
<1>2. PICK x \in 0..MaxSlot : x = (IF l.hi < r.hi THEN r.hi ELSE l.hi) /\ l.lo <= x
  BY <1>1
<1>3. Widened(l, r) = [l EXCEPT !.hi = x]
  BY <1>2 DEF Widened
<1>4. /\ [l EXCEPT !.hi = x] \in [group : AllGroups, lo : 0..MaxSlot, hi : 0..MaxSlot]
      /\ [l EXCEPT !.hi = x].lo = l.lo /\ [l EXCEPT !.hi = x].group = l.group
      /\ [l EXCEPT !.hi = x].hi = x
  BY <1>1, <1>2
<1> QED
  BY <1>2, <1>3, <1>4 DEF AllRanges, RangesOver

LEMMA JoinRangeType ==
  ASSUME NEW out \in Seq(AllRanges), NEW r \in AllRanges
  PROVE  /\ JoinRange(out, r) \in Seq(AllRanges) /\ JoinRange(out, r) # << >>
         /\ out # << >> => Last(JoinRange(out, r)).lo \in {Last(out).lo, r.lo}
         /\ out = << >> => Last(JoinRange(out, r)).lo = r.lo
<1>1. CASE out # << >> /\ r.lo <= Last(out).hi + 1
  <2>1. Front(out) \in Seq(AllRanges) /\ Last(out) \in AllRanges
    BY <1>1, FrontAndLast
  <2>2. PICK f, e : /\ f = Front(out) /\ e = Widened(Last(out), r) /\ f \in Seq(AllRanges)
                    /\ e \in AllRanges /\ e.lo = Last(out).lo
    BY <2>1, WidenedFacts
  <2>3. JoinRange(out, r) = Append(f, e)
    BY <1>1, <2>2 DEF JoinRange, Widened
  <2>4. Last(Append(f, e)) = e /\ Append(f, e) # << >>
    BY <2>2 DEF Last
  <2> QED
    BY <1>1, <2>2, <2>3, <2>4
<1>2. CASE ~(out # << >> /\ r.lo <= Last(out).hi + 1)
  <2>1. JoinRange(out, r) = Append(out, r)
    BY <1>2 DEF JoinRange
  <2>2. Last(Append(out, r)) = r /\ Append(out, r) # << >>
    BY DEF Last
  <2> QED
    BY <2>1, <2>2
<1> QED
  BY <1>1, <1>2

LEMMA TokensInAppend ==
  ASSUME NEW out \in Seq(AllRanges), NEW r \in AllRanges
  PROVE  TokensIn(Append(out, r)) = TokensIn(out) \cup TokensOf(r)
<1>1. ToSet(Append(out, r)) = ToSet(out) \cup {r}
  BY AppendToSet
<1> QED
  BY <1>1 DEF TokensIn

LEMMA JoinRangeTokens ==
  ASSUME NEW out \in Seq(AllRanges), NEW r \in AllRanges,
         \A q \in ToSet(out) : q.group = r.group, out # << >> => Last(out).lo <= r.lo
  PROVE  /\ TokensIn(JoinRange(out, r)) = TokensIn(out) \cup TokensOf(r)
         /\ \A q \in ToSet(JoinRange(out, r)) : q.group = r.group
<1>1. CASE out # << >> /\ r.lo <= Last(out).hi + 1
  <2>1. PICK f, l : /\ f = Front(out) /\ l = Last(out) /\ f \in Seq(AllRanges) /\ l \in AllRanges
                    /\ out = Append(f, l)
    BY <1>1, FrontAndLast
  <2> DEFINE e == Widened(l, r)
  <2>2. ToSet(out) = ToSet(f) \cup {l}
    BY <2>1, AppendToSet
  <2>3. e \in AllRanges /\ e.lo = l.lo /\ e.group = l.group /\ e.hi = IF l.hi < r.hi THEN r.hi ELSE l.hi
    BY <2>1, WidenedFacts
  <2>4. l.group = r.group /\ l.lo <= r.lo /\ r.lo <= l.hi + 1
    BY <1>1, <2>1, <2>2
  <2>5. e.lo..e.hi = (l.lo..l.hi) \cup (r.lo..r.hi)
    <3>1. l.lo \in Nat /\ l.hi \in Nat /\ r.lo \in Nat /\ r.hi \in Nat /\ l.lo <= l.hi /\ r.lo <= r.hi
      BY <2>1, LedgerConstants DEF AllRanges, RangesOver
    <3> HIDE DEF e
    <3> QED
      BY <2>3, <2>4, <3>1
  <2>6. JoinRange(out, r) = Append(f, e)
    BY <1>1, <2>1 DEF JoinRange, Widened
  <2> HIDE DEF e
  <2>7. TokensOf(e) = TokensOf(l) \cup TokensOf(r)
    BY <2>3, <2>4, <2>5 DEF TokensOf
  <2>8. /\ TokensIn(Append(f, e)) = TokensIn(f) \cup TokensOf(e)
        /\ TokensIn(out) = TokensIn(f) \cup TokensOf(l)
        /\ ToSet(Append(f, e)) = ToSet(f) \cup {e}
    BY <2>1, <2>3, TokensInAppend, AppendToSet
  <2> QED
    BY <2>2, <2>3, <2>4, <2>6, <2>7, <2>8
<1>2. CASE ~(out # << >> /\ r.lo <= Last(out).hi + 1)
  <2>1. JoinRange(out, r) = Append(out, r)
    BY <1>2 DEF JoinRange
  <2>2. ToSet(Append(out, r)) = ToSet(out) \cup {r}
    BY AppendToSet
  <2> QED
    BY <2>1, <2>2, TokensInAppend
<1> QED
  BY <1>1, <1>2

JoinStep(s) == [p \in Seq(AllRanges) \X (1..Len(s)) |-> JoinRange(p[1], s[p[2]])]

LEMMA JoinSteps ==
  ASSUME NEW s \in Seq(AllRanges)
  PROVE  \E F : StepsOf(F, Len(s), Seq(AllRanges), << >>, JoinStep(s), FoldLeft(JoinRange, << >>, s))
<1> DEFINE n == Len(s)
           Solves(it) == it = [T \in SUBSET DOMAIN s |-> IF T = {} THEN << >>
                                 ELSE JoinRange(it[T \ {Max(T)}], s[Max(T)])]
           c == CHOOSE it : Solves(it)
<1>1. n \in Nat /\ DOMAIN s = 1..n /\ \A i \in 1..n : s[i] \in AllRanges
  OBVIOUS
<1>2. FoldLeft(JoinRange, << >>, s) = c[1..n]
  BY <1>1 DEF FoldLeft, MapThenFoldSet
<1>3. << >> \in Seq(AllRanges) /\ JoinStep(s) \in [Seq(AllRanges) \X (1..n) -> Seq(AllRanges)]
  BY <1>1, JoinRangeType DEF JoinStep
<1>4. PICK it \in [SUBSET (1..n) -> Seq(AllRanges)] :
        IsFoldOf(it, n, << >>, JoinStep(s)) /\ \A T \in SUBSET (1..n) : T # {} => Max(T) \in 1..n
  <2> HIDE DEF n
  <2> QED
    BY <1>1, <1>3, FoldExists
<1>5. Solves(it)
  BY <1>1, <1>4 DEF IsFoldOf, JoinStep
<1>6. Solves(c)
  <2> HIDE DEF Solves
  <2> QED
    BY <1>5
<1>7. FoldsBy(c, n, Seq(AllRanges), << >>, JoinStep(s))
  <2> HIDE DEF c
  <2> QED
    BY <1>1, <1>4, <1>6 DEF FoldsBy, JoinStep
<1>8. \E F : StepsOf(F, n, Seq(AllRanges), << >>, JoinStep(s), c[1..n])
  <2> HIDE DEF n, c
  <2> QED
    BY <1>1, <1>3, <1>7, FoldSteps
<1> HIDE DEF c
<1> QED
  BY <1>2, <1>8

OneGroup(rs) == \A r, q \in ToSet(rs) : r.group = q.group

(* merge_ranges lists the tokens of the ranges of a row, and no other.      *)
LEMMA MergeRangesFacts ==
  ASSUME NEW rs \in Seq(AllRanges), OneGroup(rs)
  PROVE  /\ MergeRanges(rs) \in Seq(AllRanges)
         /\ TokensIn(MergeRanges(rs)) = TokensIn(rs)
<1>1. PICK s : /\ s = SortedRanges(rs) /\ s \in Seq(AllRanges) /\ Len(s) = Len(rs)
               /\ InOrderOf(s, rs)
  BY SortedFacts
<1> DEFINE n == Len(s)
<1>2. n \in Nat /\ DOMAIN s = 1..n /\ \A i \in 1..n : s[i] \in AllRanges
  BY <1>1
<1>3. PICK F : StepsOf(F, n, Seq(AllRanges), << >>, JoinStep(s), FoldLeft(JoinRange, << >>, s))
  BY <1>1, JoinSteps
<1>4. F \in [0..n -> Seq(AllRanges)] /\ F[0] = << >> /\ F[n] = MergeRanges(rs)
  BY <1>1, <1>3 DEF StepsOf, MergeRanges
<1>5. ASSUME NEW k \in 0..n - 1
      PROVE  F[k + 1] = JoinRange(F[k], s[k + 1]) /\ F[k] \in Seq(AllRanges) /\ s[k + 1] \in AllRanges
  <2>1. k + 1 \in 1..n /\ k \in 0..n /\ (k + 1) - 1 = k
    BY <1>2
  <2>2. F[k + 1] = JoinStep(s)[<<F[k], k + 1>>] /\ F[k] \in Seq(AllRanges)
    BY <1>3, <1>4, <2>1 DEF StepsOf
  <2>3. <<F[k], k + 1>> \in Seq(AllRanges) \X (1..n)
    BY <2>1, <2>2
  <2> QED
    BY <1>2, <2>1, <2>2, <2>3 DEF JoinStep
<1>6. \A i, j \in 1..n : s[i].group = s[j].group
  <2>1. \A i \in 1..n : s[i] \in ToSet(rs)
    BY <1>1, <1>2 DEF InOrderOf, ToSet
  <2> QED
    BY <2>1 DEF OneGroup
<1>7. ASSUME NEW k \in 1..n - 1 PROVE s[k].lo <= s[k + 1].lo
  <2>1. k \in 1..n /\ k + 1 \in 1..n /\ k < k + 1
    BY <1>2
  <2>2. ~Precedes(s[k + 1], s[k])
    BY <1>1, <2>1 DEF InOrderOf
  <2>3. s[k].lo \in Nat /\ s[k + 1].lo \in Nat
    BY <1>2, <2>1, LedgerConstants DEF AllRanges, RangesOver
  <2> QED
    BY <2>2, <2>3 DEF Precedes
<1> DEFINE Upto(k) == UNION {TokensOf(s[i]) : i \in 1..k}
           Good(k) == /\ TokensIn(F[k]) = Upto(k)
                      /\ \A q \in ToSet(F[k]) : \A i \in 1..n : q.group = s[i].group
                      /\ F[k] = << >> <=> k = 0
                      /\ k # 0 => Last(F[k]).lo <= s[k].lo
           K == {k \in 0..n : Good(k)}
<1>8. 0 \in K
  <2>1. Upto(0) = {}
    OBVIOUS
  <2>2. ToSet(<< >>) = {}
    BY DEF ToSet
  <2> QED
    BY <1>2, <1>4, <2>1, <2>2, TokensInEmpty
<1>9. ASSUME NEW k \in 0..n - 1, k \in K PROVE k + 1 \in K
  <2>1. k + 1 \in 1..n /\ k + 1 \in 0..n /\ k \in 0..n /\ k + 1 # 0 /\ (k # 0 => k \in 1..n - 1 /\ k \in 1..n)
    BY <1>2
  <2>2. PICK f, r : /\ f = F[k] /\ r = s[k + 1] /\ f \in Seq(AllRanges) /\ r \in AllRanges
                    /\ F[k + 1] = JoinRange(f, r)
    BY <1>5
  <2>3. Good(k)
    BY <1>9
  <2>4. f # << >> => Last(f).lo <= r.lo
    <3> SUFFICES ASSUME f # << >> PROVE Last(f).lo <= r.lo
      OBVIOUS
    <3>1. k # 0 /\ Last(f).lo <= s[k].lo
      BY <2>2, <2>3
    <3>2. s[k].lo <= r.lo
      BY <1>7, <2>1, <2>2, <3>1
    <3>3. Last(f) \in AllRanges /\ s[k] \in AllRanges
      BY <1>2, <2>1, <2>2, <3>1, FrontAndLast
    <3>4. Last(f).lo \in Nat /\ s[k].lo \in Nat /\ r.lo \in Nat
      BY <2>2, <3>3, LedgerConstants DEF AllRanges, RangesOver
    <3> QED
      BY <3>1, <3>2, <3>4
  <2>5. /\ TokensIn(JoinRange(f, r)) = TokensIn(f) \cup TokensOf(r)
        /\ \A q \in ToSet(JoinRange(f, r)) : q.group = r.group
    <3>1. \A q \in ToSet(f) : q.group = r.group
      BY <2>1, <2>2, <2>3
    <3> QED
      BY <2>2, <2>4, <3>1, JoinRangeTokens
  <2>6. Last(JoinRange(f, r)).lo <= r.lo /\ JoinRange(f, r) # << >>
    <3>1. r.lo <= r.lo
      BY <2>2, LedgerConstants DEF AllRanges, RangesOver
    <3>2. /\ JoinRange(f, r) # << >>
          /\ f # << >> => Last(JoinRange(f, r)).lo \in {Last(f).lo, r.lo}
          /\ f = << >> => Last(JoinRange(f, r)).lo = r.lo
      BY <2>2, JoinRangeType
    <3> QED
      BY <2>4, <3>1, <3>2
  <2>7. Upto(k + 1) = Upto(k) \cup TokensOf(s[k + 1])
    <3>1. 1..k + 1 = (1..k) \cup {k + 1}
      BY <1>2
    <3> QED
      BY <3>1
  <2>8. TokensIn(F[k + 1]) = Upto(k + 1)
    <3> HIDE DEF Upto
    <3> QED
      BY <2>2, <2>3, <2>5, <2>7
  <2>9. \A q \in ToSet(F[k + 1]) : \A i \in 1..n : q.group = s[i].group
    BY <1>6, <2>1, <2>2, <2>5
  <2> HIDE DEF Upto, n
  <2> QED
    BY <2>1, <2>2, <2>6, <2>8, <2>9
<1>10. n \in K
  <2>1. n \in 0..n
    BY <1>2
  <2> HIDE DEF K, n
  <2> QED
    BY <1>2, <1>8, <1>9, <2>1, IntervalInduction
<1>11. TokensIn(F[n]) = UNION {TokensOf(s[i]) : i \in 1..n}
  BY <1>10
<1>12. ToSet(rs) = {s[i] : i \in 1..n}
  BY <1>1, <1>2 DEF InOrderOf, ToSet
<1>13. TokensIn(rs) = UNION {TokensOf(s[i]) : i \in 1..n}
  BY <1>12 DEF TokensIn
<1>14. n \in 0..n
  BY <1>2
<1> HIDE DEF n
<1> QED
  BY <1>4, <1>11, <1>13, <1>14

-----------------------------------------------------------------------------

LEMMA RestInitHolds == RestInit => RestInv
<1> SUFFICES ASSUME RestInit PROVE RestInv
  OBVIOUS
<1>1. IInv
  BY InitHolds DEF RestInit
<1>2. req = [kind |-> "none"] /\ reply = [kind |-> "none"] /\ prior = [kind |-> "none"]
  BY DEF RestInit, NoRequest, NoReply
<1>3. ReqOK
  BY <1>2 DEF ReqOK, Follows
<1>4. Answers
  BY <1>2 DEF Answers, ListingIsSnapshot, OwnerAnswer, OwnerThenAssets, StillTokensListed
<1> QED
  BY <1>1, <1>3, <1>4 DEF RestInv

(* While the tables stay, so does what is said of them.                     *)
LEMMA TablesStay ==
  ASSUME UNCHANGED vars
  PROVE  /\ IInv' = IInv /\ ChainOuts' = ChainOuts
         /\ \A rows : Listing(rows)' = Listing(rows)
         /\ \A r : Backed(r)' = Backed(r)
         /\ Holds' = Holds /\ \A o : ScriptOf(o)' = ScriptOf(o)
<1>1. /\ coins' = coins /\ height' = height /\ collections' = collections /\ utxos' = utxos
      /\ ranges' = ranges /\ minted' = minted /\ reminted' = reminted
  BY DEF vars, tables
<1>2. Db' = Db
  BY <1>1 DEF Db
<1>3. IInv' = IInv
  BY <1>1 DEF IInv, TablesInv, CoinsOK, TablesOK, RowsMatchRanges, OwnerIsOutput, MintedOK, PlacedOnce,
              Db, ChainOuts, UnspentOuts, EverHeld
<1>4. \A o : EverHeld(o)' = EverHeld(o)
  BY <1>2 DEF EverHeld
<1>5. \A rows : Listing(rows)' = Listing(rows)
  BY <1>2 DEF Listing, RowHoldings, RangesOfRow
<1>6. \A r : Backed(r)' = Backed(r)
  BY <1>1, <1>4 DEF Backed
<1>7. Holds' = Holds /\ \A o : ScriptOf(o)' = ScriptOf(o)
  BY <1>1, <1>2 DEF Holds, ScriptOf
<1> QED
  BY <1>1, <1>3, <1>5, <1>6, <1>7 DEF ChainOuts

(* A token of an unknown collection rests nowhere.                          *)
LEMMA NotFoundIsEmpty ==
  ASSUME RestInv, NEW t \in Client.token, t.group.coll \notin collections
  PROVE  Truth("token", t) = {}
<1>1. TablesInv /\ MintedOK
  BY DEF RestInv, IInv
<1>2. \A h \in Holds : h[2] \in ChainOuts /\ h[1] \in EverHeld(h[2])
  BY <1>1, HoldsMembers DEF UnspentOuts, ChainOuts
<1>3. \A h \in Holds : h[1].group.coll \in collections
  BY <1>1, <1>2 DEF MintedOK
<1> QED
  BY <1>3 DEF Truth

(* A reply given while the tables stay; only what it says is to be shown.   *)
LEMMA AskTokenHolds ==
  ASSUME RestInv, NEW t \in Client.token, AskToken(t)
  PROVE  RestInv'
<1>1. IInv'
  BY TablesStay DEF AskToken, RestInv
<1>2. prior' = NoReply
  BY DEF AskToken
<1>3. CASE req' = [kind |-> "token", arg |-> t] /\ reply' = NoReply
  <2>1. ReqOK'
    BY <1>2, <1>3 DEF ReqOK, Follows, Client
  <2>2. Answers'
    BY <1>2, <1>3 DEF Answers, ListingIsSnapshot, OwnerAnswer, OwnerThenAssets, StillTokensListed, NoReply
  <2> QED
    BY <1>1, <2>1, <2>2 DEF RestInv
<1>4. CASE t.group.coll \notin collections /\ Answer(NotFoundReply("token", t))
  <2>1. req' = [kind |-> "none"] /\ reply' = [kind |-> "token", arg |-> t, found |-> FALSE, truth |-> {}]
    BY <1>4, NotFoundIsEmpty DEF Answer, NotFoundReply, NoRequest
  <2>2. ReqOK'
    BY <1>2, <2>1 DEF ReqOK, Follows
  <2>3. Answers'
    BY <2>1 DEF Answers, ListingIsSnapshot, OwnerAnswer, OwnerThenAssets, StillTokensListed
  <2> QED
    BY <1>1, <2>2, <2>3 DEF RestInv
<1> QED
  BY <1>3, <1>4 DEF AskToken

LEMMA FindOwnerHolds ==
  ASSUME RestInv, FindOwner
  PROVE  RestInv'
<1> DEFINE t == req.arg
           rests == {h[2] : h \in {h \in Holds : h[1] = t}}
           found == {u.out : u \in Found(Db, t)}
<1>1. UNCHANGED vars /\ TablesInv
  BY DEF FindOwner, RestInv, IInv
<1>2. IInv'
  BY <1>1, TablesStay DEF RestInv
<1>3. t \in Tokens(AllGroups)
  <2>1. t \in Client.token
    BY DEF FindOwner, RestInv, ReqOK
  <2>2. t \in [group : [coll : 1..Len(Shapes), base : Scripts], slot : Slots]
    BY <2>1 DEF Client
  <2> QED
    BY <2>2, LedgerConstants DEF Tokens, AllGroups, Slots
<1>4. /\ \A u \in Found(Db, t) : u \in utxos /\ Covers(Db, u, t)
      /\ found \subseteq rests /\ (found = {} <=> rests = {})
  BY <1>1, <1>3, FoundIs
<1>5. Truth("token", t) = rests
  BY DEF Truth
<1> HIDE DEF rests, t
<1>6. CASE Found(Db, t) = {} /\
           Answer([kind |-> "token", arg |-> t, found |-> TRUE, status |-> "initial",
                   owner |-> t.group.base, truth |-> Truth("token", t)])
  <2>1. rests = {}
    BY <1>4, <1>6
  <2>2. /\ req' = [kind |-> "none"] /\ reply'.kind = "token" /\ reply'.found /\ reply'.status = "initial"
        /\ reply'.truth = {}
    BY <1>5, <1>6, <2>1 DEF Answer, NoRequest
  <2>3. ReqOK'
    BY <2>2 DEF ReqOK, Follows
  <2>4. Answers'
    BY <2>2 DEF Answers, ListingIsSnapshot, OwnerAnswer, OwnerThenAssets, StillTokensListed
  <2> QED
    BY <1>2, <2>3, <2>4 DEF RestInv
<1>7. ASSUME NEW u \in Found(Db, t),
             Answer([kind |-> "token", arg |-> t, found |-> TRUE, status |-> "registered",
                     owner |-> u.owner, out |-> u.out, truth |-> Truth("token", t)])
      PROVE  RestInv'
  <2>1. u.out \in rests
    BY <1>4
  <2>2. /\ req' = [kind |-> "none"] /\ reply'.kind = "token" /\ reply'.found /\ reply'.status = "registered"
        /\ reply'.truth = rests /\ reply'.out = u.out /\ reply'.owner = u.owner /\ reply'.arg = t
    BY <1>5, <1>7 DEF Answer, NoRequest
  <2>3. ReqOK'
    BY <2>2 DEF ReqOK, Follows
  <2>4. u \in utxos /\ t \in EverHeld(u.out) /\ u.group = t.group
    BY <1>1, <1>3, <1>4, CoversIs DEF Covers
  <2>5. Backed(reply')
    BY <2>2, <2>4 DEF Backed
  <2>6. Backed(reply)'
    BY <1>1, <2>5, TablesStay
  <2>7. Answers'
    BY <2>1, <2>2, <2>6 DEF Answers, ListingIsSnapshot, OwnerAnswer, OwnerThenAssets, StillTokensListed
  <2> QED
    BY <1>2, <2>3, <2>7 DEF RestInv
<1> QED
  BY <1>6, <1>7 DEF FindOwner, t

(* The first query of a listing; `known` if the client was told of it.      *)
LEMMA AskRowsHolds ==
  ASSUME RestInv, UNCHANGED vars, NEW kind, NEW arg, AskRows(kind, arg),
         (kind = "address" /\ arg \in Scripts) \/ kind = "utxo",
         prior' # NoReply /\ kind = "utxo" =>
           /\ prior' = reply /\ reply.kind = "token" /\ reply.found
           /\ reply.status = "registered" /\ reply.out = arg
  PROVE  RestInv'
<1> DEFINE rows == Rows(kind, arg)
<1>1. IInv' /\ TablesInv /\ ChainOuts' = ChainOuts /\ \A rs : Listing(rs)' = Listing(rs)
  BY TablesStay DEF RestInv, IInv
<1>2. rows = {u \in utxos : ~u.spent /\ IF kind = "address" THEN u.owner = arg ELSE u.out = arg}
  BY DEF Rows
<1>3. Truth(kind, arg) = IF kind = "address" THEN Listing(rows) ELSE {g[1] : g \in Listing(rows)}
  BY <1>1, RowsListTruth
<1>4. \A u \in rows : u.out \in ChainOuts
  BY <1>1, <1>2, RowsListTruth
<1> HIDE DEF rows
<1>5. CASE kind = "utxo" /\ rows = {} /\ Answer(NotFoundReply("utxo", arg))
  <2>1. req' = [kind |-> "none"] /\ reply' = [kind |-> "utxo", arg |-> arg, found |-> FALSE, truth |-> {}]
    <3>1. Listing({}) = {}
      BY DEF Listing
    <3>2. Truth("utxo", arg) = {}
      BY <1>3, <1>5, <3>1
    <3> QED
      BY <1>5, <3>2 DEF Answer, NotFoundReply, NoRequest
  <2>2. ReqOK'
    BY <2>1 DEF ReqOK, Follows
  <2>3. Answers'
    BY <2>1 DEF Answers, ListingIsSnapshot, OwnerAnswer, OwnerThenAssets, StillTokensListed
  <2> QED
    BY <1>1, <2>2, <2>3 DEF RestInv
<1>6. CASE /\ req' = [kind |-> kind, arg |-> arg, rows |-> rows, all |-> rows, got |-> {},
                      truth |-> Truth(kind, arg)]
           /\ reply' = NoReply
  <2>1. /\ req'.kind = kind /\ req'.arg = arg /\ req'.rows = rows /\ req'.all = rows
        /\ req'.got = {} /\ req'.truth = Truth(kind, arg) /\ "kind" \in DOMAIN req'
    BY <1>6
  <2>2. Listing({}) = {}
    BY DEF Listing
  <2>3. ReadingRows'
    <3>1. (Listing(req.all \ req.rows))' = {} /\ (Listing(req.all))' = Listing(rows)
      BY <1>1, <2>1, <2>2
    <3>2. req' = [kind |-> req'.kind, arg |-> req'.arg, rows |-> req'.rows, all |-> req'.all,
                  got |-> req'.got, truth |-> req'.truth]
      BY <1>6
    <3> QED
      BY <1>1, <1>3, <1>4, <2>1, <3>1, <3>2 DEF ReadingRows
  <2>4. Follows'
    <3> SUFFICES ASSUME prior' # NoReply, kind = "utxo"
                 PROVE  prior'.arg \in Truth(kind, arg) /\ \A u \in rows : u.owner = prior'.owner
      BY <2>1 DEF Follows, NoReply
    <3>1. Backed(reply) /\ prior' = reply /\ reply.out = arg
      BY DEF RestInv, Answers
    <3>2. PICK w \in utxos : /\ w.out = arg /\ w.owner = reply.owner
                             /\ w.group = reply.arg.group /\ reply.arg \in EverHeld(arg)
      BY <3>1 DEF Backed
    <3>3. Truth(kind, arg) = {g[1] : g \in Listing(rows)}
      BY <1>3
    <3>4. ASSUME NEW u \in rows PROVE u.owner = prior'.owner /\ arg \in UnspentOuts
      <4>1. u \in utxos /\ u.out = arg /\ ~u.spent
        BY <1>2
      <4>2. u.owner = w.owner
        BY <1>1, <3>2, <4>1, RowsAre
      <4>3. u.spent = (u.out \notin UnspentOuts)
        BY <1>1, <4>1, RowsAre
      <4> QED
        BY <3>1, <3>2, <4>1, <4>2, <4>3
    <3>5. reply.arg \in Truth(kind, arg)
      <4>1. CASE rows = {}
        BY <1>5, <1>6, <4>1 DEF AskRows, Answer, NotFoundReply, NoRequest, NoReply, rows
      <4>2. CASE rows # {}
        <5>1. arg \in UnspentOuts
          BY <3>4, <4>2
        <5>2. <<reply.arg, arg>> \in Holds
          BY <1>1, <3>2, <5>1, HoldsMembers
        <5>3. Truth(kind, arg) = {h[1] : h \in {h \in Holds : h[2] = arg}}
          BY DEF Truth, TokensOn
        <5> QED
          BY <5>2, <5>3
      <4> QED
        BY <4>1, <4>2
    <3> QED
      BY <3>1, <3>4, <3>5
  <2>5. ReqOK'
    BY <2>1, <2>3, <2>4 DEF ReqOK
  <2>6. Answers'
    BY <1>6 DEF Answers, ListingIsSnapshot, OwnerAnswer, OwnerThenAssets, StillTokensListed, NoReply
  <2> QED
    BY <1>1, <2>5, <2>6 DEF RestInv
<1> QED
  BY <1>5, <1>6 DEF AskRows, rows

LEMMA ReadRangesHolds ==
  ASSUME RestInv, ReadRanges
  PROVE  RestInv'
<1>1. /\ UNCHANGED vars /\ reply' = reply /\ prior' = prior /\ req.kind \in {"address", "utxo"}
      /\ ReadingRows /\ Follows
  BY DEF ReadRanges, RestInv, ReqOK
<1>2. IInv' /\ ChainOuts' = ChainOuts /\ (\A rs : Listing(rs)' = Listing(rs)) /\ \A r : Backed(r)' = Backed(r)
  BY <1>1, TablesStay DEF RestInv
<1>3. PICK u \in req.rows :
        req' = [req EXCEPT !.rows = @ \ {u},
                           !.got = @ \cup {<<t, u.out>> : t \in ToSet(Expand(RangesOfRow(u)))}]
  BY DEF ReadRanges
<1>4. /\ req'.kind = req.kind /\ req'.arg = req.arg /\ req'.rows = req.rows \ {u} /\ req'.all = req.all
      /\ req'.got = req.got \cup RowHoldings(u) /\ req'.truth = req.truth
      /\ req' = [kind |-> req'.kind, arg |-> req'.arg, rows |-> req'.rows, all |-> req'.all,
                 got |-> req'.got, truth |-> req'.truth]
  BY <1>1, <1>3 DEF ReadingRows, RowHoldings
<1>5. req'.got = Listing(req'.all \ req'.rows)
  <2>1. req.got = Listing(req.all \ req.rows) /\ u \in req.all
    BY <1>1 DEF ReadingRows
  <2>2. req'.all \ req'.rows = (req.all \ req.rows) \cup {u}
    BY <1>4, <2>1
  <2> QED
    BY <1>4, <2>1, <2>2 DEF Listing
<1>6. ReadingRows'
  <2>1. (Listing(req.all \ req.rows))' = req'.got /\ (Listing(req.all))' = Listing(req.all)
    BY <1>2, <1>4, <1>5
  <2>2. req'.rows \subseteq req'.all /\ \A v \in req'.all : v.out \in ChainOuts'
    BY <1>1, <1>2, <1>4 DEF ReadingRows
  <2>3. req'.truth = IF req'.kind = "address" THEN Listing(req.all) ELSE {g[1] : g \in Listing(req.all)}
    BY <1>1, <1>4 DEF ReadingRows
  <2> QED
    BY <1>4, <2>1, <2>2, <2>3 DEF ReadingRows
<1>7. Follows'
  BY <1>1, <1>4 DEF Follows, NoReply
<1>8. ReqOK'
  BY <1>1, <1>4, <1>6, <1>7 DEF ReqOK
<1>9. Answers'
  <2>1. req' # NoRequest
    BY <1>1, <1>4 DEF NoRequest
  <2> QED
    BY <1>1, <1>2, <2>1 DEF Answers, ListingIsSnapshot, OwnerAnswer, OwnerThenAssets, StillTokensListed, RestInv
<1> QED
  BY <1>2, <1>8, <1>9 DEF RestInv

LEMMA ReplyRowsHolds ==
  ASSUME RestInv, ReplyRows
  PROVE  RestInv'
<1>1. /\ UNCHANGED vars /\ prior' = prior /\ req.kind \in {"address", "utxo"} /\ req.rows = {}
      /\ ReadingRows /\ Follows
  BY DEF ReplyRows, RestInv, ReqOK
<1>2. IInv'
  BY <1>1, TablesStay DEF RestInv
<1>3. req.got = Listing(req.all)
  BY <1>1 DEF ReadingRows
<1>4. CASE req.kind = "address" /\ Answer([kind |-> "address", arg |-> req.arg, found |-> TRUE,
                                           assets |-> req.got, truth |-> req.truth])
  <2>1. req.truth = req.got
    BY <1>1, <1>3, <1>4 DEF ReadingRows
  <2>2. req' = [kind |-> "none"] /\ reply'.kind = "address" /\ reply'.assets = req.got /\ reply'.truth = req.got
    BY <1>4, <2>1 DEF Answer, NoRequest
  <2>3. ReqOK'
    BY <2>2 DEF ReqOK, Follows
  <2>4. Answers'
    BY <2>2 DEF Answers, ListingIsSnapshot, OwnerAnswer, OwnerThenAssets, StillTokensListed
  <2> QED
    BY <1>2, <2>3, <2>4 DEF RestInv
<1>5. ASSUME req.kind = "utxo", NEW u \in req.all,
             Answer([kind |-> "utxo", arg |-> req.arg, found |-> TRUE, owner |-> u.owner,
                     assets |-> {g[1] : g \in req.got}, truth |-> req.truth])
      PROVE  RestInv'
  <2>1. req.truth = {g[1] : g \in req.got}
    BY <1>1, <1>3, <1>5 DEF ReadingRows
  <2>2. prior # NoReply => prior.arg \in req.truth /\ u.owner = prior.owner
    BY <1>1, <1>5 DEF Follows
  <2>3. /\ req' = [kind |-> "none"] /\ reply'.kind = "utxo" /\ reply'.found /\ reply'.assets = req.truth
        /\ reply'.truth = req.truth /\ reply'.owner = u.owner
    BY <1>5, <2>1 DEF Answer, NoRequest
  <2>4. ReqOK'
    BY <2>3 DEF ReqOK, Follows
  <2>5. ListingIsSnapshot' /\ OwnerAnswer'
    BY <2>3 DEF ListingIsSnapshot, OwnerAnswer
  <2>6. OwnerThenAssets'
    BY <1>1, <2>2, <2>3 DEF OwnerThenAssets, StillTokensListed, NoReply
  <2>7. Answers'
    BY <2>3, <2>5, <2>6 DEF Answers, StillTokensListed
  <2> QED
    BY <1>2, <2>4, <2>7 DEF RestInv
<1> QED
  BY <1>4, <1>5 DEF ReplyRows

(* What `wallet assets` lists of a row, merged, is what the row shows.      *)
LEMMA ListedIs ==
  ASSUME TablesInv, NEW u
  PROVE  Listed(u) = RowHoldings(u)
<1>1. PICK rs : rs = RangesAt(Db, u.out) /\ rs \in Seq(AllRanges)
  BY RangesAtType DEF TablesInv, TablesOK
<1> DEFINE mine == {r \in ToSet(RangesAt(Db, u.out)) : r.group = u.group}
<1>2. PICK ks : ks = RangesOfRow(u) /\ ks \in Seq(AllRanges) /\ ToSet(ks) = ToSet(rs) \cap mine
  BY <1>1, KeepFacts DEF RangesOfRow
<1>3. OneGroup(ks)
  BY <1>2 DEF OneGroup
<1>4. PICK ms : ms = MergeRanges(ks) /\ ms \in Seq(AllRanges) /\ TokensIn(ms) = TokensIn(ks)
  BY <1>2, <1>3, MergeRangesFacts
<1>5. TokensIn(ms) = ToSet(Expand(ms)) /\ TokensIn(ks) = ToSet(Expand(ks))
  BY <1>2, <1>4, TokensInExpand
<1> QED
  BY <1>2, <1>4, <1>5 DEF Listed, RowHoldings

(* The rows of an outpoint, when it is asked, show what rests on it then.   *)
LEMMA OutpointListing ==
  ASSUME TablesInv, NEW o
  PROVE  Listing(Rows("utxo", o)) = {h \in Holds : h[2] = o}
<1>1. {g[1] : g \in Listing(Rows("utxo", o))} = {h[1] : h \in {h \in Holds : h[2] = o}}
  BY RowsListTruth DEF Truth, TokensOn
<1>2. \A h \in Holds : h = <<h[1], h[2]>>
  BY HoldsMembers
<1>3. \A g \in Listing(Rows("utxo", o)) : g = <<g[1], o>> /\ g[2] = o
  BY DEF Listing, RowHoldings, Rows
<1> QED
  BY <1>1, <1>2, <1>3

(* `wallet assets` begins.                                                  *)
LEMMA AskWalletHolds ==
  ASSUME RestInv, NEW addresses \in Client.wallet, AskWallet(addresses)
  PROVE  RestInv'
<1>1. UNCHANGED vars /\ reply' = NoReply /\ prior' = NoReply /\ addresses \subseteq Scripts
  BY DEF AskWallet, Client
<1>2. IInv' /\ TablesInv /\ ChainOuts' = ChainOuts /\ Holds' = Holds /\ \A o : ScriptOf(o)' = ScriptOf(o)
  BY <1>1, TablesStay DEF RestInv, IInv
<1>3. /\ req'.kind = "wallet" /\ "kind" \in DOMAIN req'
      /\ req'.arg = addresses /\ req'.left = addresses /\ req'.outs = {} /\ req'.rows = {} /\ req'.got = {}
      /\ req'.since = HeldBy(addresses) /\ req'.ever = HeldBy(addresses)
      /\ req' = [kind |-> req'.kind, arg |-> req'.arg, left |-> req'.left, outs |-> req'.outs,
                 rows |-> req'.rows, got |-> req'.got, since |-> req'.since, ever |-> req'.ever]
  BY DEF AskWallet
<1>4. \A h \in HeldBy(addresses) : h[2] \in ChainOuts /\ ScriptOf(h[2]) \in addresses
  BY <1>2, HoldsMembers DEF HeldBy, UnspentOuts, ChainOuts
<1>5. HeldBy(req.arg)' = HeldBy(addresses)
  BY <1>2, <1>3 DEF HeldBy
<1>6. \A h \in (req.since \cap Holds)' : Awaited(h)'
  BY <1>2, <1>3, <1>4 DEF Awaited
<1>7. ReadingWallet'
  <2>1. (Listing(req.rows))' = {}
    BY <1>3 DEF Listing
  <2> QED
    BY <1>1, <1>2, <1>3, <1>4, <1>5, <1>6, <2>1 DEF ReadingWallet
<1>8. ReqOK'
  BY <1>1, <1>3, <1>7 DEF ReqOK, Follows
<1>9. Answers'
  BY <1>1, <1>3 DEF Answers, ListingIsSnapshot, OwnerAnswer, OwnerThenAssets, StillTokensListed, NoReply
<1> QED
  BY <1>2, <1>8, <1>9 DEF RestInv

(* A query of `wallet assets`: what it reads was awaited by nobody else.    *)
LEMMA WalletQueryHolds ==
  ASSUME RestInv, QueryOwner \/ QueryOutpoint \/ QueryRanges
  PROVE  RestInv'
<1>1. /\ UNCHANGED vars /\ reply' = reply /\ prior' = prior /\ req.kind = "wallet"
      /\ ReadingWallet
  BY DEF QueryOwner, QueryOutpoint, QueryRanges, RestInv, ReqOK
<1>2. /\ IInv' /\ TablesInv /\ ChainOuts' = ChainOuts /\ Holds' = Holds
      /\ (\A o : ScriptOf(o)' = ScriptOf(o)) /\ (\A r : Backed(r)' = Backed(r))
      /\ \A rows : Listing(rows)' = Listing(rows)
  BY <1>1, TablesStay DEF RestInv, IInv
<1>3. ASSUME /\ req'.kind = "wallet" /\ req'.arg = req.arg /\ req'.since = req.since /\ req'.ever = req.ever
             /\ req' = [kind |-> req'.kind, arg |-> req'.arg, left |-> req'.left, outs |-> req'.outs,
                        rows |-> req'.rows, got |-> req'.got, since |-> req'.since, ever |-> req'.ever],
             req'.left \subseteq req.left, req'.got \subseteq req.ever,
             \A o \in req'.outs : o \in ChainOuts /\ ScriptOf(o) \in req.arg,
             \A u \in req'.rows : u.out \in ChainOuts, Listing(req'.rows) \subseteq req.ever,
             \A h \in req.since \cap Holds : Awaited(h) => Awaited(h)'
      PROVE  RestInv'
  <2>1. HeldBy(req.arg)' = HeldBy(req.arg)
    BY <1>2, <1>3 DEF HeldBy
  <2>2. \A h \in (req.since \cap Holds)' : Awaited(h)'
    BY <1>1, <1>2, <1>3 DEF ReadingWallet
  <2>3. ReadingWallet'
    <3>1. (Listing(req.rows))' = Listing(req'.rows)
      BY <1>2
    <3> QED
      BY <1>1, <1>2, <1>3, <2>1, <2>2, <3>1 DEF ReadingWallet
  <2>4. "kind" \in DOMAIN req' /\ req' # NoRequest
    BY <1>3 DEF NoRequest
  <2>5. ReqOK'
    BY <1>3, <2>3, <2>4 DEF ReqOK, Follows
  <2>6. Answers'
    BY <1>1, <1>2, <2>4 DEF Answers, ListingIsSnapshot, OwnerAnswer, OwnerThenAssets, StillTokensListed, RestInv
  <2> QED
    BY <1>2, <2>5, <2>6 DEF RestInv
<1>4. CASE QueryOwner
  <2>1. PICK a \in req.left :
          /\ req.outs = {} /\ req.rows = {}
          /\ req' = [req EXCEPT !.left = @ \ {a}, !.outs = {u.out : u \in Rows("address", a)}]
    BY <1>4 DEF QueryOwner
  <2>2. /\ req'.kind = "wallet" /\ req'.arg = req.arg /\ req'.since = req.since /\ req'.ever = req.ever
        /\ req'.left = req.left \ {a} /\ req'.outs = {u.out : u \in Rows("address", a)}
        /\ req'.rows = {} /\ req'.got = req.got
        /\ req' = [kind |-> req'.kind, arg |-> req'.arg, left |-> req'.left, outs |-> req'.outs,
                   rows |-> req'.rows, got |-> req'.got, since |-> req'.since, ever |-> req'.ever]
    BY <1>1, <2>1 DEF ReadingWallet
  <2>3. a \in Scripts /\ a \in req.arg
    BY <1>1 DEF ReadingWallet
  <2>4. ASSUME NEW u \in Rows("address", a) PROVE u.out \in ChainOuts /\ ScriptOf(u.out) \in req.arg
    <3>1. u \in utxos /\ u.owner = a
      BY DEF Rows
    <3>2. PICK c \in coins : /\ u.out \in ChainOuts /\ ScriptOf(u.out) = c.script
                             /\ u.owner = IF u.out.vout = 0 /\ c.script = OpReturn THEN NoOwner ELSE c.script
      BY <1>2, <3>1, RowsAre
    <3> QED
      BY <2>3, <3>1, <3>2, RestConstants
  <2>5. ASSUME NEW h \in Holds, ScriptOf(h[2]) = a PROVE h[2] \in req'.outs
    <3>1. h \in Truth("address", a)
      BY <2>5 DEF Truth
    <3>2. h \in Listing(Rows("address", a))
      BY <1>2, <2>3, <3>1, RowsListTruth
    <3>3. PICK u \in Rows("address", a) : h \in RowHoldings(u)
      BY <3>2 DEF Listing
    <3>4. h[2] = u.out
      BY <3>3 DEF RowHoldings
    <3> QED
      BY <2>2, <3>4
  <2>6. \A h \in req.since \cap Holds : Awaited(h) => Awaited(h)'
    BY <1>2, <2>1, <2>2, <2>5 DEF Awaited, Listing
  <2>7. \A o \in req'.outs : o \in ChainOuts /\ ScriptOf(o) \in req.arg
    BY <2>2, <2>4
  <2>8. req'.left \subseteq req.left /\ req'.got \subseteq req.ever
    BY <1>1, <2>2 DEF ReadingWallet
  <2>9. Listing(req'.rows) \subseteq req.ever
    BY <2>2 DEF Listing
  <2> QED
    BY <1>3, <2>2, <2>6, <2>7, <2>8, <2>9
<1>5. CASE QueryOutpoint
  <2>1. PICK o \in req.outs :
          /\ req.rows = {}
          /\ req' = [req EXCEPT !.outs = @ \ {o}, !.rows = Rows("utxo", o)]
    BY <1>5 DEF QueryOutpoint
  <2>2. PICK rows : /\ rows = Rows("utxo", o) /\ Listing(rows) = {h \in Holds : h[2] = o}
                    /\ \A u \in rows : u.out \in ChainOuts
    <3>1. \A u \in Rows("utxo", o) : u.out \in ChainOuts
      BY <1>2, RowsListTruth DEF Rows
    <3> QED
      BY <1>2, <3>1, OutpointListing
  <2>3. /\ req'.kind = "wallet" /\ req'.arg = req.arg /\ req'.since = req.since /\ req'.ever = req.ever
        /\ req'.left = req.left /\ req'.outs = req.outs \ {o} /\ req'.rows = rows /\ req'.got = req.got
        /\ req' = [kind |-> req'.kind, arg |-> req'.arg, left |-> req'.left, outs |-> req'.outs,
                   rows |-> req'.rows, got |-> req'.got, since |-> req'.since, ever |-> req'.ever]
    BY <1>1, <2>1, <2>2 DEF ReadingWallet
  <2>4. \A h \in req.since \cap Holds : Awaited(h) => Awaited(h)'
    <3>1. Listing(req.rows) = {} /\ (Listing(req.rows))' = {h \in Holds : h[2] = o}
      BY <1>2, <2>1, <2>2, <2>3 DEF Listing
    <3> QED
      BY <1>2, <2>3, <3>1 DEF Awaited
  <2>5. Listing(req'.rows) \subseteq req.ever
    <3>1. ScriptOf(o) \in req.arg /\ HeldBy(req.arg) \subseteq req.ever
      BY <1>1 DEF ReadingWallet
    <3>2. Listing(rows) \subseteq HeldBy(req.arg)
      BY <2>2, <3>1 DEF HeldBy
    <3> QED
      BY <2>3, <3>1, <3>2
  <2>6. \A p \in req'.outs : p \in ChainOuts /\ ScriptOf(p) \in req.arg
    BY <1>1, <2>3 DEF ReadingWallet
  <2>7. req'.left \subseteq req.left /\ req'.got \subseteq req.ever
    BY <1>1, <2>3 DEF ReadingWallet
  <2> QED
    BY <1>3, <2>2, <2>3, <2>4, <2>5, <2>6, <2>7
<1>6. CASE QueryRanges
  <2>1. PICK u \in req.rows : req' = [req EXCEPT !.rows = @ \ {u}, !.got = @ \cup Listed(u)]
    BY <1>6 DEF QueryRanges
  <2>2. PICK listed : listed = Listed(u) /\ listed = RowHoldings(u)
    BY <1>2, ListedIs
  <2>3. /\ req'.kind = "wallet" /\ req'.arg = req.arg /\ req'.since = req.since /\ req'.ever = req.ever
        /\ req'.left = req.left /\ req'.outs = req.outs
        /\ req'.rows = req.rows \ {u} /\ req'.got = req.got \cup listed
        /\ req' = [kind |-> req'.kind, arg |-> req'.arg, left |-> req'.left, outs |-> req'.outs,
                   rows |-> req'.rows, got |-> req'.got, since |-> req'.since, ever |-> req'.ever]
    BY <1>1, <2>1, <2>2 DEF ReadingWallet
  <2>4. Listing(req.rows) = Listing(req'.rows) \cup listed
    BY <2>2, <2>3 DEF Listing
  <2>5. \A h \in req.since \cap Holds : Awaited(h) => Awaited(h)'
    <3>1. (Listing(req.rows))' = Listing(req'.rows)
      BY <1>2
    <3> QED
      BY <1>2, <2>3, <2>4, <3>1 DEF Awaited
  <2>6. Listing(req'.rows) \subseteq req.ever /\ req'.left \subseteq req.left /\ req'.got \subseteq req.ever
    BY <1>1, <2>3, <2>4 DEF ReadingWallet
  <2>7. /\ \A p \in req'.outs : p \in ChainOuts /\ ScriptOf(p) \in req.arg
        /\ \A w \in req'.rows : w.out \in ChainOuts
    BY <1>1, <2>3 DEF ReadingWallet
  <2> QED
    BY <1>3, <2>3, <2>5, <2>6, <2>7
<1> QED
  BY <1>4, <1>5, <1>6

LEMMA PrintAssetsHolds ==
  ASSUME RestInv, PrintAssets
  PROVE  RestInv'
<1>1. /\ UNCHANGED vars /\ prior' = prior /\ req.kind = "wallet" /\ req.left = {} /\ req.outs = {}
      /\ req.rows = {} /\ ReadingWallet
  BY DEF PrintAssets, RestInv, ReqOK
<1>2. IInv'
  BY <1>1, TablesStay DEF RestInv
<1>3. req.since \cap Holds \subseteq req.got /\ req.got \subseteq req.ever
  BY <1>1 DEF ReadingWallet, Awaited, Listing
<1>4. /\ req' = [kind |-> "none"] /\ reply'.kind = "wallet" /\ reply'.assets = req.got
      /\ reply'.still = req.since \cap Holds /\ reply'.ever = req.ever
  BY DEF PrintAssets, Answer, NoRequest
<1>5. ReqOK'
  BY <1>4 DEF ReqOK, Follows
<1>6. Answers'
  BY <1>3, <1>4 DEF Answers, ListingIsSnapshot, OwnerAnswer, OwnerThenAssets, StillTokensListed
<1> QED
  BY <1>2, <1>5, <1>6 DEF RestInv

(* The script of an output stays.                                           *)
LEMMA ScriptsStay ==
  ASSUME TablesInv, TablesInv', NEW tx, Block(tx), NEW o \in ChainOuts
  PROVE  ScriptOf(o)' = ScriptOf(o)
<1>1. PICK c \in coins : c.out = o
  BY DEF ChainOuts
<1>2. PICK e \in coins' : e.out = o /\ e.script = c.script
  BY <1>1, BlockFacts DEF CoinAfter
<1>3. (CHOOSE x \in coins : x.out = o) = c
  BY <1>1 DEF TablesInv, CoinsOK
<1>4. (CHOOSE x \in coins' : x.out = o) = e
  BY <1>2 DEF TablesInv, CoinsOK
<1> QED
  BY <1>2, <1>3, <1>4 DEF ScriptOf

(* What the block moves or creates is awaited by no query of the wallet.    *)
LEMMA CommitReading ==
  ASSUME RestInv, IInv', req.kind = "wallet", Commit, NEW tx, Block(tx)
  PROVE  ReadingWallet'
<1>1. ReadingWallet /\ TablesInv /\ MintedOK
  BY DEF RestInv, ReqOK, IInv
<1>2. PICK wanted \in {req.arg} : req' = [req EXCEPT !.ever = @ \cup HeldBy(wanted)']
  BY DEF Commit
<1>3. /\ req'.kind = "wallet" /\ req'.arg = req.arg /\ req'.since = req.since
      /\ req'.left = req.left /\ req'.outs = req.outs /\ req'.rows = req.rows /\ req'.got = req.got
      /\ req'.ever = req.ever \cup HeldBy(wanted)'
      /\ req' = [kind |-> req'.kind, arg |-> req'.arg, left |-> req'.left, outs |-> req'.outs,
                 rows |-> req'.rows, got |-> req'.got, since |-> req'.since, ever |-> req'.ever]
  BY <1>1, <1>2 DEF ReadingWallet
<1>4. ChainOuts \subseteq ChainOuts' /\ OutsOf(height + 1, tx) \cap ChainOuts = {}
  BY <1>1, OutsAfter, BlockFacts
<1>5. \A o \in ChainOuts : ScriptOf(o)' = ScriptOf(o)
  BY <1>1, ScriptsStay DEF IInv
<1>6. ASSUME NEW h \in Holds', h[2] \in ChainOuts PROVE h \in Holds
  <2>1. Holds' = {x \in Holds : x[2] \notin ToSet(tx.ins)} \cup GiftHolds(TxGifts(Db, tx, height + 1))
    BY <1>1, HoldsAfter
  <2>2. \A f \in TxGifts(Db, tx, height + 1) : f.out \in OutsOf(height + 1, tx)
    BY <1>1, BlockFacts DEF Gifts
  <2>3. h \notin GiftHolds(TxGifts(Db, tx, height + 1))
    BY <1>4, <1>6, <2>2 DEF GiftHolds
  <2> QED
    BY <2>1, <2>3
<1>7. Listing(req.rows)' = Listing(req.rows)
  <2>1. \A rows : (\A u \in rows : u.out \in ChainOuts) => Listing(rows)' = Listing(rows)
    BY <1>1, BlockKeepsRows DEF IInv
  <2> QED
    BY <1>1, <1>3, <2>1 DEF ReadingWallet
<1>8. \A h \in (req.since \cap Holds)' : Awaited(h)'
  <2> SUFFICES ASSUME NEW h \in req.since, h \in Holds' PROVE Awaited(h)'
    BY <1>3
  <2>1. h[2] \in ChainOuts
    BY <1>1 DEF ReadingWallet
  <2>2. Awaited(h) /\ ScriptOf(h[2])' = ScriptOf(h[2])
    BY <1>1, <1>5, <1>6, <2>1 DEF ReadingWallet
  <2> QED
    BY <1>3, <1>7, <2>2 DEF Awaited
<1>9. HeldBy(req.arg)' \subseteq req'.ever /\ Listing(req.rows)' \subseteq req'.ever /\ req'.got \subseteq req'.ever
  <2>1. HeldBy(req.arg)' = HeldBy(wanted)'
    BY <1>3 DEF HeldBy
  <2> QED
    BY <1>1, <1>3, <1>7, <2>1 DEF ReadingWallet
<1>10. /\ \A o \in req'.outs : o \in ChainOuts' /\ ScriptOf(o)' \in req'.arg
       /\ \A u \in req'.rows : u.out \in ChainOuts'
       /\ \A h \in req'.since : h[2] \in ChainOuts'
       /\ req'.arg \subseteq Scripts /\ req'.left \subseteq req'.arg
  BY <1>1, <1>3, <1>4, <1>5 DEF ReadingWallet
<1> QED
  BY <1>3, <1>8, <1>9, <1>10 DEF ReadingWallet

(* A block between two queries.                                             *)
LEMMA CommitHolds ==
  ASSUME RestInv, Commit
  PROVE  RestInv'
<1>1. ParseBlock /\ reply' = reply /\ prior' = prior
  BY DEF Commit
<1>2. IInv'
  BY <1>1, StepHolds DEF RestInv, Next
<1>3. PICK tx \in NextTxs : Block(tx)
  BY <1>1, ParseBlockIsBlock
<1>4. /\ \A rows : (\A u \in rows : u.out \in ChainOuts) => Listing(rows)' = Listing(rows)
      /\ ChainOuts \subseteq ChainOuts'
      /\ \A r : Backed(r) => Backed(r)'
  BY <1>2, <1>3, BlockKeepsRows DEF RestInv, IInv
<1>5. CASE req.kind = "wallet"
  <2>1. "kind" \in DOMAIN req
    BY DEF RestInv, ReqOK
  <2>2. req'.kind = "wallet" /\ "kind" \in DOMAIN req'
    BY <1>5, <2>1 DEF Commit
  <2>3. ReqOK'
    <3>1. ReadingWallet'
      BY <1>2, <1>3, <1>5, CommitReading
    <3> QED
      BY <2>2, <3>1 DEF ReqOK, Follows
  <2>4. req' # NoRequest
    BY <2>2 DEF NoRequest
  <2>5. Answers'
    BY <1>1, <1>4, <2>4 DEF Answers, ListingIsSnapshot, OwnerAnswer, OwnerThenAssets, StillTokensListed, RestInv
  <2> QED
    BY <1>2, <2>3, <2>5 DEF RestInv
<1>6. CASE req.kind # "wallet" /\ req' = req
  <2>1. ASSUME ReadingRows PROVE ReadingRows'
    <3>1. /\ \A u \in req.all : u.out \in ChainOuts
          /\ \A u \in req.all \ req.rows : u.out \in ChainOuts
      BY <2>1 DEF ReadingRows
    <3>2. (Listing(req.all \ req.rows))' = Listing(req.all \ req.rows) /\ (Listing(req.all))' = Listing(req.all)
      BY <1>4, <1>6, <3>1
    <3> QED
      BY <1>4, <1>6, <2>1, <3>1, <3>2 DEF ReadingRows
  <2>2. ReqOK'
    BY <1>1, <1>6, <2>1 DEF ReqOK, RestInv, Follows, NoReply
  <2>3. Answers'
    BY <1>1, <1>4, <1>6 DEF Answers, ListingIsSnapshot, OwnerAnswer, OwnerThenAssets, StillTokensListed, NoRequest, NoReply, RestInv
  <2> QED
    BY <1>2, <2>2, <2>3 DEF RestInv
<1> QED
  BY <1>5, <1>6 DEF Commit

LEMMA RestStepHolds == RestInv /\ [RestNext]_restVars => RestInv'
<1> SUFFICES ASSUME RestInv, [RestNext]_restVars PROVE RestInv'
  OBVIOUS
<1>1. ASSUME NEW s \in Client.address, AskAddress(s) PROVE RestInv'
  <2>1. s \in Scripts
    BY DEF Client
  <2> QED
    BY <1>1, <2>1, AskRowsHolds DEF AskAddress, NoReply
<1>2. ASSUME NEW o \in Client.utxo, AskUtxo(o) PROVE RestInv'
  <2>1. prior' # NoReply => /\ prior' = reply /\ reply.kind = "token" /\ reply.found
                            /\ reply.status = "registered" /\ reply.out = o
    BY <1>2 DEF AskUtxo, NoReply
  <2> QED
    BY <1>2, <2>1, AskRowsHolds DEF AskUtxo
<1>3. CASE UNCHANGED restVars
  <2>1. UNCHANGED vars /\ req' = req /\ reply' = reply /\ prior' = prior
    BY <1>3 DEF restVars
  <2>2. /\ IInv' = IInv /\ ChainOuts' = ChainOuts /\ (\A rs : Listing(rs)' = Listing(rs))
        /\ (\A r : Backed(r)' = Backed(r)) /\ Holds' = Holds /\ \A o : ScriptOf(o)' = ScriptOf(o)
    BY <2>1, TablesStay
  <2>3. ReadingRows => ReadingRows'
    <3>1. (Listing(req.all \ req.rows))' = Listing(req.all \ req.rows) /\ (Listing(req.all))' = Listing(req.all)
      BY <2>1, <2>2
    <3> QED
      BY <2>1, <2>2, <3>1 DEF ReadingRows
  <2>4. ReadingWallet => ReadingWallet'
    <3>1. (Listing(req.rows))' = Listing(req.rows)
      BY <2>1, <2>2
    <3> QED
      BY <2>1, <2>2, <3>1 DEF ReadingWallet, HeldBy, Awaited
  <2>5. ReqOK'
    BY <2>1, <2>3, <2>4 DEF ReqOK, RestInv, Follows, NoReply
  <2>6. Answers'
    BY <2>1, <2>2 DEF Answers, ListingIsSnapshot, OwnerAnswer, OwnerThenAssets, StillTokensListed, NoRequest, NoReply, RestInv
  <2> QED
    BY <2>2, <2>5, <2>6 DEF RestInv
<1> QED
  BY <1>1, <1>2, <1>3, AskTokenHolds, FindOwnerHolds, ReadRangesHolds, ReplyRowsHolds,
     AskWalletHolds, WalletQueryHolds, PrintAssetsHolds, CommitHolds
  DEF RestNext

(* The invariant of the readers and of the tables they read.                *)
THEOREM RestInvariant == RestSpec => []RestInv
<1> QED
  BY RestInitHolds, RestStepHolds, PTL DEF RestSpec

(* A listing put together from several queries is what was so at the first, *)
(* whatever is spent meanwhile (get_address_assets, get_utxo_assets).       *)
THEOREM ListingsAreSnapshots == RestSpec => []ListingIsSnapshot
<1>1. RestInv => ListingIsSnapshot
  BY DEF RestInv, Answers
<1> QED
  BY <1>1, RestInvariant, PTL

(* An owner answer names an output that then holds the token, or the        *)
(* initial owner when none does (get_token_owner).                          *)
THEOREM OwnerAnswered == RestSpec => []OwnerAnswer
<1>1. RestInv => OwnerAnswer
  BY DEF RestInv, Answers
<1> QED
  BY <1>1, RestInvariant, PTL

(* `wallet assets` lists every token that stays where it is from its first  *)
(* query to its last, and nothing that no address it asked about held       *)
(* meanwhile, however many queries it takes and whatever is spent between.  *)
THEOREM StillTokensAreListed == RestSpec => []StillTokensListed
<1>1. RestInv => StillTokensListed
  BY DEF RestInv, Answers
<1> QED
  BY <1>1, RestInvariant, PTL

(* A client told that a token rests on an outpoint finds it there under the *)
(* same owner for as long as the outpoint is found at all.                  *)
THEOREM AnswersAgree == RestSpec => []OwnerThenAssets
<1>1. RestInv => OwnerThenAssets
  BY DEF RestInv, Answers
<1> QED
  BY <1>1, RestInvariant, PTL
=============================================================================
