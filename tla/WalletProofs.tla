----------------------------- MODULE WalletProofs -----------------------------
(***************************************************************************)
(* For every number of commands on one wallet, every set of coins and any   *)
(* interleaving of their RPCs: locks stand while a command relies on them,  *)
(* and none is left behind but by a crash or an unlock that Core refuses.   *)
(* That part looks at no ownership table: which coins a command wants to    *)
(* lock does not matter to how it locks them.                               *)
(*                                                                          *)
(* The second part does: a calm command funds its transaction with no       *)
(* tokens but those it names.  What a transaction does to the tables is     *)
(* taken from LedgerProofs, whose operators are shown to be those of Chain. *)
(*                                                                          *)
(* The third part follows a transaction from the command to the tables:     *)
(* what a calm command sends, mixes or registers arrives where it is meant  *)
(* to be.                                                                   *)
(***************************************************************************)
EXTENDS Wallet, FiniteSetTheorems, TLAPS

Seen == {c.out : c \in coins}

(* The states of a command, and what it knows of the wallet.               *)
Fields == {"pc", "order", "calm", "relied", "listed", "locks", "toLock", "tx"}

Shape ==
  /\ DOMAIN cmd = Procs
  /\ \A p \in Procs : Live(p) =>
       /\ DOMAIN cmd[p] = Fields
       /\ cmd[p].listed \cup cmd[p].locks \cup cmd[p].toLock \subseteq Seen

(* Outpoints of earlier blocks: a new output is none of them.              *)
Past ==
  /\ height \in Nat
  /\ \A c \in coins : DOMAIN c = {"out", "script", "spent"} /\ c.out.height \in 0..height

(* A send-amount signs without an unlock, and has nothing to unlock.       *)
AmountLocksNothing ==
  \A p \in Procs : Live(p) /\ cmd[p].order.kind = "amount" =>
    cmd[p].toLock = {} /\ cmd[p].pc \in {"fund", "sign"}

(* While the node runs, commands hold locks that stand, each its own.      *)
HeldStand == restarted \/ \A p \in Procs : Held(p) \cap Unspent \subseteq locked
HeldApart == restarted \/ \A p, q \in Procs : p # q => Held(p) \cap Held(q) = {}

LockInv ==
  /\ Shape /\ Past /\ AmountLocksNothing
  /\ HeldStand /\ HeldApart
  /\ LocksReleased

-----------------------------------------------------------------------------

(* Held coins have been seen, so they are no outputs of a later block.     *)
LEMMA HeldSeen ==
  ASSUME Shape, NEW p \in Procs PROVE Held(p) \subseteq Seen
<1>1. CASE cmd[p].pc \in {"fund", "unlock"}
  <2>1. Live(p)
    BY <1>1 DEF Live
  <2> QED
    BY <2>1 DEF Shape, Held
<1>2. CASE cmd[p].pc \notin {"fund", "unlock"}
  BY <1>2 DEF Held
<1> QED
  BY <1>1, <1>2

(* A step of one command that takes or gives back no lock.                 *)
LEMMA QuietStep ==
  ASSUME LockInv, NEW p \in Procs,
         UNCHANGED << node, locked, stranded, restarted >>,
         DOMAIN cmd' = Procs, \A q \in Procs \ {p} : cmd'[q] = cmd[q],
         Held(p)' = Held(p),
         Live(p)' => /\ DOMAIN cmd'[p] = Fields
                     /\ cmd'[p].listed \cup cmd'[p].locks \cup cmd'[p].toLock \subseteq Seen
                     /\ cmd'[p].order.kind = "amount" =>
                          cmd'[p].toLock = {} /\ cmd'[p].pc \in {"fund", "sign"}
  PROVE  LockInv'
<1>1. Seen' = Seen /\ Unspent' = Unspent
  BY DEF Seen, Unspent, node
<1>2. \A q \in Procs : Held(q)' = Held(q)
  BY DEF Held
<1>3. Shape'
  BY <1>1 DEF LockInv, Shape, Live
<1>4. AmountLocksNothing'
  BY DEF LockInv, AmountLocksNothing, Live
<1>5. Past'
  BY DEF LockInv, Past, node
<1>6. HeldStand' /\ HeldApart'
  BY <1>1, <1>2 DEF LockInv, HeldStand, HeldApart
<1>7. LocksReleased'
  BY <1>2 DEF LockInv, LocksReleased
<1> QED
  BY <1>3, <1>4, <1>5, <1>6, <1>7 DEF LockInv

(* Initially no command runs and the locked coins are the operator's.      *)
LEMMA InitLockInv == Init => LockInv
<1> SUFFICES ASSUME Init PROVE LockInv
  OBVIOUS
<1>1. DOMAIN cmd = Procs /\ \A p \in Procs : cmd[p].pc = "idle"
  BY DEF Init, Idle
<1>2. Shape /\ AmountLocksNothing
  BY <1>1 DEF Shape, AmountLocksNothing, Live
<1>3. \A p \in Procs : Held(p) = {}
  BY <1>1 DEF Held
<1>4. HeldStand /\ HeldApart
  BY <1>3 DEF HeldStand, HeldApart
<1>5. LocksReleased
  BY DEF Init, LocksReleased
<1>6. Past
  <2>1. height = Len(Deposits) /\ height \in Nat
    BY WalletConstants DEF Init
  <2>2. ASSUME NEW c \in coins
        PROVE  DOMAIN c = {"out", "script", "spent"} /\ c.out.height \in 0..height
    <3>1. PICK o \in DepositOuts(Len(Deposits)) : c = [out |-> o, script |-> Own, spent |-> FALSE]
      BY DEF Init
    <3>2. PICK h \in 1..Len(Deposits) : \E v : o = [height |-> h, vout |-> v]
      BY <3>1 DEF DepositOuts, Chain!Out
    <3> QED
      BY <2>1, <3>1, <3>2
  <2> QED
    BY <2>1, <2>2 DEF Past
<1> QED
  BY <1>2, <1>4, <1>5, <1>6 DEF LockInv

(* The end of a command that gives nothing back: what it held is stranded. *)
LEMMA EndStep ==
  ASSUME LockInv, NEW p \in Procs, End(p),
         UNCHANGED << node, locked, restarted >>,
         stranded \cup (Held(p) \cap locked) \subseteq stranded'
  PROVE  LockInv'
<1>1. Seen' = Seen /\ Unspent' = Unspent
  BY DEF Seen, Unspent, node
<1>2. /\ DOMAIN cmd' = Procs /\ cmd'[p].pc = "done"
      /\ \A q \in Procs \ {p} : cmd'[q] = cmd[q]
  BY DEF End, Done, LockInv, Shape
<1>3. Held(p)' = {} /\ \A q \in Procs \ {p} : Held(q)' = Held(q)
  BY <1>2 DEF Held
<1>4. Shape' /\ AmountLocksNothing'
  BY <1>1, <1>2 DEF LockInv, Shape, AmountLocksNothing, Live
<1>5. Past'
  BY DEF LockInv, Past, node
<1>6. HeldStand' /\ HeldApart'
  BY <1>1, <1>3 DEF LockInv, HeldStand, HeldApart
<1>7. LocksReleased'
  <2> SUFFICES ASSUME NEW o \in locked
               PROVE  o \in OperatorLocks \cup stranded' \cup UNION {Held(q)' : q \in Procs}
    BY DEF LocksReleased
  <2>1. CASE o \in OperatorLocks \cup stranded \cup Held(p)
    BY <2>1
  <2>2. CASE \E q \in Procs \ {p} : o \in Held(q)
    BY <2>2, <1>3
  <2> QED
    BY <2>1, <2>2 DEF LockInv, LocksReleased
<1> QED
  BY <1>4, <1>5, <1>6, <1>7 DEF LockInv

(* What becomes of the other commands, whether a lock they relied on is     *)
(* released or another transaction comes in between, is noted in `calm`.    *)
LEMMA OthersStep ==
  ASSUME LockInv, NEW q \in Procs, NEW released,
         cmd'[q] = Shaken(q, released) \/ cmd'[q] = Overtaken(q) \/ cmd'[q] = cmd[q]
  PROVE  /\ cmd'[q].pc = cmd[q].pc /\ Held(q)' = Held(q) /\ (Live(q)' <=> Live(q))
         /\ Live(q) => /\ DOMAIN cmd'[q] = Fields
                       /\ cmd'[q].order = cmd[q].order /\ cmd'[q].listed = cmd[q].listed
                       /\ cmd'[q].locks = cmd[q].locks /\ cmd'[q].toLock = cmd[q].toLock
<1>1. CASE cmd'[q] = cmd[q]
  BY <1>1 DEF LockInv, Shape, Held, Live
<1>2. CASE Live(q) /\ cmd'[q] = [cmd[q] EXCEPT !.calm = FALSE]
  <2>1. DOMAIN cmd[q] = Fields
    BY <1>2 DEF LockInv, Shape
  <2>2. /\ cmd'[q].pc = cmd[q].pc /\ cmd'[q].order = cmd[q].order
        /\ cmd'[q].listed = cmd[q].listed /\ cmd'[q].locks = cmd[q].locks
        /\ cmd'[q].toLock = cmd[q].toLock /\ DOMAIN cmd'[q] = Fields
    BY <1>2, <2>1 DEF Fields
  <2> QED
    BY <2>2 DEF Held, Live
<1> QED
  BY <1>1, <1>2 DEF Shaken, Overtaken, Relying

(* The steps that leave Core's locks alone: reading the wallet and the     *)
(* index, and funding.                                                     *)
LEMMA ReadingStep ==
  ASSUME LockInv, NEW p \in Procs,
         Start(p) \/ CheckNamed(p) \/ ListUnspent(p) \/ ComputeLocks(p) \/ ListLocked(p)
  PROVE  LockInv'
<1> USE DEF At, Goto, Held, Live, Fields, Idle
<1>d. DOMAIN cmd = Procs
  BY DEF LockInv, Shape
<1>e. ASSUME End(p), UNCHANGED << node, locked, stranded, restarted >>, Held(p) = {}
      PROVE  LockInv'
  BY <1>e, EndStep
<1>l. Live(p) => /\ DOMAIN cmd[p] = Fields
                 /\ cmd[p].listed \cup cmd[p].locks \cup cmd[p].toLock \subseteq Seen
                 /\ cmd[p].order.kind = "amount" => cmd[p].pc \in {"fund", "sign"}
  BY DEF LockInv, Shape, AmountLocksNothing
<1>1. CASE Start(p)
  <2> PICK c \in Commands[p] :
        cmd' = [cmd EXCEPT ![p] =
          [pc |-> IF c.kind = "amount" THEN "fund" ELSE IF c.named # << >> THEN "check" ELSE "list",
           order |-> c, calm |-> TRUE, relied |-> {},
           listed |-> {}, locks |-> {}, toLock |-> {}, tx |-> NoTx]]
    BY <1>1 DEF Start
  <2>1. /\ cmd'[p].toLock = {} /\ cmd'[p].locks = {} /\ cmd'[p].listed = {}
        /\ DOMAIN cmd'[p] = Fields
        /\ DOMAIN cmd' = Procs /\ \A q \in Procs \ {p} : cmd'[q] = cmd[q]
    BY <1>d
  <2>2. Held(p)' = {} /\ Held(p) = {}
    BY <2>1, <1>1 DEF Start
  <2> QED
    BY <2>1, <2>2, <1>1, QuietStep DEF Start
<1>2. CASE CheckNamed(p)
  <2>1. CASE End(p)
    BY <1>2, <2>1, <1>e DEF CheckNamed
  <2>2. CASE Goto(p, "list")
    <3>1. /\ DOMAIN cmd' = Procs /\ \A q \in Procs \ {p} : cmd'[q] = cmd[q]
          /\ cmd[p].pc = "check" /\ cmd'[p] = [cmd[p] EXCEPT !.pc = "list"]
      BY <1>2, <2>2, <1>d DEF CheckNamed
    <3> QED
      BY <3>1, <1>l, <1>2, QuietStep DEF CheckNamed
  <2> QED
    BY <1>2, <2>1, <2>2 DEF CheckNamed
<1>3. CASE ListUnspent(p)
  <2>1. CASE End(p)
    BY <1>3, <2>1, <1>e DEF ListUnspent
  <2>2. CASE cmd' = [cmd EXCEPT ![p].pc = "compute", ![p].listed = Listed, ![p].relied = OwnLocked]
    <3>1. /\ DOMAIN cmd' = Procs /\ \A q \in Procs \ {p} : cmd'[q] = cmd[q]
          /\ cmd[p].pc = "list" /\ DOMAIN cmd[p] = Fields
      BY <1>3, <2>2, <1>d, <1>l DEF ListUnspent
    <3>2. /\ cmd'[p].pc = "compute" /\ cmd'[p].listed = Listed /\ cmd'[p].locks = cmd[p].locks
          /\ cmd'[p].toLock = cmd[p].toLock /\ cmd'[p].order = cmd[p].order
          /\ DOMAIN cmd'[p] = Fields
      BY <2>2, <3>1, <1>d
    <3>3. Listed \subseteq Seen
      BY DEF Listed, Seen
    <3>4. Held(p)' = Held(p)
      BY <3>1, <3>2
    <3>5. UNCHANGED << node, locked, stranded, restarted >>
      BY <1>3 DEF ListUnspent
    <3> QED
      BY <3>1, <3>2, <3>3, <3>4, <3>5, <1>l, QuietStep
  <2> QED
    BY <1>3, <2>1, <2>2 DEF ListUnspent
<1>4. CASE ComputeLocks(p)
  <2>1. /\ DOMAIN cmd' = Procs /\ \A q \in Procs \ {p} : cmd'[q] = cmd[q]
        /\ cmd[p].pc = "compute" /\ DOMAIN cmd[p] = Fields
    BY <1>4, <1>d, <1>l DEF ComputeLocks
  <2>2. /\ cmd'[p].pc = "locked" /\ cmd'[p].listed = cmd[p].listed
        /\ cmd'[p].locks = TokensToLock(p)
        /\ cmd'[p].toLock = cmd[p].toLock /\ cmd'[p].order = cmd[p].order
        /\ DOMAIN cmd'[p] = Fields
    BY <1>4, <2>1, <1>d DEF ComputeLocks
  <2>3. TokensToLock(p) \subseteq Seen
    BY <2>1, <1>l DEF TokensToLock
  <2>4. Held(p)' = Held(p)
    BY <2>1, <2>2
  <2>5. UNCHANGED << node, locked, stranded, restarted >>
    BY <1>4 DEF ComputeLocks
  <2> QED
    BY <2>1, <2>2, <2>3, <2>4, <2>5, <1>l, QuietStep
<1>5. CASE ListLocked(p)
  <2>1. CASE End(p)
    BY <1>5, <2>1, <1>e DEF ListLocked
  <2>2. CASE cmd' = [cmd EXCEPT ![p].pc = "lock", ![p].toLock = cmd[p].locks \ locked,
                               ![p].relied = @ \cup cmd[p].locks]
    <3>1. /\ DOMAIN cmd' = Procs /\ \A q \in Procs \ {p} : cmd'[q] = cmd[q]
          /\ cmd[p].pc = "locked" /\ DOMAIN cmd[p] = Fields
      BY <1>5, <2>2, <1>d, <1>l DEF ListLocked
    <3>2. /\ cmd'[p].pc = "lock" /\ cmd'[p].listed = cmd[p].listed
          /\ cmd'[p].locks = cmd[p].locks /\ cmd'[p].toLock = cmd[p].locks \ locked
          /\ cmd'[p].order = cmd[p].order /\ DOMAIN cmd'[p] = Fields
      BY <2>2, <3>1, <1>d
    <3>3. cmd[p].order.kind # "amount"
      BY <3>1 DEF LockInv, AmountLocksNothing
    <3>4. Held(p)' = Held(p)
      BY <3>1, <3>2
    <3>5. UNCHANGED << node, locked, stranded, restarted >>
      BY <1>5 DEF ListLocked
    <3> QED
      BY <3>1, <3>2, <3>3, <3>4, <3>5, <1>l, QuietStep
  <2> QED
    BY <1>5, <2>1, <2>2 DEF ListLocked
<1> QED
  BY <1>1, <1>2, <1>3, <1>4, <1>5

(* walletcreatefundedpsbt: what the command holds, it holds until unlock;   *)
(* a send-amount, which goes on without one, holds nothing.                *)
LEMMA FundStep == ASSUME LockInv, NEW p \in Procs, Fund(p) PROVE LockInv'
<1> USE DEF At, Held, Live, Fields
<1>1. /\ cmd[p].pc = "fund" /\ DOMAIN cmd = Procs /\ DOMAIN cmd[p] = Fields
      /\ cmd[p].listed \cup cmd[p].locks \cup cmd[p].toLock \subseteq Seen
      /\ cmd[p].order.kind = "amount" => cmd[p].toLock = {}
      /\ UNCHANGED << node, locked, stranded, restarted >>
  BY DEF Fund, LockInv, Shape, AmountLocksNothing
<1>2. PICK tx :
        IF cmd[p].order.kind # "amount" THEN cmd' = [cmd EXCEPT ![p].pc = "unlock", ![p].tx = tx]
        ELSE IF tx # NoTx THEN cmd' = [cmd EXCEPT ![p].pc = "sign", ![p].tx = tx]
        ELSE End(p)
  BY DEF Fund
<1>3. ASSUME NEW pc \in {"unlock", "sign"}, cmd' = [cmd EXCEPT ![p].pc = pc, ![p].tx = tx],
             pc = "sign" <=> cmd[p].order.kind = "amount"
      PROVE  LockInv'
  <2>1. /\ DOMAIN cmd' = Procs /\ \A q \in Procs \ {p} : cmd'[q] = cmd[q]
        /\ cmd'[p].pc = pc /\ cmd'[p].order = cmd[p].order /\ DOMAIN cmd'[p] = Fields
        /\ cmd'[p].listed = cmd[p].listed /\ cmd'[p].locks = cmd[p].locks
        /\ cmd'[p].toLock = cmd[p].toLock
    BY <1>1, <1>3
  <2>2. Held(p)' = Held(p)
    BY <1>1, <1>3, <2>1
  <2> QED
    BY <1>1, <1>3, <2>1, <2>2, QuietStep
<1>4. CASE cmd[p].order.kind # "amount"
  BY <1>2, <1>3, <1>4
<1>5. CASE cmd[p].order.kind = "amount" /\ tx # NoTx
  BY <1>2, <1>3, <1>5
<1>6. CASE cmd[p].order.kind = "amount" /\ tx = NoTx
  BY <1>1, <1>2, <1>6, EndStep
<1> QED
  BY <1>4, <1>5, <1>6

(* lockunspent takes coins that nobody has locked, so none that another     *)
(* command holds.                                                          *)
LEMMA LockStep == ASSUME LockInv, NEW p \in Procs, Lock(p) PROVE LockInv'
<1> USE DEF At, Held, Live, Fields
<1>1. /\ cmd[p].pc = "lock" /\ DOMAIN cmd = Procs /\ DOMAIN cmd[p] = Fields
      /\ cmd[p].listed \cup cmd[p].locks \cup cmd[p].toLock \subseteq Seen
      /\ cmd[p].order.kind # "amount" /\ UNCHANGED << node, stranded, restarted >>
  BY DEF Lock, LockInv, Shape, AmountLocksNothing
<1>2. CASE /\ cmd[p].toLock \subseteq Unspent \ locked
           /\ locked' = locked \cup cmd[p].toLock /\ Goto(p, "fund")
  <2>1. /\ DOMAIN cmd' = Procs /\ \A q \in Procs \ {p} : cmd'[q] = cmd[q]
        /\ cmd'[p].pc = "fund" /\ cmd'[p].order = cmd[p].order /\ DOMAIN cmd'[p] = Fields
        /\ cmd'[p].listed = cmd[p].listed /\ cmd'[p].locks = cmd[p].locks
        /\ cmd'[p].toLock = cmd[p].toLock
    BY <1>1, <1>2 DEF Goto
  <2>2. Seen' = Seen /\ Unspent' = Unspent
    BY <1>1 DEF Seen, Unspent, node
  <2>3. /\ Held(p) = {} /\ Held(p)' = cmd[p].toLock
        /\ \A q \in Procs \ {p} : Held(q)' = Held(q)
    BY <1>1, <2>1
  <2>4. Shape' /\ AmountLocksNothing'
    BY <1>1, <2>1, <2>2 DEF LockInv, Shape, AmountLocksNothing
  <2>5. Past'
    BY <1>1 DEF LockInv, Past, node
  <2>6. HeldStand'
    BY <1>1, <1>2, <2>2, <2>3 DEF LockInv, HeldStand
  <2>7. HeldApart'
    <3> SUFFICES ASSUME ~restarted, NEW q \in Procs, NEW r \in Procs, q # r
                 PROVE  Held(q)' \cap Held(r)' = {}
      BY <1>1 DEF HeldApart
    <3>1. \A t \in Procs : Held(t) \cap cmd[p].toLock = {}
      BY <1>2 DEF LockInv, HeldStand
    <3> QED
      BY <2>3, <3>1 DEF LockInv, HeldApart
  <2>8. LocksReleased'
    <3> SUFFICES ASSUME NEW o \in locked'
                 PROVE  o \in OperatorLocks \cup stranded \cup UNION {Held(q)' : q \in Procs}
      BY <1>1 DEF LocksReleased
    <3>1. CASE o \in cmd[p].toLock
      BY <3>1, <2>3
    <3>2. CASE o \in OperatorLocks \cup stranded
      BY <3>2
    <3>3. CASE \E q \in Procs \ {p} : o \in Held(q)
      BY <3>3, <2>3
    <3> QED
      BY <1>2, <2>3, <3>1, <3>2, <3>3 DEF LockInv, LocksReleased
  <2> QED
    BY <2>4, <2>5, <2>6, <2>7, <2>8 DEF LockInv
<1>3. CASE UNCHANGED locked /\ End(p)
  BY <1>1, <1>3, EndStep
<1> QED
  BY <1>2, <1>3 DEF Lock

(* The end of p's part while the others only note it: p holds nothing       *)
(* afterwards, and what it held is unlocked, spent or stranded.            *)
LEMMA ReleaseStep ==
  ASSUME LockInv, NEW p \in Procs, UNCHANGED restarted,
         DOMAIN cmd' = Procs,
         \A q \in Procs \ {p} :
           \E r : cmd'[q] = Shaken(q, r) \/ cmd'[q] = Overtaken(q) \/ cmd'[q] = cmd[q],
         cmd'[p].pc = "done" \/ (/\ cmd'[p].pc = "sign" /\ DOMAIN cmd'[p] = Fields
                                 /\ cmd'[p].listed \cup cmd'[p].locks \cup cmd'[p].toLock \subseteq Seen
                                 /\ cmd'[p].order.kind # "amount"),
         Past', Seen \subseteq Seen', Unspent' \cap Seen \subseteq Unspent,
         locked' \subseteq locked,
         stranded \cup (Held(p) \cap locked') \subseteq stranded',
         (locked \ locked') \cap Unspent' \cap Seen \subseteq Held(p)
  PROVE  LockInv'
<1>1. \A q \in Procs \ {p} :
        /\ cmd'[q].pc = cmd[q].pc /\ Held(q)' = Held(q) /\ (Live(q)' <=> Live(q))
        /\ Live(q) => /\ DOMAIN cmd'[q] = Fields
                      /\ cmd'[q].order = cmd[q].order /\ cmd'[q].listed = cmd[q].listed
                      /\ cmd'[q].locks = cmd[q].locks /\ cmd'[q].toLock = cmd[q].toLock
  BY OthersStep
<1>2. Held(p)' = {}
  BY DEF Held
<1>3. Shape' /\ AmountLocksNothing'
  <2>1. ASSUME NEW q \in Procs \ {p}, Live(q)'
        PROVE  /\ DOMAIN cmd'[q] = Fields
               /\ cmd'[q].listed \cup cmd'[q].locks \cup cmd'[q].toLock \subseteq Seen'
               /\ cmd'[q].order.kind = "amount" =>
                    cmd'[q].toLock = {} /\ cmd'[q].pc \in {"fund", "sign"}
    BY <1>1, <2>1 DEF LockInv, Shape, AmountLocksNothing
  <2>2. Live(p)' => cmd'[p].pc = "sign"
    BY DEF Live
  <2>3. Shape'
    BY <2>1, <2>2 DEF Shape
  <2> QED
    BY <2>1, <2>2, <2>3 DEF AmountLocksNothing
<1>4. HeldApart'
  BY <1>1, <1>2 DEF LockInv, HeldApart
<1>5. HeldStand'
  <2> SUFFICES ASSUME ~restarted, NEW q \in Procs \ {p}, NEW o \in Held(q), o \in Unspent'
               PROVE  o \in locked'
    BY <1>1, <1>2 DEF HeldStand
  <2>1. o \in Seen
    BY HeldSeen DEF LockInv
  <2>2. o \in locked
    BY <2>1 DEF LockInv, HeldStand
  <2>3. o \notin Held(p)
    BY DEF LockInv, HeldApart
  <2> QED
    BY <2>1, <2>2, <2>3
<1>6. LocksReleased'
  <2> SUFFICES ASSUME NEW o \in locked'
               PROVE  o \in OperatorLocks \cup stranded' \cup UNION {Held(q)' : q \in Procs}
    BY DEF LocksReleased
  <2>1. CASE o \in OperatorLocks \cup stranded \cup Held(p)
    BY <2>1
  <2>2. CASE \E q \in Procs \ {p} : o \in Held(q)
    BY <2>2, <1>1
  <2> QED
    BY <2>1, <2>2 DEF LockInv, LocksReleased
<1> QED
  BY <1>3, <1>4, <1>5, <1>6 DEF LockInv

(* lockunspent true releases what p holds and nothing of another command,   *)
(* or leaves it behind.                                                    *)
LEMMA UnlockStep == ASSUME LockInv, NEW p \in Procs, Unlock(p) PROVE LockInv'
<1>1. /\ cmd[p].pc = "unlock" /\ DOMAIN cmd[p] = Fields
      /\ cmd[p].listed \cup cmd[p].locks \cup cmd[p].toLock \subseteq Seen
      /\ cmd[p].order.kind # "amount" /\ UNCHANGED << node, restarted >>
  BY DEF Unlock, At, LockInv, Shape, AmountLocksNothing, Live
<1>2. /\ Held(p) = cmd[p].toLock /\ Seen' = Seen /\ Unspent' = Unspent /\ Past'
  BY <1>1 DEF Held, Seen, Unspent, node, LockInv, Past
<1>3. /\ DOMAIN cmd' = Procs
      /\ \A q \in Procs \ {p} : cmd'[q] = Shaken(q, cmd[p].toLock)
      /\ cmd'[p] = Done \/ cmd'[p] = [cmd[p] EXCEPT !.pc = "sign"]
  BY DEF Unlock, AfterUnlock
<1>4. cmd'[p].pc = "done" \/ (/\ cmd'[p].pc = "sign" /\ DOMAIN cmd'[p] = Fields
                              /\ cmd'[p].listed \cup cmd'[p].locks \cup cmd'[p].toLock \subseteq Seen
                              /\ cmd'[p].order.kind # "amount")
  BY <1>1, <1>3 DEF Fields, Done
<1>5. /\ locked' \subseteq locked
      /\ locked \ locked' \subseteq Held(p)
      /\ stranded \cup (Held(p) \cap locked') \subseteq stranded'
  BY <1>2 DEF Unlock
<1> QED
  BY <1>1, <1>2, <1>3, <1>4, <1>5, ReleaseStep

(* A transaction adds outputs of a new height and spends; Core drops the    *)
(* locks of what it spends, held by another command or not.                *)
LEMMA BroadcastStep == ASSUME LockInv, NEW p \in Procs, Broadcast(p) PROVE LockInv'
<1> DEFINE tx == cmd[p].tx
           h  == height + 1
<1>1. cmd[p].pc = "sign" /\ Held(p) = {} /\ UNCHANGED << restarted, stranded >>
  BY DEF Broadcast, At, Held
<1>2. CASE /\ height' = h
           /\ coins' = {IF c.out \in ToSet(tx.ins) THEN [c EXCEPT !.spent = TRUE] ELSE c : c \in coins}
                       \cup {[out |-> o, script |-> Chain!ScriptAt(tx, o.vout), spent |-> FALSE]
                             : o \in Chain!OutsOf(h, tx)}
           /\ locked' = locked \ ToSet(tx.ins)
           /\ cmd' = [q \in Procs |-> IF q = p THEN Done ELSE Overtaken(q)]
  <2> HIDE DEF tx
  <2>1. ASSUME NEW c \in coins
        PROVE  LET d == IF c.out \in ToSet(tx.ins) THEN [c EXCEPT !.spent = TRUE] ELSE c
               IN  /\ DOMAIN d = {"out", "script", "spent"} /\ d.out = c.out
                   /\ d.out.height \in 0..height /\ (~d.spent => ~c.spent /\ c.out \notin ToSet(tx.ins))
    <3>1. DOMAIN c = {"out", "script", "spent"} /\ c.out.height \in 0..height
      BY DEF LockInv, Past
    <3>2. CASE c.out \in ToSet(tx.ins)
      BY <3>1, <3>2
    <3>3. CASE c.out \notin ToSet(tx.ins)
      BY <3>1, <3>3
    <3> QED
      BY <3>2, <3>3
  <2>2. ASSUME NEW c \in coins'
        PROVE  \/ /\ DOMAIN c = {"out", "script", "spent"} /\ c.out \in Seen
                  /\ c.out.height \in 0..height
                  /\ ~c.spent => c.out \in Unspent \ ToSet(tx.ins)
               \/ DOMAIN c = {"out", "script", "spent"} /\ c.out.height = h
    <3>1. CASE \E b \in coins :
                 c = IF b.out \in ToSet(tx.ins) THEN [b EXCEPT !.spent = TRUE] ELSE b
      BY <2>1, <3>1 DEF Seen, Unspent
    <3>2. CASE \E o \in Chain!OutsOf(h, tx) :
                 c = [out |-> o, script |-> Chain!ScriptAt(tx, o.vout), spent |-> FALSE]
      BY <3>2 DEF Chain!OutsOf, Chain!Out
    <3> QED
      BY <1>2, <3>1, <3>2
  <2>3. height \in Nat /\ \A o \in Seen : o.height \in 0..height
    BY DEF LockInv, Past, Seen
  <2>4. Past'
    <3>1. height' = h /\ h \in Nat /\ height <= h
      BY <1>2, <2>3
    <3>2. ASSUME NEW c \in coins'
          PROVE  DOMAIN c = {"out", "script", "spent"} /\ c.out.height \in 0..height'
      <4>1. CASE c.out \in Seen
        BY <2>2, <2>3, <3>1, <4>1
      <4>2. CASE c.out.height = h
        BY <2>2, <3>1, <4>2
      <4> QED
        BY <2>2, <4>1, <4>2
    <3> QED
      BY <3>1, <3>2 DEF Past
  <2>5. Seen \subseteq Seen'
    <3> SUFFICES ASSUME NEW c \in coins PROVE c.out \in Seen'
      BY DEF Seen
    <3>1. (IF c.out \in ToSet(tx.ins) THEN [c EXCEPT !.spent = TRUE] ELSE c) \in coins'
      BY <1>2
    <3> QED
      BY <2>1, <3>1 DEF Seen
  <2>6. Unspent' \cap Seen \subseteq Unspent \ ToSet(tx.ins)
    <3> SUFFICES ASSUME NEW c \in coins', ~c.spent, c.out \in Seen
                 PROVE  c.out \in Unspent \ ToSet(tx.ins)
      BY DEF Unspent
    <3>1. c.out.height # h
      BY <2>3
    <3> QED
      BY <2>2, <3>1
  <2>7. /\ DOMAIN cmd' = Procs /\ cmd'[p].pc = "done"
        /\ \A q \in Procs \ {p} : cmd'[q] = Overtaken(q)
    BY <1>2 DEF Done
  <2>8. locked' \subseteq locked /\ (locked \ locked') \cap Unspent' \cap Seen \subseteq Held(p)
    BY <1>2, <2>6
  <2> QED
    BY <1>1, <2>4, <2>5, <2>6, <2>7, <2>8, ReleaseStep
<1>3. CASE End(p) /\ UNCHANGED << node, locked, sent >>
  BY <1>1, <1>3, EndStep
<1> QED
  BY <1>2, <1>3 DEF Broadcast

(* Every step keeps the invariant.                                          *)
LEMMA NextLockInv == LockInv /\ [Next]_vars => LockInv'
<1> SUFFICES ASSUME LockInv, [Next]_vars PROVE LockInv'
  OBVIOUS
<1>1. ASSUME NEW p \in Procs,
             Start(p) \/ CheckNamed(p) \/ ListUnspent(p) \/ ComputeLocks(p) \/ ListLocked(p)
      PROVE  LockInv'
  BY <1>1, ReadingStep
<1>2. ASSUME NEW p \in Procs, Lock(p) \/ Fund(p) \/ Unlock(p) \/ Broadcast(p) PROVE LockInv'
  BY <1>2, LockStep, FundStep, UnlockStep, BroadcastStep
<1>3. ASSUME NEW p \in Procs, Crash(p) PROVE LockInv'
  BY <1>3, EndStep DEF Crash
<1>4. CASE Scan \/ UNCHANGED vars
  <2>1. UNCHANGED << node, locked, cmd, stranded, restarted >>
    BY <1>4 DEF Scan, vars, node
  <2>2. Seen' = Seen /\ Unspent' = Unspent /\ \A p \in Procs : Held(p)' = Held(p)
    BY <2>1 DEF Seen, Unspent, Held, node
  <2>3. Shape' /\ AmountLocksNothing'
    BY <2>1, <2>2 DEF LockInv, Shape, AmountLocksNothing, Live
  <2>4. Past' /\ HeldStand' /\ HeldApart' /\ LocksReleased'
    BY <2>1, <2>2 DEF LockInv, Past, HeldStand, HeldApart, LocksReleased, node
  <2> QED
    BY <2>3, <2>4 DEF LockInv
<1>5. CASE NodeRestart
  <2>1. /\ restarted' = TRUE /\ locked' = {} /\ UNCHANGED node
        /\ DOMAIN cmd' = Procs /\ \A q \in Procs : cmd'[q] = Shaken(q, locked)
    BY <1>5 DEF NodeRestart
  <2>2. Seen' = Seen /\ Past'
    BY <2>1 DEF LockInv, Past, Seen, node
  <2>3. \A q \in Procs :
          /\ cmd'[q].pc = cmd[q].pc /\ (Live(q)' <=> Live(q))
          /\ Live(q) => /\ DOMAIN cmd'[q] = Fields
                        /\ cmd'[q].order = cmd[q].order /\ cmd'[q].listed = cmd[q].listed
                        /\ cmd'[q].locks = cmd[q].locks /\ cmd'[q].toLock = cmd[q].toLock
    BY <2>1, OthersStep
  <2>4. Shape' /\ AmountLocksNothing'
    BY <2>1, <2>2, <2>3 DEF LockInv, Shape, AmountLocksNothing
  <2>5. HeldStand' /\ HeldApart' /\ LocksReleased'
    BY <2>1 DEF HeldStand, HeldApart, LocksReleased
  <2> QED
    BY <2>2, <2>4, <2>5 DEF LockInv
<1> QED
  BY <1>1, <1>2, <1>3, <1>4, <1>5 DEF Next

(* The invariant of every reachable state.                                  *)
LEMMA AlwaysLockInv == Spec => []LockInv
  BY InitLockInv, NextLockInv, PTL DEF Spec

(* compute_wallet_token_outpoints_to_lock, lockunspent and what follows:    *)
(* however many commands run on the wallet, the coins one of them has       *)
(* locked stay locked until it unlocks them, and no two hold the same coin. *)
THEOREM LocksStand == Spec => []LocksHeld
<1>1. LockInv => LocksHeld
  BY DEF LockInv, HeldStand, HeldApart, LocksHeld
<1> QED
  BY <1>1, AlwaysLockInv, PTL

(* A command gives back every lock it took, also when funding fails.        *)
THEOREM LocksGivenBack == Spec => []LocksReleased
<1>1. LockInv => LocksReleased
  BY DEF LockInv
<1> QED
  BY <1>1, AlwaysLockInv, PTL

-----------------------------------------------------------------------------
(* The operators of Chain are those that LedgerProofs reasons about.        *)

Facts == INSTANCE LedgerProofs WITH
  Scripts <- {Own, Payee}, NoOwner <- "no one", Funding <- << >>, Shapes <- << >>,
  MaxVout <- 0, MaxTokensPerTx <- MaxRegistered, collections <- {0},
  utxos <- dbs[height].utxos, ranges <- dbs[height].ranges,
  halted <- FALSE, minted <- {}, reminted <- {}

LEMMA Instance == Facts!LedgerConstants
BY WalletConstants DEF Facts!LedgerConstants

LEMMA SameFolds ==
  /\ \A s, S : Chain!Keep(s, S) = Facts!Keep(s, S) /\ Keep(s, S) = Facts!Keep(s, S)
  /\ \A rs : Chain!Total(rs) = Facts!Total(rs)
  /\ \A rs : Chain!MergeOrdered(rs) = Facts!MergeOrdered(rs)
  /\ \A m : Chain!SlotCount(m) = Facts!SlotCount(m)
<1> USE DEF Chain!FoldLeft, Facts!FoldLeft, FoldLeft, Chain!MapThenFoldSet, Facts!MapThenFoldSet, MapThenFoldSet, Chain!Max, Facts!Max, Max
<1>1. \A s, S : Chain!Keep(s, S) = Facts!Keep(s, S)
  BY DEF Chain!Keep, Facts!Keep
<1>2. \A s, S : Keep(s, S) = Facts!Keep(s, S)
  BY DEF Keep, Facts!Keep
<1>3. \A rs : Chain!Total(rs) = Facts!Total(rs)
  BY DEF Chain!Total, Facts!Total, Chain!Count, Facts!Count
<1>4. \A rs : Chain!MergeOrdered(rs) = Facts!MergeOrdered(rs)
  BY DEF Chain!MergeOrdered, Facts!MergeOrdered, Chain!PushSlice, Facts!PushSlice, Chain!Last, Facts!Last, Chain!Front, Facts!Front
<1>5. \A m : Chain!SlotCount(m) = Facts!SlotCount(m)
  BY DEF Chain!SlotCount, Facts!SlotCount, Chain!Total, Facts!Total, Chain!Count, Facts!Count
<1> QED
  BY <1>1, <1>2, <1>3, <1>4, <1>5

LEMMA SameSaves ==
  /\ \A d, o : Chain!RangesAt(d, o) = Facts!RangesAt(d, o) /\ Chain!UnspentGroups(d, o) = Facts!UnspentGroups(d, o)
  /\ \A d, o, rs : Chain!SaveRanges(d, o, rs) = Facts!SaveRanges(d, o, rs)
  /\ \A d, o, rs, w, h : Chain!SaveUtxos(d, o, rs, w, h) = Facts!SaveUtxos(d, o, rs, w, h)
<1> USE DEF Chain!FoldLeft, Facts!FoldLeft, FoldLeft, Chain!MapThenFoldSet, Facts!MapThenFoldSet, MapThenFoldSet, Chain!Max, Facts!Max, Max
<1>1. \A d, o : Chain!RangesAt(d, o) = Facts!RangesAt(d, o) /\ Chain!UnspentGroups(d, o) = Facts!UnspentGroups(d, o)
  BY DEF Chain!RangesAt, Facts!RangesAt, Chain!UnspentGroups, Facts!UnspentGroups
<1>2. \A d, o, rs : Chain!SaveRanges(d, o, rs) = Facts!SaveRanges(d, o, rs)
  BY DEF Chain!SaveRanges, Facts!SaveRanges, Chain!SaveRange, Facts!SaveRange, Chain!RangesAt, Facts!RangesAt, Chain!ToSet, Facts!ToSet
<1>3. \A d, o, rs, w, h : Chain!SaveUtxos(d, o, rs, w, h) = Facts!SaveUtxos(d, o, rs, w, h)
  BY DEF Chain!SaveUtxos, Facts!SaveUtxos, Chain!SaveUtxo, Facts!SaveUtxo
<1> QED
  BY <1>1, <1>2, <1>3

LEMMA SameMessage ==
  /\ \A m : Chain!ExplicitRanges(m) = Facts!ExplicitRanges(m)
  /\ \A tx : Chain!Message(tx) = Facts!Message(tx)
  /\ \A m, n : Chain!CountSuffices(m, n) = Facts!CountSuffices(m, n)
<1>1. \A m : Chain!ExplicitRanges(m) = Facts!ExplicitRanges(m)
  BY DEF Chain!ExplicitRanges, Facts!ExplicitRanges, Chain!Explicit, Facts!Explicit
<1>2. \A m : Chain!WellFormed(m) = Facts!WellFormed(m)
  BY <1>1 DEF Chain!WellFormed, Facts!WellFormed, Chain!Explicit, Facts!Explicit
<1>3. \A tx : Chain!Message(tx) = Facts!Message(tx)
  BY <1>2 DEF Chain!Message, Facts!Message, Chain!NoMessage, Facts!NoMessage
<1>4. \A m, n : Chain!CountSuffices(m, n) = Facts!CountSuffices(m, n)
  BY <1>1 DEF Chain!CountSuffices, Facts!CountSuffices
<1> QED
  BY <1>1, <1>3, <1>4

LEMMA SameSweep == \A m, rs : Chain!Sweep(m, rs) = Facts!Sweep(m, rs)
<1> TAKE m, rs
<1> QED
  BY DEF Chain!Sweep, Facts!Sweep, Chain!SliceTo, Facts!SliceTo, Chain!IndexStart, Facts!IndexStart,
     Chain!ExplicitRanges, Facts!ExplicitRanges, Chain!Explicit, Facts!Explicit, Chain!Total, Facts!Total,
     Chain!Count, Facts!Count, Chain!FoldLeft, Facts!FoldLeft, FoldLeft, Chain!MapThenFoldSet,
     Facts!MapThenFoldSet, MapThenFoldSet, Chain!Max, Facts!Max, Max

LEMMA SameTransaction ==
  /\ \A d, o : Chain!UnspentRanges(d, o) = Facts!UnspentRanges(d, o)
  /\ \A d, tx : Chain!TokenInputs(d, tx) = Facts!TokenInputs(d, tx)
  /\ \A d, tx : Chain!InputRanges(d, tx) = Facts!InputRanges(d, tx)
  /\ \A d, tx : Chain!MixAccepted(d, tx) = Facts!MixAccepted(d, tx)
  /\ \A tx : Chain!RemainingOutputs(tx) = Facts!RemainingOutputs(tx)
  /\ \A tx : Chain!Registers(tx) = Facts!Registers(tx) /\ Chain!ParseFails(tx) = Facts!ParseFails(tx)
  /\ \A tx, k : Chain!RegisteredRanges(tx, k) = Facts!RegisteredRanges(tx, k)
<1>1. \A d, o : Chain!UnspentRanges(d, o) = Facts!UnspentRanges(d, o)
  BY SameFolds, SameSaves DEF Chain!UnspentRanges, Facts!UnspentRanges, Chain!ToSet, Facts!ToSet
<1>2. \A d, tx : Chain!TokenInputs(d, tx) = Facts!TokenInputs(d, tx)
  BY <1>1, SameFolds DEF Chain!TokenInputs, Facts!TokenInputs, Chain!ToSet, Facts!ToSet
<1>3. \A d, tx : Chain!InputRanges(d, tx) = Facts!InputRanges(d, tx)
  <2> TAKE d, tx
  <2>1. [i \in 1..Len(Chain!TokenInputs(d, tx)) |-> Chain!UnspentRanges(d, Chain!TokenInputs(d, tx)[i])]
        = [i \in 1..Len(Facts!TokenInputs(d, tx)) |-> Facts!UnspentRanges(d, Facts!TokenInputs(d, tx)[i])]
    BY <1>1, <1>2
  <2>2. \A s : Chain!FlattenSeq(s) = Facts!FlattenSeq(s)
    BY DEF Chain!FlattenSeq, Facts!FlattenSeq
  <2> QED
    BY <2>1, <2>2 DEF Chain!InputRanges, Facts!InputRanges
<1>4. \A tx, v : Chain!ScriptAt(tx, v) = Facts!ScriptAt(tx, v)
  BY DEF Chain!ScriptAt, Facts!ScriptAt
<1>5. \A d, tx : Chain!MixAccepted(d, tx) = Facts!MixAccepted(d, tx)
  BY <1>1, <1>2, <1>3, <1>4, SameMessage, SameFolds
  DEF Chain!MixAccepted, Facts!MixAccepted, Chain!OwnershipInputsArePrefix, Facts!OwnershipInputsArePrefix
<1>6. \A tx : Chain!RemainingOutputs(tx) = Facts!RemainingOutputs(tx)
  BY <1>4, SameFolds DEF Chain!RemainingOutputs, Facts!RemainingOutputs
<1>7. \A tx : Chain!Registers(tx) = Facts!Registers(tx) /\ Chain!ParseFails(tx) = Facts!ParseFails(tx)
  BY SameMessage, SameFolds DEF Chain!Registers, Facts!Registers, Chain!ParseFails, Facts!ParseFails
<1>8. \A tx, k : Chain!RegisteredRanges(tx, k) = Facts!RegisteredRanges(tx, k)
  BY SameMessage DEF Chain!RegisteredRanges, Facts!RegisteredRanges, Chain!Base, Facts!Base, Chain!ScriptOf, Facts!ScriptOf
<1> QED
  BY <1>1, <1>2, <1>3, <1>5, <1>6, <1>7, <1>8

LEMMA SameAssigned == \A m, rs, k : Chain!Assigned(m, rs, k) = Facts!Assigned(m, rs, k)
<1> TAKE m, rs, k
<1> DEFINE sl == Facts!Sweep(m, rs)
<1>1. /\ Chain!Assigned(m, rs, k) = Chain!FoldLeft(LAMBDA acc, s : IF s.out = k THEN Chain!PushSlice(acc, s.range) ELSE acc, << >>, sl)
      /\ Facts!Assigned(m, rs, k) = Facts!FoldLeft(LAMBDA acc, s : IF s.out = k THEN Facts!PushSlice(acc, s.range) ELSE acc, << >>, sl)
  BY SameSweep DEF Chain!Assigned, Facts!Assigned
<1> HIDE DEF sl
<1> QED
  BY <1>1 DEF Chain!PushSlice, Facts!PushSlice, Chain!Last, Facts!Last, Chain!Front, Facts!Front,
     Chain!FoldLeft, Facts!FoldLeft, Chain!MapThenFoldSet, Facts!MapThenFoldSet, Chain!Max, Facts!Max

(* The gifts made one after the other, by the two instances.               *)
LEMMA SameOutputs ==
  /\ \A T : Chain!Max(T) = Facts!Max(T)
  /\ \A h, v : Chain!Out(h, v) = Facts!Out(h, v)
  /\ \A tx, v : Chain!ScriptAt(tx, v) = Facts!ScriptAt(tx, v)
  /\ \A h, tx : Chain!OutsOf(h, tx) = Facts!OutsOf(h, tx)
BY DEF Chain!Max, Facts!Max, Chain!Out, Facts!Out, Chain!ScriptAt, Facts!ScriptAt, Chain!OutsOf, Facts!OutsOf

LEMMA SameMix == \A d, e, tx, h : Chain!DigestMix(d, e, tx, h) = Facts!DigestMix(d, e, tx, h)
<1> TAKE d, e, tx, h
<1> DEFINE cks == [k \in 1..Len(Chain!Message(tx).outs) |-> k]
           pks == [k \in 1..Len(Facts!Message(tx).outs) |-> k]
           cgive(a, k) == Chain!SaveRanges(Chain!SaveUtxos(a, Chain!Out(h, k), Chain!Assigned(Chain!Message(tx), Chain!InputRanges(d, tx), k), Chain!ScriptAt(tx, k), h),
                                           Chain!Out(h, k), Chain!Assigned(Chain!Message(tx), Chain!InputRanges(d, tx), k))
           pgive(a, k) == Facts!SaveRanges(Facts!SaveUtxos(a, Facts!Out(h, k), Facts!Assigned(Facts!Message(tx), Facts!InputRanges(d, tx), k), Facts!ScriptAt(tx, k), h),
                                       Facts!Out(h, k), Facts!Assigned(Facts!Message(tx), Facts!InputRanges(d, tx), k))
           C(it) == it = [T \in SUBSET DOMAIN cks |-> IF T = {} THEN e
                            ELSE cgive(it[T \ {Chain!Max(T)}], cks[Chain!Max(T)])]
           Q(it) == it = [T \in SUBSET DOMAIN pks |-> IF T = {} THEN e
                            ELSE pgive(it[T \ {Facts!Max(T)}], pks[Facts!Max(T)])]
<1>1. Chain!DigestMix(d, e, tx, h) = (CHOOSE it : C(it))[DOMAIN cks]
  BY DEF Chain!DigestMix, Chain!FoldLeft, Chain!MapThenFoldSet
<1>2. Facts!DigestMix(d, e, tx, h) = (CHOOSE it : Q(it))[DOMAIN pks]
  BY DEF Facts!DigestMix, Facts!FoldLeft, Facts!MapThenFoldSet
<1>3. cks = pks /\ \A a, k : cgive(a, k) = pgive(a, k)
  BY SameMessage, SameTransaction, SameOutputs, SameAssigned, SameSaves
<1>4. \A it : C(it) <=> Q(it)
  <2> HIDE DEF cgive, pgive, cks, pks
  <2> QED
    BY <1>3, SameOutputs
<1> HIDE DEF C, Q, cks, pks
<1>5. (CHOOSE it : C(it)) = (CHOOSE it : Q(it))
  BY <1>4
<1> QED
  BY <1>1, <1>2, <1>3, <1>5

LEMMA SameOwnership == \A d, tx, h : Chain!DigestOwnership(d, tx, h) = Facts!DigestOwnership(d, tx, h)
<1> TAKE d, tx, h
<1> DEFINE cks == [k \in 1..Len(Chain!Message(tx).groups) |-> k]
           pks == [k \in 1..Len(Facts!Message(tx).groups) |-> k]
           cgive(a, k) == Chain!SaveRanges(Chain!SaveUtxos(a, Chain!Out(h, k), Chain!RegisteredRanges(tx, k), Chain!ScriptAt(tx, k), h),
                                           Chain!Out(h, k), Chain!RegisteredRanges(tx, k))
           pgive(a, k) == Facts!SaveRanges(Facts!SaveUtxos(a, Facts!Out(h, k), Facts!RegisteredRanges(tx, k), Facts!ScriptAt(tx, k), h),
                                       Facts!Out(h, k), Facts!RegisteredRanges(tx, k))
           C(it) == it = [T \in SUBSET DOMAIN cks |-> IF T = {} THEN d
                            ELSE cgive(it[T \ {Chain!Max(T)}], cks[Chain!Max(T)])]
           Q(it) == it = [T \in SUBSET DOMAIN pks |-> IF T = {} THEN d
                            ELSE pgive(it[T \ {Facts!Max(T)}], pks[Facts!Max(T)])]
<1>1. Chain!DigestOwnership(d, tx, h) = IF Chain!Registers(tx) THEN (CHOOSE it : C(it))[DOMAIN cks] ELSE d
  BY DEF Chain!DigestOwnership, Chain!FoldLeft, Chain!MapThenFoldSet
<1>2. Facts!DigestOwnership(d, tx, h) = IF Facts!Registers(tx) THEN (CHOOSE it : Q(it))[DOMAIN pks] ELSE d
  BY DEF Facts!DigestOwnership, Facts!FoldLeft, Facts!MapThenFoldSet
<1>3. cks = pks /\ \A a, k : cgive(a, k) = pgive(a, k)
  BY SameMessage, SameTransaction, SameOutputs, SameSaves
<1>4. \A it : C(it) <=> Q(it)
  <2> HIDE DEF cgive, pgive, cks, pks
  <2> QED
    BY <1>3, SameOutputs
<1> HIDE DEF C, Q, cks, pks
<1>5. (CHOOSE it : C(it)) = (CHOOSE it : Q(it))
  BY <1>4
<1>6. Chain!Registers(tx) <=> Facts!Registers(tx)
  BY SameTransaction
<1> QED
  BY <1>1, <1>2, <1>3, <1>5, <1>6

LEMMA SameImplicit ==
  \A d, e, tx, h : Chain!ImplicitTransfer(d, e, tx, h) = Facts!ImplicitTransfer(d, e, tx, h)
<1> TAKE d, e, tx, h
<1> DEFINE cins == Chain!TokenInputs(d, tx)
           pins == Facts!TokenInputs(d, tx)
           couts == Chain!RemainingOutputs(tx)
           pouts == Facts!RemainingOutputs(tx)
           cdest(i) == IF couts = << >> THEN 0 ELSE IF i <= Len(couts) THEN couts[i] ELSE Chain!Last(couts)
           pdest(i) == IF pouts = << >> THEN 0 ELSE IF i <= Len(pouts) THEN pouts[i] ELSE Facts!Last(pouts)
           cowner(i) == IF couts = << >> THEN "no one" ELSE Chain!ScriptAt(tx, cdest(i))
           powner(i) == IF pouts = << >> THEN "no one" ELSE Facts!ScriptAt(tx, pdest(i))
           cks == [i \in 1..Len(cins) |-> i]
           pks == [i \in 1..Len(pins) |-> i]
           cgive(a, i) == Chain!SaveRangesForOutput(a, Chain!Out(h, cdest(i)), Chain!UnspentRanges(d, cins[i]), cowner(i), h)
           pgive(a, i) == Facts!SaveRangesForOutput(a, Facts!Out(h, pdest(i)), Facts!UnspentRanges(d, pins[i]), powner(i), h)
           C(it) == it = [T \in SUBSET DOMAIN cks |-> IF T = {} THEN e
                            ELSE cgive(it[T \ {Chain!Max(T)}], cks[Chain!Max(T)])]
           Q(it) == it = [T \in SUBSET DOMAIN pks |-> IF T = {} THEN e
                            ELSE pgive(it[T \ {Facts!Max(T)}], pks[Facts!Max(T)])]
<1>1. Chain!ImplicitTransfer(d, e, tx, h) = (CHOOSE it : C(it))[DOMAIN cks]
  BY DEF Chain!ImplicitTransfer, Chain!FoldLeft, Chain!MapThenFoldSet
<1>2. Facts!ImplicitTransfer(d, e, tx, h) = (CHOOSE it : Q(it))[DOMAIN pks]
  BY DEF Facts!ImplicitTransfer, Facts!FoldLeft, Facts!MapThenFoldSet
<1>3. cks = pks /\ \A a, i : cgive(a, i) = pgive(a, i)
  <2>1. cins = pins /\ couts = pouts
    BY SameTransaction
  <2>2. \A i : cdest(i) = pdest(i)
    <3> HIDE DEF cins, pins, couts, pouts
    <3> QED
      BY <2>1 DEF Chain!Last, Facts!Last
  <2>3. \A i : cowner(i) = powner(i)
    <3> HIDE DEF cins, pins, couts, pouts, cdest, pdest
    <3> QED
      BY <2>1, <2>2, SameOutputs
  <2>4. \A a, o, rs, w : Chain!SaveRangesForOutput(a, o, rs, w, h) = Facts!SaveRangesForOutput(a, o, rs, w, h)
    BY SameSaves, SameFolds DEF Chain!SaveRangesForOutput, Facts!SaveRangesForOutput
  <2>5. \A o : Chain!UnspentRanges(d, o) = Facts!UnspentRanges(d, o)
    BY SameTransaction
  <2>6. cks = pks
    BY <2>1
  <2> HIDE DEF cins, pins, couts, pouts, cdest, pdest, cowner, powner, cks, pks
  <2> QED
    BY <2>1, <2>2, <2>3, <2>4, <2>5, <2>6, SameOutputs
<1>4. \A it : C(it) <=> Q(it)
  <2> HIDE DEF cgive, pgive, cks, pks
  <2> QED
    BY <1>3, SameOutputs
<1> HIDE DEF C, Q, cks, pks
<1>5. (CHOOSE it : C(it)) = (CHOOSE it : Q(it))
  BY <1>4
<1> QED
  BY <1>1, <1>2, <1>3, <1>5

LEMMA SameParse ==
  /\ \A d, tx, h : Chain!ParseTx(d, tx, h) = Facts!ParseTx(d, tx, h)
  /\ \A d, o, rs, w, h : Chain!SaveRangesForOutput(d, o, rs, w, h) = Facts!SaveRangesForOutput(d, o, rs, w, h)
<1>1. \A d, S : Chain!MarkSpent(d, S) = Facts!MarkSpent(d, S)
  BY DEF Chain!MarkSpent, Facts!MarkSpent
<1>2. \A s : Chain!ToSet(s) = Facts!ToSet(s)
  BY DEF Chain!ToSet, Facts!ToSet
<1>3. \A d, tx, h : Chain!ParseTx(d, tx, h) = Facts!ParseTx(d, tx, h)
  BY <1>1, <1>2, SameMessage, SameTransaction, SameMix, SameOwnership, SameImplicit
  DEF Chain!ParseTx, Facts!ParseTx
<1>4. \A d, o, rs, w, h : Chain!SaveRangesForOutput(d, o, rs, w, h) = Facts!SaveRangesForOutput(d, o, rs, w, h)
  BY SameSaves, SameFolds DEF Chain!SaveRangesForOutput, Facts!SaveRangesForOutput
<1> QED
  BY <1>3, <1>4

-----------------------------------------------------------------------------
(* What a transaction does to the tables.                                   *)

(* Tables of the first h blocks.                                            *)
TablesUpTo(d, h) == d \in Facts!Dbs /\ \A u \in d.utxos : u.out.height <= h

(* MarkSpent changes no row but for its mark.                                *)
LEMMA MarkSpentRows ==
  ASSUME NEW d \in Facts!Dbs, NEW S
  PROVE  /\ Facts!MarkSpent(d, S) \in Facts!Dbs
         /\ \A u \in Facts!MarkSpent(d, S).utxos : \E v \in d.utxos :
              u.out = v.out /\ u.group = v.group /\ (v.spent => u.spent)
<1> DEFINE after(u) == IF u.out \in S THEN [u EXCEPT !.spent = TRUE] ELSE u
           e == Facts!MarkSpent(d, S)
<1>1. d = [utxos |-> d.utxos, ranges |-> d.ranges] /\ d.utxos \in SUBSET Facts!RowTypes /\ d.ranges \in Facts!RangeTables
  <2>1. d \in [utxos : SUBSET Facts!RowTypes, ranges : Facts!RangeTables]
    BY DEF Facts!Dbs
  <2> QED
    BY <2>1
<1>2. e = [utxos |-> {after(u) : u \in d.utxos}, ranges |-> d.ranges]
  <2>1. e = [d EXCEPT !.utxos = {after(u) : u \in d.utxos}]
    BY DEF Facts!MarkSpent
  <2>2. PICK A, B, D : A = d.utxos /\ B = d.ranges /\ D = {after(u) : u \in d.utxos}
    OBVIOUS
  <2> HIDE DEF e, after
  <2>3. d = [utxos |-> A, ranges |-> B] /\ e = [d EXCEPT !.utxos = D]
    BY <1>1, <2>1, <2>2
  <2>4. e = [utxos |-> D, ranges |-> B]
    BY <2>3
  <2> QED
    BY <2>2, <2>4
<1>3. ASSUME NEW v \in Facts!RowTypes
      PROVE  /\ after(v) \in Facts!RowTypes /\ after(v).out = v.out /\ after(v).group = v.group
             /\ v.spent => after(v).spent
  BY DEF Facts!RowTypes
<1> HIDE DEF after, e
<1>4. \A u \in e.utxos : \E v \in d.utxos : u = after(v)
  BY <1>2
<1>5. e.utxos \in SUBSET Facts!RowTypes
  BY <1>1, <1>3, <1>4
<1>6. e \in Facts!Dbs
  BY <1>1, <1>2, <1>5 DEF Facts!Dbs
<1>7. \A u \in e.utxos : \E v \in d.utxos : u.out = v.out /\ u.group = v.group /\ (v.spent => u.spent)
  <2> SUFFICES ASSUME NEW u \in e.utxos
               PROVE \E v \in d.utxos : u.out = v.out /\ u.group = v.group /\ (v.spent => u.spent)
    OBVIOUS
  <2>1. PICK v \in d.utxos : u = after(v)
    BY <1>4
  <2> QED
    BY <1>1, <1>3, <2>1
<1> QED
  BY <1>6, <1>7 DEF e

(* A transaction gives rows to its own outputs only, and takes no output's  *)
(* spent rows back.                                                         *)
LEMMA ParseTxTables ==
  ASSUME NEW h \in Nat, NEW d, TablesUpTo(d, h), NEW tx, Facts!Allowed(tx)
  PROVE  /\ TablesUpTo(Chain!ParseTx(d, tx, h + 1), h + 1)
         /\ \A o : o.height <= h =>
              Chain!UnspentGroups(Chain!ParseTx(d, tx, h + 1), o) \subseteq Chain!UnspentGroups(d, o)
<1> DEFINE k == h + 1
           spent == Facts!MarkSpent(d, Facts!ToSet(tx.ins))
           e == Facts!ParseTx(d, tx, k)
           gifts == Facts!TxGifts(d, tx, k)
<1>0. k \in Nat /\ d \in Facts!Dbs /\ Chain!ParseTx(d, tx, k) = e /\ tx \in Facts!TxTypes
  BY SameParse DEF TablesUpTo, Facts!Allowed
<1>1. \A u \in spent.utxos : \E v \in d.utxos : u.out = v.out /\ u.group = v.group /\ (v.spent => u.spent)
  BY <1>0, MarkSpentRows
<1>2. ASSUME NEW o \in Facts!OutsOf(k, tx) PROVE o.height = k /\ o.height \in Nat
  BY <1>0, <1>2, Facts!OutsOfFacts, Instance
<1>3. ASSUME NEW u \in spent.utxos PROVE u.out.height <= h /\ u.out.height \in Nat /\ u.out \notin Facts!OutsOf(k, tx)
  <2>1. PICK v \in d.utxos : u.out = v.out
    BY <1>1
  <2>2. v.out.height <= h /\ v \in Facts!RowTypes
    BY <1>0 DEF TablesUpTo, Facts!Dbs
  <2>3. v.out.height \in Nat
    BY <2>2 DEF Facts!RowTypes, Facts!Outpoints
  <2> QED
    BY <1>2, <2>1, <2>2, <2>3
<1>4. spent \in Facts!TxDbs(tx, k)
  <2>1. spent \in Facts!Dbs
    BY <1>0, MarkSpentRows
  <2> QED
    BY <1>3, <2>1 DEF Facts!TxDbs
<1>5. Facts!Gave(spent, e, gifts, tx, k) /\ gifts \subseteq Facts!Gifts(tx, k)
  <2> HIDE DEF k
  <2> QED
    BY <1>0, <1>4, Facts!ParseTxGives, Facts!GiftsType, Instance
<1> HIDE DEF k, spent, e, gifts
<1>6. ASSUME NEW u \in e.utxos PROVE u \in spent.utxos \/ (u.out \in Facts!OutsOf(k, tx) /\ ~u.spent)
  <2>1. CASE u \notin spent.utxos
    <3>1. PICK f \in gifts : u \in Facts!NewRows(f, tx, k)
      BY <1>5, <2>1 DEF Facts!Gave
    <3>2. f \in Facts!Gifts(tx, k)
      BY <1>5
    <3>3. f.out \in Facts!OutsOf(k, tx)
      BY <3>2 DEF Facts!Gifts
    <3> QED
      BY <3>1, <3>3 DEF Facts!NewRows, Facts!NewRow
  <2> QED
    BY <2>1
<1>7. e \in Facts!Dbs
  BY <1>5 DEF Facts!Gave, Facts!TxDbs
<1>8. \A u \in e.utxos : u.out.height <= k
  BY <1>2, <1>3, <1>6 DEF k
<1>9. ASSUME NEW o, o.height <= h PROVE Facts!UnspentGroups(e, o) \subseteq Facts!UnspentGroups(d, o)
  <2> SUFFICES ASSUME NEW u \in e.utxos, u.out = o, ~u.spent
               PROVE  u.group \in Facts!UnspentGroups(d, o)
    BY DEF Facts!UnspentGroups
  <2>1. u \in spent.utxos
    BY <1>2, <1>6, <1>9 DEF k
  <2>2. PICK v \in d.utxos : u.out = v.out /\ u.group = v.group /\ (v.spent => u.spent)
    BY <1>1, <2>1
  <2> QED
    BY <2>2 DEF Facts!UnspentGroups
<1>10. \A o : o.height <= h => Chain!UnspentGroups(e, o) \subseteq Chain!UnspentGroups(d, o)
  BY <1>9, SameSaves
<1> QED
  BY <1>0, <1>7, <1>8, <1>10 DEF TablesUpTo, k

-----------------------------------------------------------------------------
(* What Core and create_psbt_* make of a command.                           *)

(* A transaction that Core and create_psbt_* make for a command: it         *)
(* registers no more groups than it has outputs, and spends something.      *)
Sendable(tx) ==
  /\ tx \in Facts!TxTypes /\ ~Facts!ParseFails(tx) /\ tx # NoTx

OutScripts == {Own, Payee} \cup {OpReturn}

(* An order of a finite set lists all of it.                                *)
LEMMA OrdersFacts ==
  ASSUME NEW S, IsFiniteSet(S), NEW s \in Orders(S)
  PROVE  s \in Seq(S) /\ ToSet(s) = S
<1>1. Cardinality(S) \in Nat
  BY FS_CardinalityType
<1> QED
  BY <1>1 DEF Orders

(* A sequence has finitely many elements.                                   *)
LEMMA SetOfSeq ==
  ASSUME NEW A, NEW s \in Seq(A)
  PROVE  IsFiniteSet(ToSet(s)) /\ ToSet(s) \subseteq A
<1>1. Len(s) \in Nat /\ s \in [1..Len(s) -> A] /\ ToSet(s) = {s[i] : i \in 1..Len(s)}
  BY DEF ToSet
<1>2. ToSet(s) \subseteq A
  BY <1>1
<1>3. s \in Surjection(1..Len(s), ToSet(s))
  <2>1. \A i \in 1..Len(s) : s[i] \in ToSet(s)
    BY <1>1
  <2>2. \A x \in ToSet(s) : \E i \in 1..Len(s) : s[i] = x
    BY <1>1
  <2> QED
    BY <1>1, <2>1, <2>2 DEF Surjection
<1>4. IsFiniteSet(1..Len(s))
  BY <1>1, FS_Interval
<1> QED
  BY <1>2, <1>3, <1>4, FS_Surjection

(* ... and two joined have those of both.                                   *)
LEMMA SetOfConcat ==
  ASSUME NEW A, NEW s \in Seq(A), NEW t \in Seq(A)
  PROVE  s \o t \in Seq(A) /\ ToSet(s \o t) = ToSet(s) \cup ToSet(t)
<1> DEFINE u == s \o t
<1>1. ASSUME NEW i \in 1..Len(u) PROVE u[i] \in ToSet(s) \cup ToSet(t)
  <2>1. CASE i \in 1..Len(s)
    BY <2>1 DEF ToSet
  <2>2. CASE i \notin 1..Len(s)
    <3>1. i - Len(s) \in 1..Len(t) /\ u[i] = t[i - Len(s)]
      BY <2>2
    <3> QED
      BY <3>1 DEF ToSet
  <2> QED
    BY <2>1, <2>2
<1>2. ASSUME NEW i \in 1..Len(s) PROVE s[i] \in ToSet(u)
  <2>1. i \in 1..Len(u) /\ u[i] = s[i]
    OBVIOUS
  <2> QED
    BY <2>1 DEF ToSet
<1>3. ASSUME NEW i \in 1..Len(t) PROVE t[i] \in ToSet(u)
  <2>1. Len(s) + i \in 1..Len(u) /\ u[Len(s) + i] = t[i]
    OBVIOUS
  <2> QED
    BY <2>1 DEF ToSet
<1>4. u \in Seq(A)
  OBVIOUS
<1> HIDE DEF u
<1>5. ToSet(u) = {u[i] : i \in 1..Len(u)} /\ ToSet(s) = {s[i] : i \in 1..Len(s)} /\ ToSet(t) = {t[i] : i \in 1..Len(t)}
  BY <1>4 DEF ToSet
<1>6. \A i \in 1..Len(u) : u[i] \in ToSet(s) \cup ToSet(t)
  BY <1>1
<1>7. (\A i \in 1..Len(s) : s[i] \in ToSet(u)) /\ (\A i \in 1..Len(t) : t[i] \in ToSet(u))
  BY <1>2, <1>3
<1>8. ToSet(u) = ToSet(s) \cup ToSet(t)
  <2>1. ToSet(u) \subseteq ToSet(s) \cup ToSet(t)
    BY <1>5, <1>6
  <2>2. ToSet(s) \subseteq ToSet(u) /\ ToSet(t) \subseteq ToSet(u)
    BY <1>5, <1>7
  <2> QED
    BY <2>1, <2>2
<1> QED
  BY <1>4, <1>8 DEF u

(* The named coins first, none lost.                                        *)
LEMMA ReorderFacts ==
  ASSUME NEW A, NEW ins \in Seq(A), NEW named \in Seq(A), ToSet(named) \subseteq ToSet(ins)
  PROVE  Reorder(ins, named) \in Seq(A) /\ ToSet(Reorder(ins, named)) = ToSet(ins)
<1> DEFINE rest == Keep(ins, ToSet(ins) \ ToSet(named))
<1>1. rest \in Seq(A) /\ ToSet(rest) = ToSet(ins) \ ToSet(named)
  <2> DEFINE S == ToSet(ins) \ ToSet(named)
  <2>1. \A s : Facts!ToSet(s) = ToSet(s)
    BY DEF Facts!ToSet, ToSet
  <2>2. Facts!Keep(ins, S) \in Seq(A) /\ Facts!ToSet(Facts!Keep(ins, S)) = Facts!ToSet(ins) \cap S
    <3> HIDE DEF S
    <3> QED
      BY Facts!KeepFacts, Instance
  <2>3. rest = Facts!Keep(ins, S)
    BY SameFolds
  <2> QED
    BY <2>1, <2>2, <2>3
<1> HIDE DEF rest
<1>2. named \o rest \in Seq(A) /\ ToSet(named \o rest) = ToSet(named) \cup ToSet(rest)
  BY <1>1, SetOfConcat
<1> QED
  BY <1>1, <1>2 DEF Reorder, rest

(* move_opreturn_first loses no output.                                     *)
LEMMA MoveOpReturnFirstFacts ==
  ASSUME NEW outs \in Seq(OutScripts)
  PROVE  MoveOpReturnFirst(outs) \in Seq(OutScripts) /\ Len(MoveOpReturnFirst(outs)) = Len(outs)
<1> DEFINE at == {i \in 1..Len(outs) : outs[i] = OpReturn}
           first == CHOOSE i \in at : \A j \in at : i <= j
<1>1. CASE at = {}
  BY <1>1 DEF MoveOpReturnFirst
<1>2. CASE at # {}
  <2>1. \E i \in at : \A j \in at : i <= j
    <3> DEFINE S == {[start |-> i] : i \in at}
    <3>1. PICK i \in at : TRUE
      BY <1>2
    <3>2. [start |-> i] \in S
      BY <3>1
    <3>3. \A e \in S : \E j \in at : e = [start |-> j]
      OBVIOUS
    <3>4. \A j \in at : [start |-> j] \in S /\ j \in Nat
      OBVIOUS
    <3> HIDE DEF S, at
    <3>5. \A e \in S : e.start \in Nat
      BY <3>3, <3>4
    <3>6. PICK e \in S : \A f \in S : e.start <= f.start
      BY <3>2, <3>5, Facts!LeastStart, Instance
    <3>7. PICK k \in at : e = [start |-> k]
      BY <3>3
    <3>8. \A j \in at : k <= j
      <4> SUFFICES ASSUME NEW j \in at PROVE k <= j
        OBVIOUS
      <4>1. e.start <= [start |-> j].start
        BY <3>4, <3>6
      <4> QED
        BY <3>7, <4>1
    <3> QED
      BY <3>8
  <2>2. first \in 1..Len(outs)
    <3> HIDE DEF at
    <3>1. first \in at
      BY <2>1
    <3> QED
      BY <3>1 DEF at
  <2>3. MoveOpReturnFirst(outs)
        = <<OpReturn>> \o SubSeq(outs, 1, first - 1) \o SubSeq(outs, first + 1, Len(outs))
    BY <1>2 DEF MoveOpReturnFirst
  <2>4. PICK n \in 1..Len(outs) : n = first
    BY <2>2
  <2>5. SubSeq(outs, 1, n - 1) \in Seq(OutScripts) /\ Len(SubSeq(outs, 1, n - 1)) = n - 1
    OBVIOUS
  <2>6. SubSeq(outs, n + 1, Len(outs)) \in Seq(OutScripts) /\ Len(SubSeq(outs, n + 1, Len(outs))) = Len(outs) - n
    OBVIOUS
  <2>7. <<OpReturn>> \in Seq(OutScripts) /\ Len(<<OpReturn>>) = 1
    BY DEF OutScripts
  <2>8. PICK s \in Seq(OutScripts) : s = <<OpReturn>> /\ Len(s) = 1
    BY <2>7
  <2>9. PICK t \in Seq(OutScripts) : t = SubSeq(outs, 1, n - 1) /\ Len(t) = n - 1
    BY <2>5
  <2>10. PICK u \in Seq(OutScripts) : u = SubSeq(outs, n + 1, Len(outs)) /\ Len(u) = Len(outs) - n
    BY <2>6
  <2>11. PICK w \in Seq(OutScripts) : w = s \o t /\ Len(w) = n
    <3>1. s \o t \in Seq(OutScripts) /\ Len(s \o t) = Len(s) + Len(t)
      OBVIOUS
    <3>2. 1 + (n - 1) = n
      OBVIOUS
    <3> QED
      BY <2>8, <2>9, <3>1, <3>2
  <2>12. w \o u \in Seq(OutScripts) /\ Len(w \o u) = Len(w) + Len(u)
    OBVIOUS
  <2>13. MoveOpReturnFirst(outs) = w \o u
    BY <2>3, <2>4, <2>8, <2>9, <2>10, <2>11
  <2>14. Len(outs) \in Nat /\ n + (Len(outs) - n) = Len(outs)
    BY <2>4
  <2> QED
    BY <2>10, <2>11, <2>12, <2>13, <2>14
<1> QED
  BY <1>1, <1>2

(* Core is asked for one output at least, and for one more than a            *)
(* registration pays.                                                      *)
LEMMA AskedFacts ==
  ASSUME NEW c \in Requests
  PROVE  /\ Asked(c) \in Seq(OutScripts) /\ Asked(c) # << >>
         /\ c.kind = "ownership" => Len(Asked(c)) = Len(c.pays) + 1
<1>1. PICK s : s = c.pays /\ s \in Seq({Own, Payee})
  BY DEF Requests
<1>2. PICK t : t = c.named /\ t \in Seq([height : Nat, vout : Nat])
  BY DEF Requests
<1>3. s \in Seq(OutScripts)
  BY <1>1 DEF OutScripts
<1>4. CASE c.kind = "assets"
  <2>1. Asked(c) = [i \in 1..Len(t) |-> Payee] /\ t # << >>
    BY <1>2, <1>4 DEF Asked, Requests
  <2>2. Len(t) \in Nat /\ Len(t) # 0
    BY <1>2, <2>1
  <2>3. [i \in 1..Len(t) |-> Payee] \in Seq(OutScripts) /\ Len([i \in 1..Len(t) |-> Payee]) = Len(t)
    BY <2>2 DEF OutScripts
  <2>4. Asked(c) \in Seq(OutScripts) /\ Len(Asked(c)) # 0
    BY <2>1, <2>2, <2>3
  <2> QED
    BY <1>4, <2>4
<1>5. CASE c.kind = "amount"
  <2>1. Asked(c) = s /\ s # << >>
    BY <1>1, <1>5 DEF Asked, Requests
  <2> QED
    BY <1>3, <1>5, <2>1
<1>6. CASE c.kind \notin {"assets", "amount"}
  <2>1. Asked(c) = <<OpReturn>> \o s
    BY <1>1, <1>6 DEF Asked
  <2>2. <<OpReturn>> \o s \in Seq(OutScripts) /\ Len(<<OpReturn>> \o s) = Len(s) + 1
    BY <1>3 DEF OutScripts
  <2>3. Len(s) \in Nat
    BY <1>1
  <2> QED
    BY <1>1, <2>1, <2>2, <2>3
<1> QED
  BY <1>4, <1>5, <1>6

(* Change adds an output and takes none.                                     *)
LEMMA FundedOutsFacts ==
  ASSUME NEW c \in Requests, NEW outs \in FundedOuts(c)
  PROVE  outs \in Seq(OutScripts) /\ Len(outs) >= Len(Asked(c)) /\ Len(Asked(c)) > 0
<1>1. PICK s : s = Asked(c) /\ s \in Seq(OutScripts) /\ s # << >>
  BY AskedFacts
<1>2. Len(s) \in Nat /\ Len(s) > 0
  BY <1>1
<1>3. ASSUME NEW k \in 0..Len(s), outs = SubSeq(s, 1, k) \o <<Own>> \o SubSeq(s, k + 1, Len(s))
      PROVE  outs \in Seq(OutScripts) /\ Len(outs) = Len(s) + 1
  <2>1. SubSeq(s, 1, k) \in Seq(OutScripts) /\ Len(SubSeq(s, 1, k)) = k
    BY <1>1
  <2>2. SubSeq(s, k + 1, Len(s)) \in Seq(OutScripts) /\ Len(SubSeq(s, k + 1, Len(s))) = Len(s) - k
    BY <1>1
  <2>3. <<Own>> \in Seq(OutScripts) /\ Len(<<Own>>) = 1
    BY DEF OutScripts
  <2>4. PICK t \in Seq(OutScripts) : t = SubSeq(s, 1, k) /\ Len(t) = k
    BY <2>1
  <2>5. PICK u \in Seq(OutScripts) : u = SubSeq(s, k + 1, Len(s)) /\ Len(u) = Len(s) - k
    BY <2>2
  <2>6. PICK v \in Seq(OutScripts) : v = <<Own>> /\ Len(v) = 1
    BY <2>3
  <2>7. PICK w \in Seq(OutScripts) : w = t \o v /\ Len(w) = k + 1
    <3>1. t \o v \in Seq(OutScripts) /\ Len(t \o v) = Len(t) + Len(v)
      OBVIOUS
    <3> QED
      BY <2>4, <2>6, <3>1
  <2>8. w \o u \in Seq(OutScripts) /\ Len(w \o u) = Len(w) + Len(u)
    OBVIOUS
  <2>9. outs = w \o u
    BY <1>3, <2>4, <2>5, <2>6, <2>7
  <2>10. (k + 1) + (Len(s) - k) = Len(s) + 1
    BY <1>2
  <2> QED
    BY <2>5, <2>7, <2>8, <2>9, <2>10
<1>4. outs = s \/ \E k \in ChangePositions(c) : outs = SubSeq(s, 1, k) \o <<Own>> \o SubSeq(s, k + 1, Len(s))
  BY <1>1 DEF FundedOuts
<1>5. \A k \in ChangePositions(c) : k \in 0..Len(s)
  BY <1>1, <1>2 DEF ChangePositions
<1>6. outs \in Seq(OutScripts) /\ (Len(outs) = Len(s) \/ Len(outs) = Len(s) + 1)
  <2>1. CASE outs = s
    BY <1>1, <2>1
  <2>2. CASE outs # s
    <3>1. PICK k \in 0..Len(s) : outs = SubSeq(s, 1, k) \o <<Own>> \o SubSeq(s, k + 1, Len(s))
      BY <1>4, <1>5, <2>2
    <3> QED
      BY <1>3, <3>1
  <2> QED
    BY <2>1, <2>2
<1>7. Len(outs) >= Len(s)
  BY <1>2, <1>6
<1> QED
  BY <1>1, <1>2, <1>6, <1>7

(* Core spends the named coins, and of the others only what it lists.       *)
LEMMA FundedInsFacts ==
  ASSUME NEW c \in Requests, IsFiniteSet(Listed), Listed \subseteq Facts!Outpoints, NEW ins \in FundedIns(c)
  PROVE  /\ ins \in Seq(Facts!Outpoints) /\ ins # << >>
         /\ Named(c) \subseteq ToSet(ins) /\ ToSet(ins) \subseteq Named(c) \cup Listed
<1>1. PICK t : t = c.named /\ t \in Seq(Facts!Outpoints)
  BY DEF Requests, Facts!Outpoints
<1>2. IsFiniteSet(Named(c)) /\ Named(c) \subseteq Facts!Outpoints
  <2>1. IsFiniteSet(ToSet(t)) /\ ToSet(t) \subseteq Facts!Outpoints
    BY <1>1, SetOfSeq
  <2> QED
    BY <1>1, <2>1 DEF Named
<1>3. PICK S \in SUBSET (Listed \ Named(c)) :
        ins \in Orders(Named(c) \cup S) /\ Named(c) \cup S # {}
  BY DEF FundedIns
<1>4. IsFiniteSet(Named(c) \cup S)
  <2>1. IsFiniteSet(S)
    BY FS_Subset
  <2> QED
    BY <1>2, <2>1, FS_Union
<1>5. ins \in Seq(Named(c) \cup S) /\ ToSet(ins) = Named(c) \cup S
  BY <1>3, <1>4, OrdersFacts
<1>6. ins \in Seq(Facts!Outpoints)
  BY <1>2, <1>5
<1>7. ins # << >>
  BY <1>3, <1>5 DEF ToSet
<1> QED
  BY <1>5, <1>6, <1>7

(* create_psbt_*: a transaction the parser does not choke on.                *)
LEMMA PsbtFacts ==
  ASSUME NEW c \in Requests, IsFiniteSet(Listed), Listed \subseteq Facts!Outpoints, NEW tx \in Psbts(c)
  PROVE  Sendable(tx) /\ ToSet(tx.ins) \subseteq Named(c) \cup Listed
<1>1. PICK ins \in FundedIns(c), outs \in FundedOuts(c) :
        tx = [ins  |-> IF c.kind = "mix" THEN Reorder(ins, c.named) ELSE ins,
              outs |-> IF c.msg.cmd = "none" THEN outs ELSE MoveOpReturnFirst(outs),
              msg  |-> c.msg]
  BY DEF Psbts
<1>2. /\ ins \in Seq(Facts!Outpoints) /\ ins # << >>
      /\ Named(c) \subseteq ToSet(ins) /\ ToSet(ins) \subseteq Named(c) \cup Listed
  BY FundedInsFacts
<1>3. tx.ins \in Seq(Facts!Outpoints) /\ ToSet(tx.ins) = ToSet(ins)
  <2>1. c.named \in Seq(Facts!Outpoints)
    BY DEF Requests, Facts!Outpoints
  <2>2. Reorder(ins, c.named) \in Seq(Facts!Outpoints) /\ ToSet(Reorder(ins, c.named)) = ToSet(ins)
    BY <1>2, <2>1, ReorderFacts DEF Named
  <2> QED
    BY <1>1, <1>2, <2>2
<1>4. tx.ins # << >>
  <2>1. ToSet(ins) # {}
    <3>1. 1 \in 1..Len(ins)
      BY <1>2
    <3> QED
      BY <1>2, <3>1 DEF ToSet
  <2>2. ToSet(tx.ins) # {}
    BY <1>3, <2>1
  <2> QED
    BY <2>2 DEF ToSet
<1>5. outs \in Seq(OutScripts) /\ Len(outs) >= Len(Asked(c)) /\ Len(Asked(c)) > 0
  BY FundedOutsFacts
<1>6. MoveOpReturnFirst(outs) \in Seq(OutScripts) /\ Len(MoveOpReturnFirst(outs)) = Len(outs)
  BY <1>5, MoveOpReturnFirstFacts
<1>7. tx.outs \in Seq(OutScripts) /\ Len(tx.outs) >= Len(Asked(c)) /\ Len(tx.outs) > 0
  <2>1. Len(outs) \in Nat /\ Len(Asked(c)) \in Nat
    BY <1>5, AskedFacts
  <2> QED
    BY <1>1, <1>5, <1>6, <2>1
<1>8. tx.outs # << >>
  BY <1>7
<1>9. tx.msg = c.msg /\ c.msg \in Facts!Messages
  BY <1>1 DEF Requests, Chain!Messages, Facts!Messages
<1>10. tx \in Facts!TxTypes
  <2>1. tx = [ins |-> tx.ins, outs |-> tx.outs, msg |-> tx.msg]
    BY <1>1
  <2> QED
    BY <1>3, <1>7, <1>8, <1>9, <2>1 DEF Facts!TxTypes, OutScripts
<1>11. ~Facts!ParseFails(tx)
  <2> SUFFICES ASSUME Facts!ParseFails(tx) PROVE FALSE
    OBVIOUS
  <2>1. /\ Facts!Message(tx).cmd = "ownership"
        /\ Len(Facts!Message(tx).groups) >= Len(tx.outs) \/ tx.ins = << >>
    BY DEF Facts!ParseFails
  <2>2. Facts!Message(tx) = c.msg
    BY <1>9, <2>1 DEF Facts!Message, Facts!NoMessage
  <2>3. c.msg.cmd = "ownership"
    BY <2>1, <2>2
  <2>4. c.kind = "ownership" /\ Len(c.msg.groups) <= Len(c.pays)
    <3>1. c.kind = "ownership" /\ Len(c.msg.groups) = 1 /\ c.pays = <<Own>>
      BY <2>3 DEF Requests
    <3>2. Len(c.pays) = 1
      BY <3>1
    <3> QED
      BY <3>1, <3>2
  <2>5. Len(Asked(c)) = Len(c.pays) + 1
    BY <2>4, AskedFacts
  <2>6. Len(c.pays) \in Nat /\ Len(tx.outs) \in Nat
    BY <1>7 DEF Requests
  <2>7. Len(c.msg.groups) \in Nat
    <3>1. c.msg \in [cmd : {"ownership"}, coll : Nat,
                     groups : Seq(Seq({r \in [lo : 0..MaxSlot, hi : 0..MaxSlot] : r.lo <= r.hi}))]
      BY <1>9, <2>3 DEF Facts!Messages
    <3> QED
      BY <3>1
  <2> QED
    BY <1>4, <1>7, <2>1, <2>2, <2>4, <2>5, <2>6, <2>7
<1>12. tx # NoTx
  BY <1>1, <1>4 DEF NoTx
<1> QED
  BY <1>2, <1>3, <1>10, <1>11, <1>12 DEF Sendable

-----------------------------------------------------------------------------
(* The invariant: what a command knows of the coins.                        *)

OwnUnspent == {c.out : c \in {c \in coins : c.script = Own /\ ~c.spent}}

(* The tables give an unspent output o tokens.                              *)
Carries(o) == Chain!UnspentGroups(dbs[height], o) # {}

ChainOK ==
  /\ IsFiniteSet(coins)
  /\ coins \subseteq [out : Facts!Outpoints, script : OutScripts, spent : BOOLEAN]
  /\ DOMAIN dbs = 0..height /\ \A k \in 0..height : TablesUpTo(dbs[k], k)
  /\ indexed \in 0..height
  /\ locked \subseteq Unspent /\ stranded \subseteq Seen

(* What a command holds of the wallet, and the transaction it has funded.   *)
Orderly(p) ==
  Live(p) =>
    /\ cmd[p].pc \in Steps /\ cmd[p].order \in Commands[p]
    /\ cmd[p].toLock \subseteq cmd[p].locks /\ cmd[p].locks \subseteq cmd[p].listed
    /\ cmd[p].pc \in {"check", "list", "compute"} => cmd[p].locks = {}
    /\ cmd[p].listed \subseteq Seen /\ cmd[p].relied \subseteq Seen
    /\ cmd[p].pc \notin {"check", "list"} => Named(cmd[p].order) \subseteq Seen
    /\ cmd[p].tx = NoTx \/ Sendable(cmd[p].tx)
    /\ ToSet(cmd[p].tx.ins) \subseteq Seen
    /\ cmd[p].pc = "sign" => cmd[p].tx # NoTx

(* It keeps off the coins the operator has locked.                          *)
Spares(p) ==
  ~restarted /\ Live(p) =>
    /\ cmd[p].toLock \cap OperatorLocks = {}
    /\ ToSet(cmd[p].tx.ins) \cap OperatorLocks = {}
    /\ cmd[p].pc \in {"lock", "fund", "unlock", "sign"} => Named(cmd[p].order) \cap OperatorLocks = {}

(* While calm, it knows every coin Core might add, and which carry tokens.  *)
Informed(p) ==
  Live(p) /\ cmd[p].calm /\ cmd[p].order.kind # "amount" =>
    /\ Relying(p) => OwnUnspent \subseteq cmd[p].listed \cup cmd[p].relied
    /\ cmd[p].pc \in {"compute", "locked", "fund"} => cmd[p].relied \subseteq locked
    /\ cmd[p].pc = "lock" => cmd[p].relied \ cmd[p].toLock \subseteq locked
    /\ cmd[p].pc \in {"lock", "fund"} => cmd[p].locks \subseteq cmd[p].relied
    /\ cmd[p].pc \in {"locked", "lock", "fund"} =>
         \A o \in cmd[p].listed \ (cmd[p].locks \cup Named(cmd[p].order)) : ~Carries(o)
    /\ cmd[p].pc \in {"unlock", "sign"} =>
         \A o \in ToSet(cmd[p].tx.ins) \ Named(cmd[p].order) : ~Carries(o)

SentOK == \A s \in sent : s.height \in 1..height

FundInv ==
  /\ ChainOK
  /\ \A p \in Procs : Orderly(p) /\ Spares(p) /\ Informed(p)
  /\ SentOK /\ FundedPlain /\ OperatorLocksKept

-----------------------------------------------------------------------------

(* listunspent leaves locked coins out.                                      *)
LEMMA ListedIs ==
  /\ Listed = OwnUnspent \ locked /\ OwnLocked = OwnUnspent \cap locked
  /\ OwnUnspent \subseteq Unspent /\ Unspent \subseteq Seen
<1>1. Listed = OwnUnspent \ locked /\ OwnLocked = OwnUnspent \cap locked
  BY DEF Listed, OwnLocked, OwnUnspent
<1>2. OwnUnspent \subseteq Unspent
  BY DEF OwnUnspent, Unspent
<1>3. Unspent \subseteq Seen
  BY DEF Seen, Unspent
<1> QED
  BY <1>1, <1>2, <1>3

(* Without a new block the coins and the tables stand.                       *)
LEMMA SameNode ==
  ASSUME UNCHANGED node
  PROVE  /\ Seen' = Seen /\ Unspent' = Unspent /\ OwnUnspent' = OwnUnspent
         /\ \A o : Carries(o)' = Carries(o)
BY DEF node, Seen, Unspent, OwnUnspent, Carries, Chain!UnspentGroups

(* A command that is shaken or overtaken keeps all but its calm.             *)
LEMMA OthersKeep ==
  ASSUME LockInv, NEW q \in Procs, NEW R, Live(q),
         cmd'[q] = Shaken(q, R) \/ cmd'[q] = Overtaken(q)
  PROVE  /\ cmd'[q].pc = cmd[q].pc /\ cmd'[q].order = cmd[q].order /\ cmd'[q].listed = cmd[q].listed
         /\ cmd'[q].locks = cmd[q].locks /\ cmd'[q].toLock = cmd[q].toLock
         /\ cmd'[q].relied = cmd[q].relied /\ cmd'[q].tx = cmd[q].tx
         /\ cmd'[q].calm => cmd[q].calm
         /\ cmd'[q] = Shaken(q, R) /\ Relying(q) /\ cmd'[q].calm => cmd[q].relied \cap R = {}
         /\ cmd'[q] = Overtaken(q) /\ Relying(q) => ~cmd'[q].calm
<1>1. DOMAIN cmd[q] = Fields
  BY DEF LockInv, Shape
<1>2. CASE cmd'[q] = [cmd[q] EXCEPT !.calm = FALSE]
  <2>1. cmd'[q].calm = FALSE
    BY <1>1, <1>2 DEF Fields
  <2> QED
    BY <1>1, <1>2, <2>1 DEF Fields
<1>3. CASE cmd'[q] = cmd[q] /\ cmd'[q] # [cmd[q] EXCEPT !.calm = FALSE]
  BY <1>3 DEF Shaken, Overtaken
<1> QED
  BY <1>2, <1>3 DEF Shaken, Overtaken

LEMMA Idlers ==
  ASSUME NEW q \in Procs, NEW R, ~Live(q),
         cmd'[q] = Shaken(q, R) \/ cmd'[q] = Overtaken(q)
  PROVE  ~Live(q)' /\ Orderly(q)' /\ Spares(q)' /\ Informed(q)'
<1>1. cmd'[q] = cmd[q]
  BY DEF Shaken, Overtaken, Relying
<1>2. ~Live(q)'
  BY <1>1 DEF Live
<1> QED
  BY <1>2 DEF Orderly, Spares, Informed

(* A command keeps what it knows while others release no lock it relies on.  *)
LEMMA Untouched ==
  ASSUME LockInv, NEW q \in Procs, NEW R, Orderly(q), Spares(q), Informed(q),
         UNCHANGED node, restarted => restarted', locked \ locked' \subseteq R,
         cmd'[q] = Shaken(q, R)
  PROVE  Orderly(q)' /\ Spares(q)' /\ Informed(q)'
<1>1. CASE ~Live(q)
  BY <1>1, Idlers
<1>2. CASE Live(q)
  <2>1. /\ cmd'[q].pc = cmd[q].pc /\ cmd'[q].order = cmd[q].order /\ cmd'[q].listed = cmd[q].listed
        /\ cmd'[q].locks = cmd[q].locks /\ cmd'[q].toLock = cmd[q].toLock
        /\ cmd'[q].relied = cmd[q].relied /\ cmd'[q].tx = cmd[q].tx
        /\ cmd'[q].calm => cmd[q].calm
        /\ Relying(q) /\ cmd'[q].calm => cmd[q].relied \cap R = {}
    BY <1>2, OthersKeep
  <2>2. Live(q)' /\ (Relying(q)' <=> Relying(q))
    BY <1>2, <2>1 DEF Live, Relying
  <2>3. /\ Seen' = Seen /\ OwnUnspent' = OwnUnspent
        /\ \A o : Carries(o)' = Carries(o)
    BY SameNode
  <2>4. Orderly(q)'
    BY <1>2, <2>1, <2>2, <2>3 DEF Orderly
  <2>5. Spares(q)'
    BY <1>2, <2>1, <2>2, <2>3 DEF Spares
  <2>6. Informed(q)'
    <3> SUFFICES ASSUME cmd'[q].calm, cmd'[q].order.kind # "amount"
                 PROVE  Informed(q)'
      BY DEF Informed
    <3>1. Relying(q) => cmd[q].relied \cap R = {}
      BY <2>1
    <3>2. cmd[q].pc \in {"compute", "locked", "fund"} => cmd'[q].relied \subseteq locked'
      BY <1>2, <2>1, <3>1 DEF Informed, Relying
    <3>3. cmd[q].pc = "lock" => cmd'[q].relied \ cmd'[q].toLock \subseteq locked'
      BY <1>2, <2>1, <3>1 DEF Informed, Relying
    <3> QED
      BY <1>2, <2>1, <2>2, <2>3, <3>2, <3>3 DEF Informed
  <2> QED
    BY <2>4, <2>5, <2>6
<1> QED
  BY <1>1, <1>2

(* A step that leaves the chain alone.                                      *)
LEMMA SameChain ==
  ASSUME FundInv, UNCHANGED << node, sent >>,
         indexed' \in 0..height, locked' \subseteq Unspent, stranded' \subseteq Seen,
         \A q \in Procs : Orderly(q)' /\ Spares(q)' /\ Informed(q)', OperatorLocksKept'
  PROVE  FundInv'
<1>1. /\ Seen' = Seen /\ Unspent' = Unspent /\ coins' = coins /\ height' = height /\ dbs' = dbs
  BY SameNode DEF node
<1>2. ChainOK'
  BY <1>1 DEF FundInv, ChainOK
<1>3. SentOK'
  BY <1>1 DEF FundInv, SentOK
<1>4. FundedPlain'
  <2>1. FundedPlain /\ dbs' = dbs /\ sent' = sent
    BY <1>1 DEF FundInv
  <2>2. \A s, o : Carried(s, o)' = Carried(s, o)
    BY <2>1 DEF Carried, Chain!UnspentRanges, Chain!UnspentGroups, Chain!RangesAt
  <2> QED
    BY <2>1, <2>2 DEF FundedPlain
<1> QED
  BY <1>2, <1>3, <1>4 DEF FundInv

(* A step of p: the others know what they knew but for the locks it         *)
(* releases.                                                                *)
LEMMA WalletStep ==
  ASSUME LockInv, FundInv, NEW p \in Procs, NEW R,
         UNCHANGED << node, sent >>, restarted => restarted',
         indexed' \in 0..height, locked' \subseteq Unspent, stranded' \subseteq Seen,
         locked \ locked' \subseteq R,
         \A q \in Procs \ {p} : cmd'[q] = Shaken(q, R),
         Orderly(p)' /\ Spares(p)' /\ Informed(p)', OperatorLocksKept'
  PROVE  FundInv'
<1>1. \A q \in Procs : Orderly(q) /\ Spares(q) /\ Informed(q)
  BY DEF FundInv
<1>2. ASSUME NEW q \in Procs PROVE Orderly(q)' /\ Spares(q)' /\ Informed(q)'
  <2>1. CASE q = p
    BY <2>1
  <2>2. CASE q # p
    BY <1>1, <2>2, Untouched
  <2> QED
    BY <2>1, <2>2
<1> QED
  BY <1>2, SameChain

(* ... and only reads.                                                      *)
LEMMA ReaderStep ==
  ASSUME LockInv, FundInv, NEW p \in Procs,
         UNCHANGED << node, indexed, locked, restarted, sent >>, stranded' \subseteq Seen,
         \A q \in Procs \ {p} : cmd'[q] = cmd[q],
         Orderly(p)' /\ Spares(p)' /\ Informed(p)'
  PROVE  FundInv'
<1>1. \A q \in Procs \ {p} : cmd'[q] = Shaken(q, {})
  BY DEF Shaken
<1>2. OperatorLocksKept'
  BY DEF FundInv, OperatorLocksKept
<1>3. locked \ locked' \subseteq {} /\ indexed' \in 0..height /\ locked' \subseteq Unspent
  BY DEF FundInv, ChainOK
<1> QED
  BY <1>1, <1>2, <1>3, WalletStep

(* A command that ends holds nothing.                                        *)
LEMMA EndedStep ==
  ASSUME LockInv, FundInv, NEW p \in Procs, End(p),
         UNCHANGED << node, indexed, locked, restarted, sent >>, stranded' \subseteq Seen
  PROVE  FundInv'
<1>1. DOMAIN cmd = Procs
  BY DEF LockInv, Shape
<1>2. cmd'[p] = Done /\ \A q \in Procs \ {p} : cmd'[q] = cmd[q]
  BY <1>1 DEF End
<1>3. ~Live(p)'
  BY <1>2 DEF Live, Done
<1>4. Orderly(p)' /\ Spares(p)' /\ Informed(p)'
  BY <1>3 DEF Orderly, Spares, Informed
<1> QED
  BY <1>2, <1>4, ReaderStep

LEMMA NothingSpent == ToSet(NoTx.ins) = {}
  BY DEF NoTx, ToSet

LEMMA StartFund == ASSUME LockInv, FundInv, NEW p \in Procs, Start(p) PROVE FundInv'
<1>1. DOMAIN cmd = Procs
  BY DEF LockInv, Shape
<1>2. PICK c \in Commands[p] :
        cmd' = [cmd EXCEPT ![p] =
         [pc |-> IF c.kind = "amount" THEN "fund" ELSE IF c.named # << >> THEN "check" ELSE "list",
          order |-> c, calm |-> TRUE, relied |-> {},
          listed |-> {}, locks |-> {}, toLock |-> {}, tx |-> NoTx]]
  BY DEF Start
<1>3. c \in Requests
  BY WalletConstants
<1>4. \A q \in Procs \ {p} : cmd'[q] = cmd[q]
  BY <1>2
<1>5. /\ cmd'[p].pc = (IF c.kind = "amount" THEN "fund" ELSE IF c.named # << >> THEN "check" ELSE "list")
      /\ cmd'[p].order = c /\ cmd'[p].relied = {} /\ cmd'[p].listed = {} /\ cmd'[p].locks = {}
      /\ cmd'[p].toLock = {} /\ cmd'[p].tx = NoTx
  BY <1>1, <1>2
<1>6. c.kind = "amount" => Named(c) = {}
  BY <1>3 DEF Requests, Named, ToSet
<1>7. Orderly(p)'
  BY <1>5, <1>6, NothingSpent DEF Orderly, Steps
<1>8. Spares(p)'
  BY <1>5, <1>6, NothingSpent DEF Spares
<1>9. Informed(p)'
  BY <1>5 DEF Informed, Relying
<1>10. stranded' \subseteq Seen /\ UNCHANGED << node, indexed, locked, restarted, sent >>
  BY DEF Start, FundInv, ChainOK
<1> QED
  BY <1>4, <1>7, <1>8, <1>9, <1>10, ReaderStep

LEMMA CheckNamedFund == ASSUME LockInv, FundInv, NEW p \in Procs, CheckNamed(p) PROVE FundInv'
<1>1. stranded' \subseteq Seen /\ UNCHANGED << node, indexed, locked, restarted, sent >>
  BY DEF CheckNamed, FundInv, ChainOK
<1>2. CASE End(p)
  BY <1>1, <1>2, EndedStep
<1>3. CASE Goto(p, "list")
  <2>1. DOMAIN cmd = Procs /\ cmd[p].pc = "check" /\ DOMAIN cmd[p] = Fields
    BY DEF LockInv, Shape, CheckNamed, At, Live
  <2>2. \A q \in Procs \ {p} : cmd'[q] = cmd[q]
    BY <1>3, <2>1 DEF Goto
  <2>3. cmd'[p] = [cmd[p] EXCEPT !.pc = "list"]
    BY <1>3, <2>1 DEF Goto
  <2>4. /\ cmd'[p].pc = "list" /\ cmd'[p].order = cmd[p].order /\ cmd'[p].listed = cmd[p].listed
        /\ cmd'[p].relied = cmd[p].relied
        /\ cmd'[p].locks = cmd[p].locks /\ cmd'[p].toLock = cmd[p].toLock /\ cmd'[p].tx = cmd[p].tx
    BY <2>1, <2>3 DEF Fields
  <2>5. Live(p)
    BY <2>1 DEF Live
  <2>6. Orderly(p) /\ Spares(p) /\ Seen' = Seen
    BY <1>1, SameNode DEF FundInv
  <2>7. Orderly(p)'
    BY <2>1, <2>4, <2>5, <2>6 DEF Orderly, Steps
  <2>8. Spares(p)'
    BY <1>1, <2>1, <2>4, <2>5, <2>6 DEF Spares
  <2>9. Informed(p)'
    BY <2>4 DEF Informed, Relying
  <2> QED
    BY <1>1, <2>2, <2>7, <2>8, <2>9, ReaderStep
<1> QED
  BY <1>2, <1>3 DEF CheckNamed

LEMMA ListUnspentFund == ASSUME LockInv, FundInv, NEW p \in Procs, ListUnspent(p) PROVE FundInv'
<1>1. stranded' \subseteq Seen /\ UNCHANGED << node, indexed, locked, restarted, sent >>
  BY DEF ListUnspent, FundInv, ChainOK
<1>2. CASE End(p)
  BY <1>1, <1>2, EndedStep
<1>3. CASE /\ Named(cmd[p].order) \subseteq Listed
           /\ cmd' = [cmd EXCEPT ![p].pc = "compute", ![p].listed = Listed, ![p].relied = OwnLocked]
  <2>1. DOMAIN cmd = Procs /\ cmd[p].pc = "list" /\ DOMAIN cmd[p] = Fields
    BY DEF LockInv, Shape, ListUnspent, At, Live
  <2>2. \A q \in Procs \ {p} : cmd'[q] = cmd[q]
    BY <1>3, <2>1
  <2>3. cmd'[p] = [cmd[p] EXCEPT !.pc = "compute", !.listed = Listed, !.relied = OwnLocked]
    BY <1>3, <2>1
  <2>4. /\ cmd'[p].pc = "compute" /\ cmd'[p].order = cmd[p].order /\ cmd'[p].listed = Listed
        /\ cmd'[p].relied = OwnLocked
        /\ cmd'[p].locks = cmd[p].locks /\ cmd'[p].toLock = cmd[p].toLock /\ cmd'[p].tx = cmd[p].tx
    BY <2>1, <2>3 DEF Fields
  <2>5. Live(p)
    BY <2>1 DEF Live
  <2>6. Orderly(p) /\ Spares(p) /\ Seen' = Seen /\ OwnUnspent' = OwnUnspent
    BY <1>1, SameNode DEF FundInv
  <2>7. Orderly(p)'
    BY <1>3, <2>1, <2>4, <2>5, <2>6, ListedIs DEF Orderly, Steps
  <2>8. Spares(p)'
    BY <1>1, <2>1, <2>4, <2>5, <2>6 DEF Spares
  <2>9. Informed(p)'
    BY <1>1, <2>4, <2>6, ListedIs DEF Informed
  <2> QED
    BY <1>1, <2>2, <2>7, <2>8, <2>9, ReaderStep
<1> QED
  BY <1>2, <1>3 DEF ListUnspent

LEMMA ComputeLocksFund == ASSUME LockInv, FundInv, NEW p \in Procs, ComputeLocks(p) PROVE FundInv'
<1>1. stranded' \subseteq Seen /\ UNCHANGED << node, indexed, locked, restarted, sent >>
  BY DEF ComputeLocks, FundInv, ChainOK
<1>2. DOMAIN cmd = Procs /\ cmd[p].pc = "compute" /\ DOMAIN cmd[p] = Fields
  BY DEF LockInv, Shape, ComputeLocks, At, Live
<1>3. /\ cmd'[p] = [cmd[p] EXCEPT !.pc = "locked", !.locks = TokensToLock(p),
                                  !.calm = cmd[p].calm /\ indexed = height]
      /\ \A q \in Procs \ {p} : cmd'[q] = cmd[q]
  BY <1>2 DEF ComputeLocks
<1>4. /\ cmd'[p].pc = "locked" /\ cmd'[p].order = cmd[p].order /\ cmd'[p].listed = cmd[p].listed
      /\ cmd'[p].relied = cmd[p].relied /\ cmd'[p].locks = TokensToLock(p)
      /\ cmd'[p].toLock = cmd[p].toLock /\ cmd'[p].tx = cmd[p].tx
      /\ cmd'[p].calm = (cmd[p].calm /\ indexed = height)
  BY <1>2, <1>3 DEF Fields
<1>5. Live(p) /\ Orderly(p) /\ Spares(p) /\ Informed(p)
  BY <1>2 DEF FundInv, Live
<1>6. Seen' = Seen /\ OwnUnspent' = OwnUnspent /\ \A o : Carries(o)' = Carries(o)
  BY <1>1, SameNode
<1>7. TokensToLock(p) \subseteq cmd[p].listed /\ cmd[p].toLock = {}
  BY <1>2, <1>5 DEF TokensToLock, Orderly
<1>8. Orderly(p)'
  BY <1>2, <1>4, <1>5, <1>6, <1>7 DEF Orderly, Steps
<1>9. Spares(p)'
  BY <1>1, <1>2, <1>4, <1>5 DEF Spares
<1>10. Informed(p)'
  <2> SUFFICES ASSUME cmd'[p].calm, cmd'[p].order.kind # "amount"
               PROVE  Informed(p)'
    BY DEF Informed
  <2>1. cmd[p].calm /\ indexed = height /\ cmd[p].order.kind # "amount"
    BY <1>4
  <2>2. OwnUnspent \subseteq cmd[p].listed \cup cmd[p].relied /\ cmd[p].relied \subseteq locked
    BY <1>2, <1>5, <2>1 DEF Informed, Relying
  <2>3. \A o \in cmd[p].listed \ (TokensToLock(p) \cup Named(cmd[p].order)) : ~Carries(o)
    BY <2>1 DEF TokensToLock, IsIndexed, Index, Carries
  <2> QED
    BY <1>1, <1>4, <1>6, <2>2, <2>3 DEF Informed
<1> QED
  BY <1>1, <1>3, <1>8, <1>9, <1>10, ReaderStep

LEMMA ListLockedFund == ASSUME LockInv, FundInv, NEW p \in Procs, ListLocked(p) PROVE FundInv'
<1>1. stranded' \subseteq Seen /\ UNCHANGED << node, indexed, locked, restarted, sent >>
  BY DEF ListLocked, FundInv, ChainOK
<1>2. CASE End(p)
  BY <1>1, <1>2, EndedStep
<1>3. CASE /\ Named(cmd[p].order) \cap locked = {}
           /\ cmd' = [cmd EXCEPT ![p].pc = "lock", ![p].toLock = cmd[p].locks \ locked,
                                 ![p].relied = cmd[p].relied \cup cmd[p].locks]
  <2>1. DOMAIN cmd = Procs /\ cmd[p].pc = "locked" /\ DOMAIN cmd[p] = Fields
    BY DEF LockInv, Shape, ListLocked, At, Live
  <2>2. /\ \A q \in Procs \ {p} : cmd'[q] = cmd[q]
        /\ cmd'[p] = [cmd[p] EXCEPT !.pc = "lock", !.toLock = cmd[p].locks \ locked,
                                    !.relied = cmd[p].relied \cup cmd[p].locks]
    BY <1>3, <2>1
  <2>3. /\ cmd'[p].pc = "lock" /\ cmd'[p].order = cmd[p].order /\ cmd'[p].listed = cmd[p].listed
        /\ cmd'[p].relied = cmd[p].relied \cup cmd[p].locks /\ cmd'[p].locks = cmd[p].locks
        /\ cmd'[p].toLock = cmd[p].locks \ locked /\ cmd'[p].tx = cmd[p].tx
        /\ cmd'[p].calm = cmd[p].calm
    BY <2>1, <2>2 DEF Fields
  <2>4. Live(p) /\ Orderly(p) /\ Spares(p) /\ Informed(p)
    BY <2>1 DEF FundInv, Live
  <2>5. Seen' = Seen /\ OwnUnspent' = OwnUnspent /\ \A o : Carries(o)' = Carries(o)
    BY <1>1, SameNode
  <2>6. Orderly(p)'
    BY <2>1, <2>3, <2>4, <2>5 DEF Orderly, Steps
  <2>7. Spares(p)'
    <3>1. restarted \/ OperatorLocks \subseteq locked
      BY DEF FundInv, OperatorLocksKept
    <3> QED
      BY <1>1, <1>3, <2>3, <2>4, <3>1 DEF Spares
  <2>8. Informed(p)'
    <3> SUFFICES ASSUME cmd'[p].calm, cmd'[p].order.kind # "amount"
                 PROVE  Informed(p)'
      BY DEF Informed
    <3>1. /\ OwnUnspent \subseteq cmd[p].listed \cup cmd[p].relied /\ cmd[p].relied \subseteq locked
          /\ \A o \in cmd[p].listed \ (cmd[p].locks \cup Named(cmd[p].order)) : ~Carries(o)
      BY <2>1, <2>3, <2>4 DEF Informed, Relying
    <3> QED
      BY <1>1, <2>3, <2>5, <3>1 DEF Informed
  <2> QED
    BY <1>1, <2>2, <2>6, <2>7, <2>8, ReaderStep
<1> QED
  BY <1>2, <1>3 DEF ListLocked

LEMMA LockFund == ASSUME LockInv, FundInv, NEW p \in Procs, Lock(p) PROVE FundInv'
<1>1. stranded' \subseteq Seen /\ UNCHANGED << node, indexed, restarted, sent >>
  BY DEF Lock, FundInv, ChainOK
<1>2. CASE End(p) /\ UNCHANGED locked
  BY <1>1, <1>2, EndedStep
<1>3. CASE /\ cmd[p].toLock \subseteq Unspent \ locked
           /\ locked' = locked \cup cmd[p].toLock /\ Goto(p, "fund")
  <2>1. DOMAIN cmd = Procs /\ cmd[p].pc = "lock" /\ DOMAIN cmd[p] = Fields
    BY DEF LockInv, Shape, Lock, At, Live
  <2>2. /\ \A q \in Procs \ {p} : cmd'[q] = Shaken(q, {})
        /\ cmd'[p] = [cmd[p] EXCEPT !.pc = "fund"]
    BY <1>3, <2>1 DEF Goto, Shaken
  <2>3. /\ cmd'[p].pc = "fund" /\ cmd'[p].order = cmd[p].order /\ cmd'[p].listed = cmd[p].listed
        /\ cmd'[p].relied = cmd[p].relied /\ cmd'[p].locks = cmd[p].locks
        /\ cmd'[p].toLock = cmd[p].toLock /\ cmd'[p].tx = cmd[p].tx
        /\ cmd'[p].calm = cmd[p].calm
    BY <2>1, <2>2 DEF Fields
  <2>4. Live(p) /\ Orderly(p) /\ Spares(p) /\ Informed(p)
    BY <2>1 DEF FundInv, Live
  <2>5. Seen' = Seen /\ OwnUnspent' = OwnUnspent /\ \A o : Carries(o)' = Carries(o)
    BY <1>1, SameNode
  <2>6. Orderly(p)'
    BY <2>1, <2>3, <2>4, <2>5 DEF Orderly, Steps
  <2>7. Spares(p)'
    BY <1>1, <2>1, <2>3, <2>4 DEF Spares
  <2>8. Informed(p)'
    <3> SUFFICES ASSUME cmd'[p].calm, cmd'[p].order.kind # "amount"
                 PROVE  Informed(p)'
      BY DEF Informed
    <3>1. /\ OwnUnspent \subseteq cmd[p].listed \cup cmd[p].relied
          /\ cmd[p].relied \ cmd[p].toLock \subseteq locked /\ cmd[p].locks \subseteq cmd[p].relied
          /\ \A o \in cmd[p].listed \ (cmd[p].locks \cup Named(cmd[p].order)) : ~Carries(o)
      BY <2>1, <2>3, <2>4 DEF Informed, Relying
    <3> QED
      BY <1>3, <2>3, <2>5, <3>1 DEF Informed
  <2>9. OperatorLocksKept' /\ locked \ locked' \subseteq {}
    BY <1>1, <1>3 DEF FundInv, OperatorLocksKept
  <2>10. locked' \subseteq Unspent /\ indexed' \in 0..height
    BY <1>1, <1>3 DEF FundInv, ChainOK
  <2> QED
    BY <1>1, <2>2, <2>6, <2>7, <2>8, <2>9, <2>10, WalletStep
<1> QED
  BY <1>2, <1>3 DEF Lock

LEMMA ScanFund == ASSUME LockInv, FundInv, Scan PROVE FundInv'
<1>1. UNCHANGED << node, sent >> /\ UNCHANGED << locked, cmd, stranded, restarted >>
      /\ indexed < height /\ indexed' = indexed + 1
  BY DEF Scan
<1>2. indexed' \in 0..height /\ locked' \subseteq Unspent /\ stranded' \subseteq Seen
  <2>1. height \in Nat
    BY DEF LockInv, Past
  <2> QED
    BY <1>1, <2>1 DEF FundInv, ChainOK
<1>3. ASSUME NEW q \in Procs PROVE Orderly(q)' /\ Spares(q)' /\ Informed(q)'
  <2>1. cmd'[q] = Shaken(q, {}) /\ locked \ locked' \subseteq {}
    BY <1>1 DEF Shaken
  <2>2. Orderly(q) /\ Spares(q) /\ Informed(q)
    BY DEF FundInv
  <2> QED
    BY <1>1, <2>1, <2>2, Untouched
<1>4. OperatorLocksKept'
  BY <1>1 DEF FundInv, OperatorLocksKept
<1> QED
  BY <1>1, <1>2, <1>3, <1>4, SameChain

LEMMA NodeRestartFund == ASSUME LockInv, FundInv, NodeRestart PROVE FundInv'
<1>1. UNCHANGED << node, sent >> /\ UNCHANGED << indexed, stranded >> /\ restarted' = TRUE
      /\ locked' = {} /\ \A q \in Procs : cmd'[q] = Shaken(q, locked)
  BY DEF NodeRestart
<1>2. indexed' \in 0..height /\ locked' \subseteq Unspent /\ stranded' \subseteq Seen
  BY <1>1 DEF FundInv, ChainOK
<1>3. ASSUME NEW q \in Procs PROVE Orderly(q)' /\ Spares(q)' /\ Informed(q)'
  <2>1. locked \ locked' \subseteq locked
    OBVIOUS
  <2>2. Orderly(q) /\ Spares(q) /\ Informed(q)
    BY DEF FundInv
  <2> QED
    BY <1>1, <2>1, <2>2, Untouched
<1>4. OperatorLocksKept'
  BY <1>1 DEF OperatorLocksKept
<1> QED
  BY <1>1, <1>2, <1>3, <1>4, SameChain

LEMMA CrashFund == ASSUME LockInv, FundInv, NEW p \in Procs, Crash(p) PROVE FundInv'
<1>1. stranded' \subseteq Seen
  BY ListedIs DEF Crash, FundInv, ChainOK
<1> QED
  BY <1>1, EndedStep DEF Crash

LEMMA UnlockFund == ASSUME LockInv, FundInv, NEW p \in Procs, Unlock(p) PROVE FundInv'
<1>1. UNCHANGED << node, sent >> /\ UNCHANGED << indexed, restarted >>
  BY DEF Unlock
<1>2. DOMAIN cmd = Procs /\ cmd[p].pc = "unlock" /\ DOMAIN cmd[p] = Fields
  BY DEF LockInv, Shape, Unlock, At, Live
<1>3. /\ \A q \in Procs \ {p} : cmd'[q] = Shaken(q, cmd[p].toLock)
      /\ cmd'[p] = IF cmd[p].tx = NoTx THEN Done ELSE [cmd[p] EXCEPT !.pc = "sign"]
  BY DEF Unlock, AfterUnlock
<1>4. Live(p) /\ Orderly(p) /\ Spares(p) /\ Informed(p)
  BY <1>2 DEF FundInv, Live
<1>5. locked' = locked \/ locked' = locked \ cmd[p].toLock
  BY DEF Unlock
<1>6. stranded' = stranded \/ stranded' = stranded \cup (cmd[p].toLock \cap locked)
  BY DEF Unlock
<1>7. locked' \subseteq Unspent /\ stranded' \subseteq Seen /\ indexed' \in 0..height
      /\ locked \ locked' \subseteq cmd[p].toLock
  BY <1>1, <1>5, <1>6, ListedIs DEF FundInv, ChainOK
<1>8. OperatorLocksKept'
  BY <1>1, <1>4, <1>5 DEF FundInv, OperatorLocksKept, Spares
<1>9. Orderly(p)' /\ Spares(p)' /\ Informed(p)'
  <2>1. CASE cmd[p].tx = NoTx
    <3>1. ~Live(p)'
      BY <1>3, <2>1 DEF Live, Done
    <3> QED
      BY <3>1 DEF Orderly, Spares, Informed
  <2>2. CASE cmd[p].tx # NoTx
    <3>1. /\ cmd'[p].pc = "sign" /\ cmd'[p].order = cmd[p].order /\ cmd'[p].listed = cmd[p].listed
          /\ cmd'[p].relied = cmd[p].relied /\ cmd'[p].locks = cmd[p].locks
          /\ cmd'[p].toLock = cmd[p].toLock /\ cmd'[p].tx = cmd[p].tx
          /\ cmd'[p].calm = cmd[p].calm
      BY <1>2, <1>3, <2>2 DEF Fields
    <3>2. Seen' = Seen /\ \A o : Carries(o)' = Carries(o)
      BY <1>1, SameNode
    <3>3. Orderly(p)'
      BY <1>2, <1>4, <2>2, <3>1, <3>2 DEF Orderly, Steps
    <3>4. Spares(p)'
      BY <1>1, <1>2, <1>4, <3>1 DEF Spares
    <3>5. Informed(p)'
      BY <1>2, <1>4, <3>1, <3>2 DEF Informed, Relying
    <3> QED
      BY <3>3, <3>4, <3>5
  <2> QED
    BY <2>1, <2>2
<1> QED
  BY <1>1, <1>3, <1>7, <1>8, <1>9, WalletStep

LEMMA SeenFinite ==
  ASSUME FundInv
  PROVE  IsFiniteSet(Listed) /\ Listed \subseteq Facts!Outpoints /\ Listed \subseteq Seen /\ Seen \subseteq Facts!Outpoints
<1>1. IsFiniteSet(coins) /\ coins \subseteq [out : Facts!Outpoints, script : OutScripts, spent : BOOLEAN]
  BY DEF FundInv, ChainOK
<1>2. Listed \subseteq Seen /\ Seen \subseteq Facts!Outpoints
  <2>1. Seen \subseteq Facts!Outpoints
    BY <1>1 DEF Seen
  <2> QED
    BY <2>1, ListedIs
<1>3. [c \in coins |-> c.out] \in Surjection(coins, Seen)
  BY DEF Surjection, Seen
<1>4. IsFiniteSet(Seen)
  BY <1>1, <1>3, FS_Surjection
<1> QED
  BY <1>2, <1>4, FS_Subset

LEMMA FundFund == ASSUME LockInv, FundInv, NEW p \in Procs, Fund(p) PROVE FundInv'
<1> DEFINE c == cmd[p].order
<1>1. UNCHANGED << node, indexed, locked, restarted, sent >> /\ stranded' \subseteq Seen
  BY DEF Fund, FundInv, ChainOK
<1>2. DOMAIN cmd = Procs /\ cmd[p].pc = "fund" /\ DOMAIN cmd[p] = Fields
  BY DEF LockInv, Shape, Fund, At, Live
<1>3. Live(p) /\ Orderly(p) /\ Spares(p) /\ Informed(p)
  BY <1>2 DEF FundInv, Live
<1>4. Seen' = Seen /\ OwnUnspent' = OwnUnspent /\ \A o : Carries(o)' = Carries(o)
  BY <1>1, SameNode
<1>5. CASE End(p)
  BY <1>1, <1>5, EndedStep
<1>6. ASSUME NEW tx \in Psbts(c) \cup {NoTx}, NEW pc \in {"unlock", "sign"},
             cmd' = [cmd EXCEPT ![p].pc = pc, ![p].tx = tx],
             pc = "sign" => tx # NoTx /\ c.kind = "amount"
      PROVE  FundInv'
  <2>1. /\ \A q \in Procs \ {p} : cmd'[q] = cmd[q]
        /\ cmd'[p] = [cmd[p] EXCEPT !.pc = pc, !.tx = tx]
    BY <1>2, <1>6
  <2>2. /\ cmd'[p].pc = pc /\ cmd'[p].order = c /\ cmd'[p].listed = cmd[p].listed
        /\ cmd'[p].relied = cmd[p].relied /\ cmd'[p].locks = cmd[p].locks
        /\ cmd'[p].toLock = cmd[p].toLock /\ cmd'[p].tx = tx /\ cmd'[p].calm = cmd[p].calm
    BY <1>2, <2>1 DEF Fields
  <2>3. c \in Requests /\ Named(c) \subseteq Seen
    BY <1>2, <1>3, WalletConstants DEF Orderly
  <2>4. (tx = NoTx \/ Sendable(tx)) /\ ToSet(tx.ins) \subseteq Named(c) \cup Listed
    <3>1. CASE tx \in Psbts(c)
      BY <2>3, <3>1, SeenFinite, PsbtFacts
    <3>2. CASE tx = NoTx
      BY <3>2, NothingSpent
    <3> QED
      BY <3>1, <3>2
  <2>5. Orderly(p)'
    <3>1. ToSet(tx.ins) \subseteq Seen
      BY <2>3, <2>4, SeenFinite
    <3> QED
      BY <1>2, <1>3, <1>4, <1>6, <2>2, <2>3, <2>4, <3>1 DEF Orderly, Steps
  <2>6. Spares(p)'
    <3>1. restarted \/ OperatorLocks \subseteq locked
      BY DEF FundInv, OperatorLocksKept
    <3> QED
      BY <1>1, <1>2, <1>3, <2>2, <2>4, <3>1, ListedIs DEF Spares
  <2>7. Informed(p)'
    <3> SUFFICES ASSUME cmd'[p].calm, cmd'[p].order.kind # "amount"
                 PROVE  Informed(p)'
      BY DEF Informed
    <3>1. /\ OwnUnspent \subseteq cmd[p].listed \cup cmd[p].relied
          /\ cmd[p].relied \subseteq locked /\ cmd[p].locks \subseteq cmd[p].relied
          /\ \A o \in cmd[p].listed \ (cmd[p].locks \cup Named(c)) : ~Carries(o)
      BY <1>2, <1>3, <2>2 DEF Informed, Relying
    <3>2. \A o \in ToSet(tx.ins) \ Named(c) : o \in OwnUnspent /\ o \notin locked
      BY <2>4, ListedIs
    <3>3. \A o \in ToSet(tx.ins) \ Named(c) : ~Carries(o)
      BY <3>1, <3>2
    <3> QED
      BY <1>4, <2>2, <3>3 DEF Informed, Relying
  <2> QED
    BY <1>1, <2>1, <2>5, <2>6, <2>7, ReaderStep
<1>7. PICK tx \in Psbts(c) \cup {NoTx} :
        IF c.kind # "amount" THEN cmd' = [cmd EXCEPT ![p].pc = "unlock", ![p].tx = tx]
        ELSE IF tx # NoTx THEN cmd' = [cmd EXCEPT ![p].pc = "sign", ![p].tx = tx]
        ELSE End(p)
  BY DEF Fund
<1> QED
  BY <1>5, <1>6, <1>7

(* An output without rows has no ranges that a transaction could move.       *)
LEMMA NoGroupsNoRanges ==
  ASSUME NEW d \in Facts!Dbs, NEW o, Chain!UnspentGroups(d, o) = {}
  PROVE  Chain!UnspentRanges(d, o) = << >>
<1>1. Facts!UnspentGroups(d, o) = {} /\ Chain!UnspentRanges(d, o) = Facts!UnspentRanges(d, o)
  BY SameSaves, SameTransaction
<1>2. PICK rs : rs = Facts!RangesAt(d, o) /\ rs \in Seq(Facts!AllRanges)
  BY Facts!RangesAtType, Instance
<1>3. Facts!UnspentRanges(d, o) = Facts!Keep(rs, {})
  <2>1. {r \in Facts!ToSet(rs) : r.group \in Facts!UnspentGroups(d, o)} = {}
    BY <1>1
  <2> QED
    BY <1>2, <2>1 DEF Facts!UnspentRanges
<1>4. Facts!Keep(rs, {}) = << >>
  <2>1. Facts!ToSet(rs) \cap {} = {}
    OBVIOUS
  <2> QED
    BY <1>2, <2>1, Facts!KeepFacts, Instance
<1> QED
  BY <1>1, <1>3, <1>4

LEMMA IntervalFinite ==
  ASSUME NEW n \in Int
  PROVE  IsFiniteSet(0..n)
<1>1. 0 \in Int
  OBVIOUS
<1> QED
  BY <1>1, FS_Interval

SpendCoins(tx, h, S) ==
  coins' = {IF c.out \in S THEN [c EXCEPT !.spent = TRUE] ELSE c : c \in coins}
           \cup {[out |-> o, script |-> Chain!ScriptAt(tx, o.vout), spent |-> FALSE]
                 : o \in Chain!OutsOf(h, tx)}

(* The coins after a transaction that spends S and makes the outputs N.     *)
LEMMA CoinsAfter ==
  ASSUME FundInv, height \in Nat, NEW tx, Facts!Allowed(tx), NEW h, h = height + 1, NEW S,
         SpendCoins(tx, h, S)
  PROVE  /\ IsFiniteSet(coins')
         /\ coins' \subseteq [out : Facts!Outpoints, script : OutScripts, spent : BOOLEAN]
         /\ Seen \subseteq Seen' /\ Unspent \ S \subseteq Unspent'
<1> DEFINE after(c) == IF c.out \in S THEN [c EXCEPT !.spent = TRUE] ELSE c
           fresh(o) == [out |-> o, script |-> Chain!ScriptAt(tx, o.vout), spent |-> FALSE]
           N == Chain!OutsOf(h, tx)
           T == [out : Facts!Outpoints, script : OutScripts, spent : BOOLEAN]
<1>1. IsFiniteSet(coins) /\ coins \subseteq T
  BY DEF FundInv, ChainOK
<1>2. coins' = {after(c) : c \in coins} \cup {fresh(o) : o \in N}
  BY DEF SpendCoins
<1>3. ASSUME NEW c \in T
      PROVE  /\ after(c) \in T /\ after(c).out = c.out
             /\ c.out \notin S => after(c).spent = c.spent
  OBVIOUS
<1>4. tx \in Facts!TxTypes /\ h \in Nat
  BY DEF Facts!Allowed
<1>5. ASSUME NEW o \in N PROVE fresh(o) \in T
  <2>1. o \in Facts!OutsOf(h, tx) /\ Chain!ScriptAt(tx, o.vout) = Facts!ScriptAt(tx, o.vout)
    BY SameOutputs
  <2>2. o \in Facts!Outpoints /\ Facts!ScriptAt(tx, o.vout) \in {Own, Payee} \cup {OpReturn}
    <3> HIDE DEF N
    <3> QED
      BY <1>4, <2>1, Facts!OutsOfFacts, Instance
  <2> QED
    BY <2>1, <2>2 DEF OutScripts
<1>6. IsFiniteSet(N)
  <2>1. Len(tx.outs) \in Nat
    BY <1>4 DEF Facts!TxTypes
  <2>2. [v \in 0..Len(tx.outs) - 1 |-> Chain!Out(h, v)] \in Surjection(0..Len(tx.outs) - 1, N)
    BY DEF Surjection, Chain!OutsOf
  <2>3. IsFiniteSet(0..Len(tx.outs) - 1)
    <3>1. PICK m : m = Len(tx.outs) /\ m \in Nat
      BY <2>1
    <3>2. m - 1 \in Int
      BY <3>1
    <3>3. IsFiniteSet(0..m - 1)
      BY <3>2, IntervalFinite
    <3> QED
      BY <3>1, <3>3
  <2> QED
    BY <2>2, <2>3, FS_Surjection
<1> HIDE DEF N, fresh, after, T
<1>7. IsFiniteSet({after(c) : c \in coins})
  <2>1. [c \in coins |-> after(c)] \in Surjection(coins, {after(c) : c \in coins})
    BY DEF Surjection
  <2> QED
    BY <1>1, <2>1, FS_Surjection
<1>8. IsFiniteSet({fresh(o) : o \in N})
  <2>1. [o \in N |-> fresh(o)] \in Surjection(N, {fresh(o) : o \in N})
    BY DEF Surjection
  <2> QED
    BY <1>6, <2>1, FS_Surjection
<1>9. IsFiniteSet(coins')
  <2>1. PICK A, B : A = {after(c) : c \in coins} /\ B = {fresh(o) : o \in N}
    OBVIOUS
  <2>2. IsFiniteSet(A \cup B)
    BY <1>7, <1>8, <2>1, FS_Union
  <2> QED
    BY <1>2, <2>1, <2>2
<1>10. coins' \subseteq T
  BY <1>1, <1>2, <1>3, <1>5
<1>11. ASSUME NEW c \in coins PROVE after(c) \in coins'
  BY <1>2
<1>12. Seen \subseteq Seen'
  <2> SUFFICES ASSUME NEW c \in coins PROVE c.out \in Seen'
    BY DEF Seen
  <2> QED
    BY <1>1, <1>3, <1>11 DEF Seen
<1>13. Unspent \ S \subseteq Unspent'
  <2> SUFFICES ASSUME NEW c \in coins, ~c.spent, c.out \notin S PROVE c.out \in Unspent'
    BY DEF Unspent
  <2>1. after(c) \in coins' /\ after(c).out = c.out /\ ~after(c).spent
    BY <1>1, <1>3, <1>11
  <2> QED
    BY <2>1 DEF Unspent
<1> QED
  BY <1>9, <1>10, <1>12, <1>13 DEF T

(* The wallet sends only what LedgerProofs allows a block to hold.           *)
LEMMA SendableAllowed ==
  ASSUME FundInv, NEW tx, Sendable(tx), ToSet(tx.ins) \subseteq Seen
  PROVE  Facts!Allowed(tx)
<1>1. tx \in Facts!TxTypes /\ ~Facts!ParseFails(tx)
  BY DEF Sendable
<1>2. ASSUME tx.ins # << >> PROVE Facts!Base(tx) \in {Own, Payee} \cup {OpReturn}
  <2>1. PICK s : s = tx.ins /\ s \in Seq(Facts!Outpoints)
    BY <1>1 DEF Facts!TxTypes
  <2>2. s[1] \in ToSet(s)
    <3>1. 1 \in DOMAIN s
      BY <1>2, <2>1
    <3> QED
      BY <3>1 DEF ToSet
  <2>3. PICK c \in coins : c.out = s[1]
    BY <2>1, <2>2 DEF Seen
  <2>4. coins \subseteq [out : Facts!Outpoints, script : OutScripts, spent : BOOLEAN]
    BY DEF FundInv, ChainOK
  <2>5. \A e \in coins : e.script \in OutScripts
    BY <2>4
  <2>6. PICK e \in coins : e.script = Facts!Base(tx)
    BY <2>1, <2>3 DEF Facts!Base, Facts!ScriptOf
  <2> QED
    BY <2>5, <2>6 DEF OutScripts
<1> QED
  BY <1>1, <1>2 DEF Facts!Allowed

(* Spending S and adding a block takes tokens of an earlier output away,    *)
(* and gives it none.                                                       *)
LEMMA TablesAfter ==
  ASSUME LockInv, FundInv, NEW tx, Facts!Allowed(tx), NEW h, h = height + 1, height' = h,
         dbs' = [k \in 0..h |-> IF k = h THEN Chain!ParseTx(dbs[height], tx, h) ELSE dbs[k]]
  PROVE  /\ height \in Nat /\ h \in Nat /\ 0..height \subseteq 0..h
         /\ DOMAIN dbs' = 0..height' /\ \A k \in 0..height' : TablesUpTo(dbs'[k], k)
         /\ \A k \in 0..height : dbs'[k] = dbs[k]
         /\ \A o \in Seen : Carries(o)' => Carries(o)
<1>1. height \in Nat /\ \A o \in Seen : o.height \in 0..height
  BY DEF LockInv, Past, Seen
<1>2. h \in Nat /\ 0..height \subseteq 0..h /\ height \in 0..height /\ h \in 0..h /\ h \notin 0..height
  BY <1>1
<1>3. \A k \in 0..height : TablesUpTo(dbs[k], k)
  BY DEF FundInv, ChainOK
<1>4. /\ TablesUpTo(Chain!ParseTx(dbs[height], tx, height + 1), height + 1)
      /\ \A o : o.height <= height =>
           Chain!UnspentGroups(Chain!ParseTx(dbs[height], tx, height + 1), o)
             \subseteq Chain!UnspentGroups(dbs[height], o)
  <2>1. PICK d : d = dbs[height] /\ TablesUpTo(d, height)
    BY <1>2, <1>3
  <2> QED
    BY <1>1, <2>1, ParseTxTables
<1>5. PICK e : e = Chain!ParseTx(dbs[height], tx, h)
  OBVIOUS
<1>6. TablesUpTo(e, h) /\ \A o : o.height <= height =>
           Chain!UnspentGroups(e, o) \subseteq Chain!UnspentGroups(dbs[height], o)
  BY <1>4, <1>5
<1>7. dbs' = [k \in 0..h |-> IF k = h THEN e ELSE dbs[k]]
  BY <1>5
<1>8. /\ DOMAIN dbs' = 0..h /\ dbs'[h] = e
      /\ \A k \in 0..height : dbs'[k] = dbs[k]
  BY <1>2, <1>7
<1>9. \A k \in 0..h : TablesUpTo(dbs'[k], k)
  <2> SUFFICES ASSUME NEW k \in 0..h PROVE TablesUpTo(dbs'[k], k)
    OBVIOUS
  <2>1. CASE k = h
    BY <1>6, <1>8, <2>1
  <2>2. CASE k # h
    <3>1. k \in 0..height
      BY <1>1, <2>2
    <3> QED
      BY <1>3, <1>8, <3>1
  <2> QED
    BY <2>1, <2>2
<1>10. ASSUME NEW o \in Seen PROVE Carries(o)' => Carries(o)
  <2>1. o.height <= height
    BY <1>1
  <2>2. Chain!UnspentGroups(e, o) \subseteq Chain!UnspentGroups(dbs[height], o)
    BY <1>6, <2>1
  <2>3. Chain!UnspentGroups(dbs[height], o)' = Chain!UnspentGroups(e, o)
    BY <1>8 DEF Chain!UnspentGroups
  <2> QED
    BY <2>2, <2>3 DEF Carries
<1> QED
  BY <1>1, <1>2, <1>8, <1>9, <1>10

(* A transaction comes in between the steps of another command.             *)
LEMMA OvertakenKeeps ==
  ASSUME LockInv, NEW q \in Procs, Orderly(q), Spares(q), Informed(q),
         restarted' = restarted, Seen \subseteq Seen',
         \A o \in Seen : Carries(o)' => Carries(o),
         cmd'[q] = Overtaken(q)
  PROVE  Orderly(q)' /\ Spares(q)' /\ Informed(q)'
<1>1. CASE ~Live(q)
  BY <1>1, Idlers
<1>2. CASE Live(q)
  <2>1. /\ cmd'[q].pc = cmd[q].pc /\ cmd'[q].order = cmd[q].order /\ cmd'[q].listed = cmd[q].listed
        /\ cmd'[q].locks = cmd[q].locks /\ cmd'[q].toLock = cmd[q].toLock
        /\ cmd'[q].relied = cmd[q].relied /\ cmd'[q].tx = cmd[q].tx
        /\ cmd'[q].calm => cmd[q].calm
        /\ Relying(q) => ~cmd'[q].calm
    BY <1>2, OthersKeep
  <2>2. Live(q)' /\ (Relying(q)' <=> Relying(q))
    BY <1>2, <2>1 DEF Live, Relying
  <2>3. Orderly(q)'
    BY <1>2, <2>1, <2>2 DEF Orderly
  <2>4. Spares(q)'
    BY <1>2, <2>1, <2>2 DEF Spares
  <2>5. Informed(q)'
    <3> SUFFICES ASSUME cmd'[q].calm, cmd'[q].order.kind # "amount"
                 PROVE  Informed(q)'
      BY DEF Informed
    <3>1. cmd[q].pc \notin {"compute", "locked", "lock", "fund"}
      BY <1>2, <2>1 DEF Relying
    <3>2. ToSet(cmd[q].tx.ins) \subseteq Seen
      BY <1>2 DEF Orderly
    <3>3. cmd[q].pc \in {"unlock", "sign"} =>
            \A o \in ToSet(cmd[q].tx.ins) \ Named(cmd[q].order) : ~Carries(o)
      BY <1>2, <2>1 DEF Informed
    <3>4. cmd[q].pc \in {"unlock", "sign"} =>
            \A o \in ToSet(cmd'[q].tx.ins) \ Named(cmd'[q].order) : ~Carries(o)'
      BY <2>1, <3>2, <3>3
    <3>5. ~Relying(q)'
      BY <2>1, <2>2, <3>1 DEF Relying
    <3> QED
      BY <2>1, <3>1, <3>4, <3>5 DEF Informed
  <2> QED
    BY <2>3, <2>4, <2>5
<1> QED
  BY <1>1, <1>2

LEMMA BroadcastFund == ASSUME LockInv, FundInv, NEW p \in Procs, Broadcast(p) PROVE FundInv'
<1> DEFINE tx == cmd[p].tx
           h  == height + 1
           S  == ToSet(tx.ins)
           new == [order |-> cmd[p].order, tx |-> tx, height |-> h, calm |-> cmd[p].calm]
<1>1. cmd[p].pc = "sign" /\ UNCHANGED << indexed, stranded, restarted >>
  BY DEF Broadcast, At
<1>2. CASE End(p) /\ UNCHANGED << node, locked, sent >>
  <2>1. stranded' \subseteq Seen
    BY <1>1 DEF FundInv, ChainOK
  <2> QED
    BY <1>1, <1>2, <2>1, EndedStep
<1>3. CASE /\ height' = h
           /\ coins' = {IF c.out \in S THEN [c EXCEPT !.spent = TRUE] ELSE c : c \in coins}
                       \cup {[out |-> o, script |-> Chain!ScriptAt(tx, o.vout), spent |-> FALSE]
                             : o \in Chain!OutsOf(h, tx)}
           /\ dbs' = [k \in 0..h |-> IF k = h THEN Chain!ParseTx(dbs[height], tx, h) ELSE dbs[k]]
           /\ locked' = locked \ S
           /\ sent' = sent \cup {new}
           /\ cmd' = [q \in Procs |-> IF q = p THEN Done ELSE Overtaken(q)]
  <2>1. Live(p) /\ Orderly(p) /\ Spares(p) /\ Informed(p)
    BY <1>1 DEF FundInv, Live
  <2>2. Sendable(tx) /\ S \subseteq Seen
    BY <1>1, <2>1 DEF Orderly
  <2>3. Facts!Allowed(tx)
    BY <2>2, SendableAllowed
  <2>4. PICK t, H, Z : t = tx /\ H = h /\ Z = S
    OBVIOUS
  <2>5. /\ height \in Nat /\ H \in Nat /\ H = height + 1 /\ 0..height \subseteq 0..H
        /\ DOMAIN dbs' = 0..height' /\ \A k \in 0..height' : TablesUpTo(dbs'[k], k)
        /\ \A k \in 0..height : dbs'[k] = dbs[k]
        /\ \A o \in Seen : Carries(o)' => Carries(o)
    BY <1>3, <2>3, <2>4, TablesAfter
  <2>61. SpendCoins(t, H, Z)
    <3>1. SpendCoins(tx, h, S)
      BY <1>3 DEF SpendCoins
    <3> QED
      BY <2>4, <3>1
  <2>6. /\ IsFiniteSet(coins')
        /\ coins' \subseteq [out : Facts!Outpoints, script : OutScripts, spent : BOOLEAN]
        /\ Seen \subseteq Seen' /\ Unspent \ Z \subseteq Unspent'
    BY <2>3, <2>4, <2>5, <2>61, CoinsAfter
  <2> HIDE DEF tx, h, S
  <2>7. height' = H /\ locked' = locked \ Z /\ cmd'[p] = Done
        /\ \A q \in Procs \ {p} : cmd'[q] = Overtaken(q)
    BY <1>3, <2>4
  <2>8. ChainOK'
    BY <1>1, <2>5, <2>6, <2>7 DEF FundInv, ChainOK
  <2>9. ASSUME NEW q \in Procs PROVE Orderly(q)' /\ Spares(q)' /\ Informed(q)'
    <3>1. CASE q = p
      <4>1. ~Live(q)'
        BY <2>7, <3>1 DEF Live, Done
      <4> QED
        BY <4>1 DEF Orderly, Spares, Informed
    <3>2. CASE q # p
      <4>1. Orderly(q) /\ Spares(q) /\ Informed(q)
        BY DEF FundInv
      <4> QED
        BY <1>1, <2>5, <2>6, <2>7, <3>2, <4>1, OvertakenKeeps
    <3> QED
      BY <3>1, <3>2
  <2>10. OperatorLocksKept'
    <3>1. restarted \/ Z \cap OperatorLocks = {}
      BY <2>1, <2>4 DEF Spares, S, tx
    <3> QED
      BY <1>1, <2>7, <3>1 DEF FundInv, OperatorLocksKept
  <2>11. PICK n : n = new
    OBVIOUS
  <2>12. /\ n.order = cmd[p].order /\ n.tx = t /\ n.height = H /\ n.calm = cmd[p].calm
         /\ sent' = sent \cup {n}
    BY <1>3, <2>4, <2>11
  <2> HIDE DEF new
  <2>13. SentOK /\ FundedPlain
    BY DEF FundInv
  <2>14. SentOK'
    BY <2>5, <2>7, <2>12, <2>13 DEF SentOK
  <2>15. FundedPlain'
    <3>1. ASSUME NEW s \in sent PROVE \A o : Carried(s, o)' = Carried(s, o)
      <4>1. s.height \in 1..height
        BY <2>13 DEF SentOK
      <4>2. s.height - 1 \in 0..height
        BY <2>5, <4>1
      <4>3. dbs'[s.height - 1] = dbs[s.height - 1]
        BY <2>5, <4>2
      <4> QED
        BY <4>3 DEF Carried, Chain!UnspentRanges, Chain!UnspentGroups, Chain!RangesAt
    <3>2. ASSUME n.calm, n.order.kind # "amount", NEW o \in ToSet(n.tx.ins) \ Named(n.order)
          PROVE  Carried(n, o)' = << >>
      <4>1. ~Carries(o)
        BY <1>1, <2>1, <2>4, <2>12, <3>2 DEF Informed, S, tx
      <4>2. PICK d : d = dbs[height] /\ d \in Facts!Dbs
        <5>1. height \in 0..height
          BY <2>5
        <5> QED
          BY <5>1 DEF FundInv, ChainOK, TablesUpTo
      <4>3. Chain!UnspentRanges(d, o) = << >>
        BY <4>1, <4>2, NoGroupsNoRanges DEF Carries
      <4>4. n.height - 1 = height /\ height \in 0..height
        BY <2>5, <2>12
      <4>5. dbs'[n.height - 1] = d
        BY <2>5, <4>2, <4>4
      <4>6. Carried(n, o)' = Chain!UnspentRanges(d, o)
        <5>1. Carried(n, o)' = Chain!UnspentRanges(dbs'[n.height - 1], o)
          BY DEF Carried, Chain!UnspentRanges, Chain!UnspentGroups, Chain!RangesAt
        <5> QED
          BY <4>5, <5>1
      <4> QED
        BY <4>3, <4>6
    <3> QED
      BY <2>12, <2>13, <3>1, <3>2 DEF FundedPlain
  <2> QED
    BY <2>8, <2>9, <2>10, <2>14, <2>15 DEF FundInv
<1> QED
  BY <1>2, <1>3 DEF Broadcast

LEMMA DepositFacts ==
  ASSUME NEW k \in 0..Len(Deposits), NEW o \in DepositOuts(k)
  PROVE  /\ o \in Facts!Outpoints /\ o.height \in 1..k /\ o \in DepositOuts(Len(Deposits))
         /\ Deposited(o) \in Seq(Facts!AllRanges) /\ Facts!Distinct(Deposited(o))
<1> DEFINE R == {r \in [group : [coll : {0}, base : {Own, Payee}], lo : 0..MaxSlot, hi : 0..MaxSlot] :
                   r.lo <= r.hi}
<1>1. Len(Deposits) \in Nat /\ \A h \in 1..Len(Deposits) : Deposits[h] \in Seq(Seq(R))
  BY WalletConstants
<1>2. PICK h \in 1..k : \E v \in 1..Len(Deposits[h]) : o = [height |-> h, vout |-> v - 1]
  BY DEF DepositOuts, Chain!Out
<1>3. PICK v \in 1..Len(Deposits[h]) : o = [height |-> h, vout |-> v - 1]
  BY <1>2
<1>4. h \in 1..Len(Deposits)
  BY <1>1
<1>5. PICK d : d = Deposits[h] /\ d \in Seq(Seq(R))
  BY <1>1, <1>4
<1>6. v \in 1..Len(d) /\ Len(d) \in Nat
  BY <1>5
<1>7. o.height = h /\ o.vout = v - 1 /\ o.vout \in Nat /\ o.vout + 1 = v /\ h \in Nat
  BY <1>3, <1>6
<1>8. Deposited(o) = d[v] /\ d[v] \in Seq(R)
  BY <1>5, <1>6, <1>7 DEF Deposited
<1>9. R \subseteq Facts!AllRanges
  <2>1. [coll : {0}, base : {Own, Payee}] \subseteq Facts!AllGroups
    BY DEF Facts!AllGroups
  <2> QED
    BY <2>1 DEF Facts!AllRanges, Facts!RangesOver
<1>10. d[v] \in Seq(Facts!AllRanges)
  <2> HIDE DEF R
  <2> QED
    BY <1>8, <1>9
<1>11. o \in DepositOuts(Len(Deposits))
  <2>1. Chain!Out(h, v - 1) \in {Chain!Out(h, w - 1) : w \in 1..Len(Deposits[h])}
    OBVIOUS
  <2>2. o = Chain!Out(h, v - 1)
    BY <1>3 DEF Chain!Out
  <2> QED
    BY <1>4, <2>1, <2>2 DEF DepositOuts
<1>12. Facts!Distinct(Deposited(o))
  BY <1>11, WalletConstants DEF Facts!Distinct
<1>13. o \in Facts!Outpoints
  BY <1>3, <1>7 DEF Facts!Outpoints
<1> QED
  BY <1>7, <1>8, <1>10, <1>11, <1>12, <1>13

LEMMA DepositsFinite == IsFiniteSet(DepositOuts(Len(Deposits)))
<1> DEFINE n == Len(Deposits)
           at(h) == {Chain!Out(h, v - 1) : v \in 1..Len(Deposits[h])}
<1>1. n \in Nat /\ \A h \in 1..n : Len(Deposits[h]) \in Nat
  BY WalletConstants
<1>2. ASSUME NEW m \in Nat PROVE IsFiniteSet(1..m)
  BY FS_Interval
<1>3. ASSUME NEW h \in 1..n PROVE IsFiniteSet(at(h))
  <2>1. PICK m \in Nat : m = Len(Deposits[h])
    BY <1>1
  <2>2. [v \in 1..m |-> Chain!Out(h, v - 1)] \in Surjection(1..m, at(h))
    BY <2>1 DEF Surjection
  <2> QED
    BY <1>2, <2>2, FS_Surjection
<1>4. IsFiniteSet({at(h) : h \in 1..n})
  <2> HIDE DEF at, n
  <2>1. [h \in 1..n |-> at(h)] \in Surjection(1..n, {at(h) : h \in 1..n})
    BY DEF Surjection
  <2>2. IsFiniteSet(1..n)
    BY <1>1, <1>2
  <2> QED
    BY <2>1, <2>2, FS_Surjection
<1>5. DepositOuts(n) = UNION {at(h) : h \in 1..n}
  BY DEF DepositOuts
<1>6. \A T \in {at(h) : h \in 1..n} : IsFiniteSet(T)
  BY <1>3
<1> HIDE DEF at
<1>7. IsFiniteSet(UNION {at(h) : h \in 1..n})
  BY <1>4, <1>6, FS_UNION
<1> QED
  BY <1>5, <1>7

(* The tables of the deposits are tables.                                    *)
LEMMA DepositTables ==
  ASSUME NEW k \in 0..Len(Deposits)
  PROVE  TablesUpTo(DepositDb(k), k)
<1> DEFINE outs == {o \in DepositOuts(k) : Deposited(o) # << >>}
           row(o, g) == [out |-> o, group |-> g, owner |-> Own, created |-> o.height, spent |-> FALSE]
           rows == UNION {{row(o, g) : g \in Chain!GroupsOf(Deposited(o))} : o \in outs}
           ranges == [o \in outs |-> Deposited(o)]
<1>1. DepositDb(k) = [utxos |-> rows, ranges |-> ranges]
  BY DEF DepositDb
<1>2. \A o \in outs : /\ o \in Facts!Outpoints /\ o.height \in 1..k
                      /\ Deposited(o) \in Seq(Facts!AllRanges) /\ Facts!Distinct(Deposited(o))
  BY DepositFacts
<1>3. ASSUME NEW o \in outs, NEW g \in Chain!GroupsOf(Deposited(o))
      PROVE  row(o, g) \in Facts!RowTypes /\ row(o, g).out.height <= k
  <2>1. PICK s : s = Deposited(o) /\ s \in Seq(Facts!AllRanges)
    BY <1>2
  <2>2. PICK r \in ToSet(s) : g = r.group
    BY <1>3, <2>1 DEF Chain!GroupsOf, Chain!ToSet, ToSet
  <2>3. r \in Facts!AllRanges
    BY <2>1, <2>2 DEF ToSet
  <2>4. g \in Facts!AllGroups
    BY <2>2, <2>3 DEF Facts!AllRanges, Facts!RangesOver
  <2>5. o \in Facts!Outpoints /\ o.height \in Nat /\ o.height <= k
    BY <1>2
  <2> QED
    BY <2>4, <2>5 DEF Facts!RowTypes
<1>4. ranges \in Facts!RangeTables
  <2>1. ranges \in [outs -> Seq(Facts!AllRanges)] /\ outs \in SUBSET Facts!Outpoints
    BY <1>2
  <2>2. \A o \in DOMAIN ranges : Facts!Distinct(ranges[o])
    BY <1>2
  <2> HIDE DEF ranges, outs
  <2> QED
    BY <2>1, <2>2 DEF Facts!RangeTables
<1> HIDE DEF row, outs, ranges
<1>5. rows \in SUBSET Facts!RowTypes /\ \A u \in rows : u.out.height <= k
  BY <1>3
<1> HIDE DEF rows
<1>6. DepositDb(k) \in Facts!Dbs
  BY <1>1, <1>4, <1>5 DEF Facts!Dbs
<1> QED
  BY <1>1, <1>5, <1>6 DEF TablesUpTo

LEMMA InitFundInv == Init => FundInv
<1> SUFFICES ASSUME Init PROVE FundInv
  OBVIOUS
<1> DEFINE D == DepositOuts(Len(Deposits))
           coin(o) == [out |-> o, script |-> Own, spent |-> FALSE]
<1>1. Len(Deposits) \in Nat /\ OperatorLocks \subseteq D
  BY WalletConstants
<1>2. coins = {coin(o) : o \in D}
  BY DEF Init
<1>3. IsFiniteSet(coins)
  <2>1. IsFiniteSet(D)
    BY DepositsFinite
  <2> HIDE DEF D
  <2>2. [o \in D |-> coin(o)] \in Surjection(D, coins)
    BY <1>2 DEF Surjection
  <2> QED
    BY <2>1, <2>2, FS_Surjection
<1>4. coins \subseteq [out : Facts!Outpoints, script : OutScripts, spent : BOOLEAN]
  <2>1. \A o \in D : o \in Facts!Outpoints
    <3>1. Len(Deposits) \in 0..Len(Deposits)
      BY <1>1
    <3> QED
      BY <3>1, DepositFacts
  <2>2. \A o \in D : coin(o) \in [out : Facts!Outpoints, script : OutScripts, spent : BOOLEAN]
    BY <2>1 DEF OutScripts
  <2> HIDE DEF D, coin
  <2> QED
    BY <1>2, <2>2
<1>5. Unspent = D
  <2>1. \A o \in D : coin(o).out = o /\ ~coin(o).spent
    OBVIOUS
  <2> HIDE DEF D, coin
  <2>2. Unspent \subseteq D
    BY <1>2, <2>1 DEF Unspent
  <2>3. D \subseteq Unspent
    BY <1>2, <2>1 DEF Unspent
  <2> QED
    BY <2>2, <2>3
<1>6. height = Len(Deposits) /\ DOMAIN dbs = 0..height /\ \A k \in 0..height : TablesUpTo(dbs[k], k)
  <2>1. \A k \in 0..Len(Deposits) : dbs[k] = DepositDb(k)
    BY DEF Init
  <2> QED
    BY <2>1, DepositTables DEF Init
<1>7. indexed \in 0..height /\ locked \subseteq Unspent /\ stranded \subseteq Seen
  BY <1>1, <1>5 DEF Init
<1>8. ChainOK
  BY <1>3, <1>4, <1>6, <1>7 DEF ChainOK
<1>9. \A p \in Procs : ~Live(p)
  BY DEF Init, Idle, Live
<1>10. \A p \in Procs : Orderly(p) /\ Spares(p) /\ Informed(p)
  BY <1>9 DEF Orderly, Spares, Informed
<1>11. SentOK /\ FundedPlain /\ OperatorLocksKept
  BY DEF Init, SentOK, FundedPlain, OperatorLocksKept
<1> QED
  BY <1>8, <1>10, <1>11 DEF FundInv

LEMMA NextFundInv == LockInv /\ FundInv /\ [Next]_vars => FundInv'
<1> SUFFICES ASSUME LockInv, FundInv, [Next]_vars PROVE FundInv'
  OBVIOUS
<1>1. ASSUME NEW p \in Procs, Start(p) PROVE FundInv'
  BY <1>1, StartFund
<1>2. ASSUME NEW p \in Procs, CheckNamed(p) PROVE FundInv'
  BY <1>2, CheckNamedFund
<1>3. ASSUME NEW p \in Procs, ListUnspent(p) PROVE FundInv'
  BY <1>3, ListUnspentFund
<1>4. ASSUME NEW p \in Procs, ComputeLocks(p) PROVE FundInv'
  BY <1>4, ComputeLocksFund
<1>5. ASSUME NEW p \in Procs, ListLocked(p) PROVE FundInv'
  BY <1>5, ListLockedFund
<1>6. ASSUME NEW p \in Procs, Lock(p) PROVE FundInv'
  BY <1>6, LockFund
<1>7. ASSUME NEW p \in Procs, Fund(p) PROVE FundInv'
  BY <1>7, FundFund
<1>8. ASSUME NEW p \in Procs, Unlock(p) PROVE FundInv'
  BY <1>8, UnlockFund
<1>9. ASSUME NEW p \in Procs, Broadcast(p) PROVE FundInv'
  BY <1>9, BroadcastFund
<1>10. ASSUME NEW p \in Procs, Crash(p) PROVE FundInv'
  BY <1>10, CrashFund
<1>11. CASE Scan
  BY <1>11, ScanFund
<1>12. CASE NodeRestart
  BY <1>12, NodeRestartFund
<1>13. CASE UNCHANGED vars
  <2>1. UNCHANGED << node, sent >> /\ UNCHANGED << indexed, locked, cmd, stranded, restarted >>
    BY <1>13 DEF vars, node
  <2>2. indexed' \in 0..height /\ locked' \subseteq Unspent /\ stranded' \subseteq Seen
    BY <2>1 DEF FundInv, ChainOK
  <2>3. ASSUME NEW q \in Procs PROVE Orderly(q)' /\ Spares(q)' /\ Informed(q)'
    <3>1. cmd'[q] = Shaken(q, {}) /\ locked \ locked' \subseteq {}
      BY <2>1 DEF Shaken
    <3>2. Orderly(q) /\ Spares(q) /\ Informed(q)
      BY DEF FundInv
    <3> QED
      BY <2>1, <3>1, <3>2, Untouched
  <2>4. OperatorLocksKept'
    BY <2>1 DEF FundInv, OperatorLocksKept
  <2> QED
    BY <2>1, <2>2, <2>3, <2>4, SameChain
<1> QED
  BY <1>1, <1>2, <1>3, <1>4, <1>5, <1>6, <1>7, <1>8, <1>9, <1>10, <1>11, <1>12, <1>13 DEF Next

LEMMA AlwaysFundInv == Spec => []FundInv
<1>1. Spec => []LockInv
  BY AlwaysLockInv
<1> QED
  BY <1>1, InitFundInv, NextFundInv, PTL DEF Spec

(* What a command holds of the wallet has been on the chain, locked coins    *)
(* are unspent, and there are tables for every block.                       *)
THEOREM TypeCorrect == Spec => []TypeOK
<1>1. FundInv => TypeOK
  BY DEF FundInv, ChainOK, Orderly, TypeOK, Seen
<1> QED
  BY <1>1, AlwaysFundInv, PTL

(* list_locked_unspent before lockunspent: the coins an operator has locked  *)
(* are neither unlocked nor spent by a command, until the node restarts.    *)
THEOREM OperatorKeepsLocks == Spec => []OperatorLocksKept
<1>1. FundInv => OperatorLocksKept
  BY DEF FundInv
<1> QED
  BY <1>1, AlwaysFundInv, PTL

(* compute_wallet_token_outpoints_to_lock: in a calm command, what Core adds *)
(* to fund its transaction carries no token, then and when it is accepted.  *)
THEOREM FundingIsPlain == Spec => []FundedPlain
<1>1. FundInv => FundedPlain
  BY DEF FundInv
<1> QED
  BY <1>1, AlwaysFundInv, PTL

-----------------------------------------------------------------------------
(* What is sent arrives: the transaction of a command, as far as it decides *)
(* where the tokens go.                                                     *)

Drafted(c, tx) ==
  /\ tx.msg = c.msg /\ Named(c) \subseteq ToSet(tx.ins)
  /\ c.kind = "assets" =>
       /\ Facts!Distinct(tx.ins)
       /\ Len(tx.outs) >= Len(c.named)
       /\ \A i \in 1..Len(tx.outs) : tx.outs[i] # OpReturn
       /\ \A i \in 1..Len(c.named) : tx.outs[i] = Payee
  /\ c.kind \in {"mix", "ownership"} =>
       /\ Len(tx.outs) >= Len(c.pays) + 1 /\ tx.outs[1] = OpReturn
       /\ \A i \in 1..Len(c.pays) : tx.outs[i + 1] = c.pays[i]
  /\ c.kind = "mix" =>
       \E rest \in Seq(Facts!Outpoints) : tx.ins = c.named \o rest /\ ToSet(rest) \cap Named(c) = {}

(* Change of a command that fixes its place comes last.                     *)
LEMMA ChangeLast ==
  ASSUME NEW c \in Requests, c.kind \in {"assets", "mix", "ownership"}, NEW outs \in FundedOuts(c)
  PROVE  /\ Len(Asked(c)) \in Nat /\ Len(outs) \in {Len(Asked(c)), Len(Asked(c)) + 1}
         /\ \A i \in 1..Len(Asked(c)) : outs[i] = Asked(c)[i]
         /\ \A i \in 1..Len(outs) : i \notin 1..Len(Asked(c)) => outs[i] = Own
<1>1. PICK s : s = Asked(c) /\ s \in Seq(OutScripts)
  BY AskedFacts
<1>2. outs = s \/ outs = SubSeq(s, 1, Len(s)) \o <<Own>> \o SubSeq(s, Len(s) + 1, Len(s))
  BY <1>1 DEF FundedOuts, ChangePositions
<1>3. CASE outs = s
  BY <1>1, <1>3
<1>4. CASE outs = SubSeq(s, 1, Len(s)) \o <<Own>> \o SubSeq(s, Len(s) + 1, Len(s))
  <2>1. SubSeq(s, 1, Len(s)) = s
    BY <1>1
  <2>2. SubSeq(s, Len(s) + 1, Len(s)) = << >>
    BY <1>1
  <2>3. Own \in OutScripts
    BY DEF OutScripts
  <2>4. PICK w \in Seq(OutScripts) : w = s \o <<Own>> /\ Len(w) = Len(s) + 1
               /\ (\A i \in 1..Len(s) : w[i] = s[i]) /\ w[Len(s) + 1] = Own
    <3>1. s \o <<Own>> = Append(s, Own)
      BY <1>1, <2>3
    <3>2. /\ Append(s, Own) \in Seq(OutScripts) /\ Len(Append(s, Own)) = Len(s) + 1
          /\ (\A i \in 1..Len(s) : Append(s, Own)[i] = s[i]) /\ Append(s, Own)[Len(s) + 1] = Own
      BY <1>1, <2>3
    <3> QED
      BY <3>1, <3>2
  <2>5. w \o << >> = w
    OBVIOUS
  <2>6. outs = w
    BY <1>4, <2>1, <2>2, <2>4, <2>5
  <2>7. ASSUME NEW i \in 1..Len(outs), i \notin 1..Len(s) PROVE i = Len(s) + 1
    BY <1>1, <2>4, <2>6, <2>7
  <2> QED
    BY <1>1, <2>4, <2>6, <2>7
<1> QED
  BY <1>2, <1>3, <1>4

(* ... and move_opreturn_first moves nothing.                               *)
LEMMA OpReturnStays ==
  ASSUME NEW outs \in Seq(OutScripts), outs # << >>, outs[1] = OpReturn
  PROVE  MoveOpReturnFirst(outs) = outs
<1> DEFINE at == {i \in 1..Len(outs) : outs[i] = OpReturn}
           first == CHOOSE i \in at : \A j \in at : i <= j
<1>1. 1 \in at /\ \A j \in at : 1 <= j
  OBVIOUS
<1>2. first = 1
  <2>1. \A i \in at : (\A j \in at : i <= j) => i = 1
    BY <1>1
  <2> HIDE DEF at
  <2> QED
    BY <1>1, <2>1
<1>3. MoveOpReturnFirst(outs) = <<OpReturn>> \o SubSeq(outs, 1, 0) \o SubSeq(outs, 2, Len(outs))
  <2>1. at # {}
    BY <1>1
  <2>2. MoveOpReturnFirst(outs)
        = <<OpReturn>> \o SubSeq(outs, 1, first - 1) \o SubSeq(outs, first + 1, Len(outs))
    BY <2>1 DEF MoveOpReturnFirst
  <2>3. PICK f : f = first
    OBVIOUS
  <2> HIDE DEF at, first
  <2>4. f = 1 /\ f - 1 = 0 /\ f + 1 = 2
    BY <1>2, <2>3
  <2>5. MoveOpReturnFirst(outs) = <<OpReturn>> \o SubSeq(outs, 1, f - 1) \o SubSeq(outs, f + 1, Len(outs))
    BY <2>2, <2>3
  <2> QED
    BY <2>4, <2>5
<1>4. SubSeq(outs, 1, 0) = << >> /\ <<OpReturn>> \o << >> = <<OpReturn>>
  OBVIOUS
<1>5. PICK u : u = SubSeq(outs, 2, Len(outs)) /\ u \in Seq(OutScripts) /\ Len(u) = Len(outs) - 1
               /\ \A i \in 1..Len(u) : u[i] = outs[i + 1]
  <2> DEFINE u == SubSeq(outs, 2, Len(outs))
  <2>1. Len(outs) \in Nat /\ Len(outs) >= 1
    OBVIOUS
  <2>2. u \in Seq(OutScripts) /\ Len(u) = Len(outs) - 1
    <3>1. PICK n \in 1..Len(outs) : n = 1
      BY <2>1
    <3>2. /\ SubSeq(outs, n + 1, Len(outs)) \in Seq(OutScripts)
          /\ Len(SubSeq(outs, n + 1, Len(outs))) = Len(outs) - n
      OBVIOUS
    <3>3. n + 1 = 2 /\ Len(outs) - n = Len(outs) - 1
      BY <2>1, <3>1
    <3> QED
      BY <3>2, <3>3
  <2>3. ASSUME NEW i \in 1..Len(u) PROVE u[i] = outs[i + 1]
    <3>1. i \in Nat /\ 2 + i - 1 = i + 1 /\ i \in 1..Len(outs) - 1
      BY <2>1, <2>2
    <3>2. u[i] = outs[2 + i - 1]
      BY <2>1, <3>1
    <3> QED
      BY <3>1, <3>2
  <2> QED
    BY <2>2, <2>3
<1>6. PICK w : w = <<OpReturn>> \o u /\ w \in Seq(OutScripts) /\ Len(w) = Len(outs)
               /\ w[1] = OpReturn /\ \A i \in 1..Len(u) : w[i + 1] = u[i]
  <2>1. OpReturn \in OutScripts
    BY DEF OutScripts
  <2> QED
    BY <1>5, <2>1
<1>7. ASSUME NEW i \in 1..Len(outs) PROVE w[i] = outs[i]
  <2>1. CASE i = 1
    BY <1>6, <2>1
  <2>2. CASE i # 1
    <3>1. i - 1 \in 1..Len(u) /\ (i - 1) + 1 = i
      BY <1>5, <2>2
    <3> QED
      BY <1>5, <1>6, <3>1
  <2> QED
    BY <2>1, <2>2
<1>8. w = outs
  BY <1>6, <1>7
<1> QED
  BY <1>3, <1>4, <1>5, <1>6, <1>8

(* Core spends no coin twice.                                               *)
LEMMA OrdersDistinct ==
  ASSUME NEW S, IsFiniteSet(S), NEW s \in Orders(S)
  PROVE  Facts!Distinct(s)
<1>1. PICK n : n = Cardinality(S) /\ n \in Nat
  BY FS_CardinalityType
<1>2. s \in [1..n -> S] /\ ToSet(s) = S
  BY <1>1 DEF Orders
<1>3. Len(s) = n /\ DOMAIN s = 1..n
  BY <1>1, <1>2
<1>4. s \in Surjection(1..n, S)
  <2>1. \A x \in S : \E i \in 1..n : s[i] = x
    BY <1>2, <1>3 DEF ToSet
  <2> QED
    BY <1>2, <2>1 DEF Surjection
<1>5. IsFiniteSet(1..n) /\ Cardinality(1..n) = n
  <2>1. 1 \in Int /\ n \in Int /\ n - 1 + 1 = n
    BY <1>1
  <2>2. IsFiniteSet(1..n) /\ Cardinality(1..n) = IF 1 > n THEN 0 ELSE n - 1 + 1
    BY <2>1, FS_Interval
  <2> QED
    BY <1>1, <2>1, <2>2
<1>6. s \in Injection(1..n, S)
  BY <1>1, <1>4, <1>5, FS_Surjection
<1> QED
  BY <1>3, <1>6 DEF Injection, IsInjective, Facts!Distinct

(* Module Mix is read by the commands, and by the parser through Chain.     *)
LEMMA SameExpand ==
  /\ \A rs : Expand(rs) = Facts!Expand(rs)
  /\ \A rs : Total(rs) = Facts!Total(rs)
  /\ \A s : FlattenSeq(s) = Facts!FlattenSeq(s)
  /\ \A m, n : CountSuffices(m, n) = Facts!CountSuffices(m, n)
  /\ \A m : WellFormed(m) = Facts!WellFormed(m)
  /\ \A s : ToSet(s) = Facts!ToSet(s)
<1>1. \A s : FlattenSeq(s) = Facts!FlattenSeq(s)
  BY DEF FlattenSeq, Facts!FlattenSeq
<1>2. \A rs : Expand(rs) = Facts!Expand(rs)
  BY <1>1 DEF Expand, Facts!Expand, Count, Facts!Count
<1>3. \A rs : Total(rs) = Facts!Total(rs)
  BY DEF Total, Facts!Total, Count, Facts!Count, FoldLeft, Facts!FoldLeft, MapThenFoldSet,
     Facts!MapThenFoldSet, Max, Facts!Max
<1>4. \A m : ExplicitRanges(m) = Facts!ExplicitRanges(m)
  BY DEF ExplicitRanges, Facts!ExplicitRanges, Explicit, Facts!Explicit
<1>5. \A m, n : CountSuffices(m, n) = Facts!CountSuffices(m, n)
  BY <1>4 DEF CountSuffices, Facts!CountSuffices
<1>6. \A m : WellFormed(m) = Facts!WellFormed(m)
  BY <1>4 DEF WellFormed, Facts!WellFormed, Explicit, Facts!Explicit
<1>7. \A s : ToSet(s) = Facts!ToSet(s)
  BY DEF ToSet, Facts!ToSet
<1> QED
  BY <1>1, <1>2, <1>3, <1>5, <1>6, <1>7

(* A payment for each asset; the OP_RETURN, then what is paid.               *)
LEMMA AskedOuts ==
  ASSUME NEW c \in Requests
  PROVE  /\ c.kind = "assets" =>
              Len(Asked(c)) = Len(c.named) /\ \A i \in 1..Len(c.named) : Asked(c)[i] = Payee
         /\ c.kind \in {"mix", "ownership"} =>
              /\ Len(Asked(c)) = Len(c.pays) + 1 /\ Asked(c)[1] = OpReturn
              /\ \A i \in 1..Len(c.pays) : Asked(c)[i + 1] = c.pays[i]
<1>1. PICK s : s = c.pays /\ s \in Seq(OutScripts)
  BY DEF Requests, OutScripts
<1>2. PICK n : n = Len(c.named) /\ n \in Nat
  BY DEF Requests
<1>3. CASE c.kind = "assets"
  <2>1. Asked(c) = [i \in 1..n |-> Payee]
    BY <1>2, <1>3 DEF Asked
  <2> QED
    BY <1>2, <1>3, <2>1
<1>4. CASE c.kind \in {"mix", "ownership"}
  <2>1. Asked(c) = <<OpReturn>> \o s
    BY <1>1, <1>4 DEF Asked
  <2>2. /\ Len(<<OpReturn>> \o s) = Len(s) + 1 /\ (<<OpReturn>> \o s)[1] = OpReturn
        /\ \A i \in 1..Len(s) : (<<OpReturn>> \o s)[i + 1] = s[i]
    BY <1>1 DEF OutScripts
  <2> QED
    BY <1>1, <1>4, <2>1, <2>2
<1> QED
  BY <1>3, <1>4

(* create_psbt_*: what was asked stands where it was asked.                  *)
LEMMA DraftFacts ==
  ASSUME NEW c \in Requests, IsFiniteSet(Listed), Listed \subseteq Facts!Outpoints, NEW tx \in Psbts(c)
  PROVE  Drafted(c, tx)
<1>1. PICK ins \in FundedIns(c), outs \in FundedOuts(c) :
        tx = [ins  |-> IF c.kind = "mix" THEN Reorder(ins, c.named) ELSE ins,
              outs |-> IF c.msg.cmd = "none" THEN outs ELSE MoveOpReturnFirst(outs),
              msg  |-> c.msg]
  BY DEF Psbts
<1>2. ins \in Seq(Facts!Outpoints) /\ Named(c) \subseteq ToSet(ins)
  BY FundedInsFacts
<1>3. PICK named : named = c.named /\ named \in Seq(Facts!Outpoints) /\ Named(c) = ToSet(named)
  BY DEF Requests, Facts!Outpoints, Named
<1>4. tx.msg = c.msg
  BY <1>1
<1>5. Named(c) \subseteq ToSet(tx.ins)
  <2>1. ToSet(Reorder(ins, named)) = ToSet(ins)
    BY <1>2, <1>3, ReorderFacts
  <2> QED
    BY <1>1, <1>2, <1>3, <2>1
<1>6. outs \in Seq(OutScripts) /\ Len(outs) >= Len(Asked(c)) /\ Len(Asked(c)) > 0
  BY FundedOutsFacts
<1>7. c.msg.cmd = IF c.kind \in {"amount", "assets"} THEN "none" ELSE c.kind
  BY DEF Requests
<1>8. OpReturn # Own /\ OpReturn # Payee
  BY WalletConstants
<1>9. CASE c.kind = "assets"
  <2>1. tx.ins = ins /\ tx.outs = outs
    BY <1>1, <1>7, <1>9
  <2>2. Facts!Distinct(ins)
    <3>1. IsFiniteSet(Named(c))
      BY <1>3, SetOfSeq
    <3>2. PICK S \in SUBSET (Listed \ Named(c)) : ins \in Orders(Named(c) \cup S)
      BY DEF FundedIns
    <3>3. IsFiniteSet(Named(c) \cup S)
      <4>1. IsFiniteSet(S)
        BY FS_Subset
      <4> QED
        BY <3>1, <4>1, FS_Union
    <3> QED
      BY <3>2, <3>3, OrdersDistinct
  <2>3. /\ Len(Asked(c)) = Len(named) /\ Len(named) \in Nat
        /\ \A i \in 1..Len(named) : Asked(c)[i] = Payee
    BY <1>3, <1>9, AskedOuts
  <2>4. /\ \A i \in 1..Len(Asked(c)) : outs[i] = Asked(c)[i]
        /\ \A i \in 1..Len(outs) : i \notin 1..Len(Asked(c)) => outs[i] = Own
    BY <1>9, ChangeLast
  <2>5. \A i \in 1..Len(named) : outs[i] = Payee
    BY <2>3, <2>4
  <2>6. \A i \in 1..Len(outs) : outs[i] # OpReturn
    BY <1>8, <2>3, <2>4, <2>5
  <2> QED
    BY <1>3, <1>4, <1>5, <1>6, <1>9, <2>1, <2>2, <2>3, <2>5, <2>6 DEF Drafted
<1>10. CASE c.kind \in {"mix", "ownership"}
  <2>1. /\ Len(Asked(c)) = Len(c.pays) + 1 /\ Asked(c)[1] = OpReturn
        /\ \A i \in 1..Len(c.pays) : Asked(c)[i + 1] = c.pays[i]
    BY <1>10, AskedOuts
  <2>2. \A i \in 1..Len(Asked(c)) : outs[i] = Asked(c)[i]
    BY <1>10, ChangeLast
  <2>3. Len(c.pays) \in Nat
    BY DEF Requests
  <2>4. outs # << >> /\ outs[1] = OpReturn
    BY <1>6, <2>1, <2>2, <2>3
  <2>5. tx.outs = outs
    <3>1. MoveOpReturnFirst(outs) = outs
      BY <1>6, <2>4, OpReturnStays
    <3> QED
      BY <1>1, <1>7, <1>10, <3>1
  <2>6. ASSUME NEW i \in 1..Len(c.pays) PROVE outs[i + 1] = c.pays[i]
    <3>1. i + 1 \in 1..Len(Asked(c))
      BY <2>1, <2>3
    <3> QED
      BY <2>1, <2>2, <3>1
  <2>7. ASSUME c.kind = "mix"
        PROVE  \E rest \in Seq(Facts!Outpoints) : tx.ins = c.named \o rest /\ ToSet(rest) \cap Named(c) = {}
    <3> DEFINE S == ToSet(ins) \ ToSet(named)
    <3>1. PICK rest : rest = Keep(ins, S)
      OBVIOUS
    <3>2. rest \in Seq(Facts!Outpoints) /\ ToSet(rest) \subseteq S
      <4>1. rest = Facts!Keep(ins, S)
        BY <3>1, SameFolds
      <4>2. Facts!Keep(ins, S) \in Seq(Facts!Outpoints) /\ Facts!ToSet(Facts!Keep(ins, S)) = Facts!ToSet(ins) \cap S
        <5> HIDE DEF S
        <5> QED
          BY <1>2, Facts!KeepFacts, Instance
      <4> QED
        BY <4>1, <4>2, SameExpand
    <3>3. tx.ins = c.named \o rest
      BY <1>1, <1>3, <2>7, <3>1 DEF Reorder
    <3> QED
      BY <1>3, <3>2, <3>3
  <2>8. Len(tx.outs) >= Len(c.pays) + 1
    BY <1>6, <2>1, <2>5
  <2>9. c.kind # "assets"
    BY <1>10
  <2> QED
    BY <1>4, <1>5, <1>10, <2>4, <2>5, <2>6, <2>7, <2>8, <2>9 DEF Drafted
<1>11. CASE c.kind \notin {"assets", "mix", "ownership"}
  BY <1>4, <1>5, <1>11 DEF Drafted
<1> QED
  BY <1>9, <1>10, <1>11

(* What Delivered asks, of the tables d before and e after a transaction in *)
(* block k.                                                                 *)
TokensOn(e, k, vout) == ToSet(Expand(Chain!UnspentRanges(e, Chain!Out(k, vout))))

AssetsReach(d, e, k, c, tx) ==
  \A o \in Named(c) : \A t \in ToSet(Expand(Chain!UnspentRanges(d, o))) :
    \E v \in 0..Len(tx.outs) - 1 : Chain!ScriptAt(tx, v) = Payee /\ t \in TokensOn(e, k, v)

NamedIn(d, c) == FlattenSeq([i \in 1..Len(c.named) |-> Chain!UnspentRanges(d, c.named[i])])

AskedBy(m, j) == UNION {r.start..r.end - 1 : r \in ToSet(m.outs[j])}
Mine(m, k, i) ==
  IF k = m.complement THEN i \notin UNION {AskedBy(m, j) : j \in 1..Len(m.outs)} ELSE i \in AskedBy(m, k)
Share(m, k, tokens) == {tokens[i + 1] : i \in {i \in 0..Len(tokens) - 1 : Mine(m, k, i)}}

MixReaches(d, e, k, c, tx) ==
  \A j \in 1..Len(c.pays) :
    TokensOn(e, k, j) = Share(c.msg, j, Expand(NamedIn(d, c))) /\ Chain!ScriptAt(tx, j) = c.pays[j]

SlotsReach(e, k, c, tx) ==
  c.msg.coll = 0 /\ Chain!SlotCount(c.msg) <= MaxRegistered =>
    /\ Chain!ScriptAt(tx, 1) = Own
    /\ {t.slot : t \in TokensOn(e, k, 1)} = UNION {r.lo..r.hi : r \in ToSet(c.msg.groups[1])}

Reaches(d, e, k, c, tx) ==
  /\ c.kind = "assets" => AssetsReach(d, e, k, c, tx)
  /\ c.kind = "mix" => MixReaches(d, e, k, c, tx)
  /\ c.kind = "ownership" => SlotsReach(e, k, c, tx)

(* The coins a Mix names carry as many tokens as it asks for.               *)
MixHolds(d, c) ==
  /\ \A o \in Named(c) : Chain!UnspentGroups(d, o) # {}
  /\ CountSuffices(c.msg, Total(NamedIn(d, c)))

Plain(d, c, tx) == \A o \in ToSet(tx.ins) \ Named(c) : Chain!UnspentGroups(d, o) = {}

LEMMA OnOutput ==
  ASSUME NEW e, NEW k, NEW v, e \in Facts!Dbs
  PROVE  TokensOn(e, k, v) = Facts!TokensIn(Facts!UnspentRanges(e, Facts!Out(k, v)))
<1>1. PICK rs : rs = Facts!UnspentRanges(e, Facts!Out(k, v)) /\ rs \in Seq(Facts!AllRanges)
  BY Facts!UnspentRangesType, Instance
<1>2. TokensOn(e, k, v) = Facts!ToSet(Facts!Expand(rs))
  BY <1>1, SameTransaction, SameOutputs, SameExpand DEF TokensOn
<1>3. Facts!TokensIn(rs) = Facts!ToSet(Facts!Expand(rs))
  BY <1>1, Facts!TokensInExpand, Instance
<1> QED
  BY <1>1, <1>2, <1>3

LEMMA OnInput ==
  ASSUME NEW d \in Facts!Dbs, NEW o
  PROVE  ToSet(Expand(Chain!UnspentRanges(d, o))) = Facts!TokensIn(Facts!UnspentRanges(d, o))
<1>1. PICK rs : rs = Facts!UnspentRanges(d, o) /\ rs \in Seq(Facts!AllRanges)
  BY Facts!UnspentRangesType, Instance
<1>2. ToSet(Expand(Chain!UnspentRanges(d, o))) = Facts!ToSet(Facts!Expand(rs))
  BY <1>1, SameTransaction, SameExpand
<1>3. Facts!TokensIn(rs) = Facts!ToSet(Facts!Expand(rs))
  BY <1>1, Facts!TokensInExpand, Instance
<1> QED
  BY <1>1, <1>2, <1>3

(* Other inputs move nothing.                                                *)
LEMMA PlainInputs ==
  ASSUME NEW d \in Facts!Dbs, NEW c, NEW tx, Plain(d, c, tx), NEW o \in ToSet(tx.ins), o \notin Named(c)
  PROVE  Facts!UnspentRanges(d, o) = << >>
<1>1. Chain!UnspentGroups(d, o) = {}
  BY DEF Plain
<1> QED
  BY <1>1, NoGroupsNoRanges, SameTransaction

(* send-assets: each payment takes a named coin's tokens.                    *)
LEMMA AssetsArrive ==
  ASSUME NEW h \in Nat, NEW k \in Nat, h < k, NEW d, Facts!Grounded(d, h), NEW tx, Facts!Allowed(tx),
         NEW c \in Requests, c.kind = "assets", Drafted(c, tx), Plain(d, c, tx)
  PROVE  AssetsReach(d, Facts!ParseTx(d, tx, k), k, c, tx)
<1> DEFINE e == Facts!ParseTx(d, tx, k)
<1>1. d \in Facts!Dbs /\ e \in Facts!Dbs
  <2>1. Facts!Grounded(e, k)
    BY Facts!StaysGrounded, Instance
  <2> QED
    BY <2>1 DEF Facts!Grounded
<1>2. PICK named : named = c.named /\ named \in Seq(Facts!Outpoints) /\ Named(c) = Facts!ToSet(named)
  BY SameExpand DEF Requests, Facts!Outpoints, Named
<1>3. /\ Facts!Distinct(tx.ins) /\ Len(named) <= Len(tx.outs)
      /\ \A v \in 1..Len(tx.outs) : tx.outs[v] # OpReturn
      /\ \A i \in 1..Len(named) : tx.outs[i] = Payee
      /\ Facts!ToSet(named) \subseteq Facts!ToSet(tx.ins)
  <2>1. Len(tx.outs) \in Nat /\ Len(named) \in Nat
    BY <1>2 DEF Facts!Allowed, Facts!TxTypes
  <2> QED
    BY <1>2, <2>1, SameExpand DEF Drafted
<1>4. Facts!Message(tx).cmd # "mix"
  <2>1. tx.outs # << >> /\ Len(tx.outs) \in Nat /\ (Len(tx.outs) # 0)
    BY DEF Facts!Allowed, Facts!TxTypes
  <2>2. tx.outs[1] # OpReturn
    BY <1>3, <2>1
  <2> QED
    BY <2>2 DEF Facts!Message, Facts!NoMessage
<1>5. \A o \in Facts!ToSet(tx.ins) \ Facts!ToSet(named) : Facts!UnspentRanges(d, o) = << >>
  BY <1>1, <1>2, PlainInputs, SameExpand
<1> SUFFICES ASSUME NEW o \in Named(c), NEW t \in ToSet(Expand(Chain!UnspentRanges(d, o)))
             PROVE  \E v \in 0..Len(tx.outs) - 1 : Chain!ScriptAt(tx, v) = Payee /\ t \in TokensOn(e, k, v)
  BY DEF AssetsReach
<1>6. t \in Facts!TokensIn(Facts!UnspentRanges(d, o)) /\ o \in Facts!ToSet(named) /\ o \in Facts!ToSet(tx.ins)
  BY <1>1, <1>2, <1>3, OnInput
<1>7. PICK i \in 1..Len(named) : t \in Facts!TokensIn(Facts!UnspentRanges(e, Facts!Out(k, i - 1)))
  BY <1>2, <1>3, <1>4, <1>5, <1>6, Facts!NamedTransferred, Instance
<1>8. i - 1 \in 0..Len(tx.outs) - 1 /\ (i - 1) + 1 = i
  <2>1. Len(tx.outs) \in Nat /\ Len(named) \in Nat
    BY <1>2 DEF Facts!Allowed, Facts!TxTypes
  <2> QED
    BY <1>3, <2>1
<1>9. t \in TokensOn(e, k, i - 1)
  <2>1. PICK v : v = i - 1
    OBVIOUS
  <2> HIDE DEF e
  <2> QED
    BY <1>1, <1>7, <2>1, OnOutput
<1>10. Chain!ScriptAt(tx, i - 1) = Payee
  BY <1>3, <1>8 DEF Chain!ScriptAt
<1> QED
  BY <1>8, <1>9, <1>10

(* register-ownership: the first payment takes the slots of the group.       *)
LEMMA SlotsArrive ==
  ASSUME NEW h \in Nat, NEW k \in Nat, h < k, NEW d, Facts!Grounded(d, h), NEW tx, Facts!Allowed(tx),
         NEW c \in Requests, c.kind = "ownership", Drafted(c, tx), Plain(d, c, tx)
  PROVE  SlotsReach(Facts!ParseTx(d, tx, k), k, c, tx)
<1> DEFINE e == Facts!ParseTx(d, tx, k)
<1> SUFFICES ASSUME c.msg.coll = 0, Chain!SlotCount(c.msg) <= MaxRegistered
             PROVE  /\ Chain!ScriptAt(tx, 1) = Own
                    /\ {t.slot : t \in TokensOn(e, k, 1)} = UNION {r.lo..r.hi : r \in ToSet(c.msg.groups[1])}
  BY DEF SlotsReach
<1>1. d \in Facts!Dbs /\ e \in Facts!Dbs /\ tx \in Facts!TxTypes
  <2>1. Facts!Grounded(e, k)
    BY Facts!StaysGrounded, Instance
  <2> QED
    BY <2>1 DEF Facts!Grounded, Facts!Allowed
<1>2. c.msg.cmd = "ownership" /\ c.pays = <<Own>> /\ Len(c.msg.groups) = 1 /\ c.named = << >>
  BY DEF Requests
<1>3. tx.msg = c.msg /\ tx.outs[1] = OpReturn /\ \A i \in 1..Len(c.pays) : tx.outs[i + 1] = c.pays[i]
  BY DEF Drafted
<1>4. Facts!Message(tx) = c.msg
  BY <1>1, <1>2, <1>3 DEF Facts!Message, Facts!TxTypes
<1>5. Chain!ScriptAt(tx, 1) = Own
  <2>1. 1 \in 1..Len(c.pays) /\ c.pays[1] = Own
    BY <1>2
  <2>2. tx.outs[1 + 1] = Own
    BY <1>3, <2>1
  <2> QED
    BY <2>2 DEF Chain!ScriptAt
<1>6. Facts!Registers(tx)
  BY <1>2, <1>4, SameFolds DEF Facts!Registers
<1>7. Facts!TokenInputs(d, tx) = << >>
  <2>1. Named(c) = {}
    BY <1>2 DEF Named, ToSet
  <2>2. \A o \in Facts!ToSet(tx.ins) : Facts!UnspentRanges(d, o) = << >>
    BY <1>1, <2>1, PlainInputs, SameExpand
  <2>3. PICK s : s = Facts!TokenInputs(d, tx) /\ s \in Seq(Facts!Outpoints) /\ Facts!ToSet(s) = {}
    <3>1. /\ Facts!TokenInputs(d, tx) \in Seq(Facts!Outpoints)
          /\ Facts!ToSet(Facts!TokenInputs(d, tx)) = {o \in Facts!ToSet(tx.ins) : Facts!UnspentRanges(d, o) # << >>}
      BY <1>1, Facts!TokenInputsFacts, Instance
    <3> QED
      BY <2>2, <3>1
  <2>4. Len(s) = 0
    <3> SUFFICES ASSUME Len(s) # 0 PROVE FALSE
      OBVIOUS
    <3>1. 1 \in DOMAIN s
      BY <2>3
    <3> QED
      BY <2>3, <3>1 DEF Facts!ToSet
  <2> QED
    BY <2>3, <2>4
<1>8. PICK as : as = Facts!RegisteredRanges(tx, 1)
  OBVIOUS
<1>9. TokensOn(e, k, 1) = Facts!TokensIn(as)
  <2>1. 1 \in 1..Len(Facts!Message(tx).groups)
    <3>1. Len(Facts!Message(tx).groups) = 1
      BY <1>2, <1>4
    <3>2. 1 \in 1..1
      OBVIOUS
    <3> QED
      BY <3>1, <3>2
  <2>2. Facts!TokensIn(Facts!UnspentRanges(e, Facts!Out(k, 1))) = Facts!TokensIn(as)
    BY <1>6, <1>7, <1>8, <2>1, Facts!RegistrationRests, Instance
  <2> HIDE DEF e
  <2> QED
    BY <1>1, <2>2, OnOutput
<1>10. PICK g : g = c.msg.groups[1] /\ Len(g) \in Nat /\ ToSet(g) = {g[i] : i \in 1..Len(g)}
  <2>1. c.msg.groups \in Seq(Seq(Facts!SlotRangesOf))
    BY <1>1, <1>2, <1>4, Facts!MessageFacts, Instance
  <2>2. PICK gs : gs = c.msg.groups /\ gs \in Seq(Seq(Facts!SlotRangesOf)) /\ Len(gs) = 1
    BY <1>2, <2>1
  <2>3. gs[1] \in Seq(Facts!SlotRangesOf)
    BY <2>2
  <2> QED
    BY <2>2, <2>3 DEF ToSet
<1>11. as = [i \in 1..Len(g) |-> [group |-> [coll |-> c.msg.coll, base |-> Facts!Base(tx)], lo |-> g[i].lo, hi |-> g[i].hi]]
  BY <1>4, <1>8, <1>10 DEF Facts!RegisteredRanges
<1>12. Len(as) = Len(g) /\ DOMAIN as = 1..Len(g)
  BY <1>10, <1>11
<1>13. ASSUME NEW t \in Facts!TokensIn(as) PROVE \E r \in ToSet(g) : t.slot \in r.lo..r.hi
  <2>1. PICK i \in 1..Len(g) : t \in Facts!TokensOf(as[i])
    BY <1>12 DEF Facts!TokensIn, Facts!ToSet
  <2>2. PICK x \in as[i].lo..as[i].hi : t = [group |-> as[i].group, slot |-> x]
    BY <2>1 DEF Facts!TokensOf
  <2>3. as[i].lo = g[i].lo /\ as[i].hi = g[i].hi
    BY <1>11
  <2>4. t.slot \in g[i].lo..g[i].hi
    BY <2>2, <2>3
  <2> QED
    BY <1>10, <2>4
<1>14. ASSUME NEW r \in ToSet(g), NEW x \in r.lo..r.hi PROVE \E t \in Facts!TokensIn(as) : t.slot = x
  <2>1. PICK i \in 1..Len(g) : r = g[i]
    BY <1>10
  <2>2. as[i].lo = r.lo /\ as[i].hi = r.hi
    BY <1>11, <2>1
  <2>3. PICK t : t = [group |-> as[i].group, slot |-> x]
    OBVIOUS
  <2>4. t \in Facts!TokensOf(as[i]) /\ t.slot = x
    BY <2>2, <2>3 DEF Facts!TokensOf
  <2>5. t \in Facts!TokensIn(as)
    BY <1>12, <2>4 DEF Facts!TokensIn, Facts!ToSet
  <2> QED
    BY <2>4, <2>5
<1>15. {t.slot : t \in Facts!TokensIn(as)} = UNION {r.lo..r.hi : r \in ToSet(g)}
  <2>1. {t.slot : t \in Facts!TokensIn(as)} \subseteq UNION {r.lo..r.hi : r \in ToSet(g)}
    BY <1>13
  <2>2. UNION {r.lo..r.hi : r \in ToSet(g)} \subseteq {t.slot : t \in Facts!TokensIn(as)}
    BY <1>14
  <2> QED
    BY <2>1, <2>2
<1>16. PICK T : T = TokensOn(e, k, 1) /\ T = Facts!TokensIn(as)
  BY <1>9
<1>17. {t.slot : t \in T} = UNION {r.lo..r.hi : r \in ToSet(c.msg.groups[1])}
  BY <1>10, <1>15, <1>16
<1> HIDE DEF e
<1> QED
  BY <1>5, <1>16, <1>17

(* What a Mix gives an output is what the command asked for it.              *)
LEMMA MineGets ==
  ASSUME NEW m, Facts!DecodedMix(m), NEW n \in Nat, NEW k \in 1..Len(m.outs), NEW i \in 0..n - 1
  PROVE  Mine(m, k, i) <=> Facts!Gets(m, k, i)
<1>1. i \in Facts!IndicesFor(m, n, k) <=> Facts!Gets(m, k, i)
  <2>1. Facts!IndicesFor(m, n, k) \cap 0..n - 1 = {x \in 0..n - 1 : Facts!Gets(m, k, x)}
    BY Facts!IndicesForAre, Instance
  <2> QED
    BY <2>1
<1>2. \A j : AskedBy(m, j) = UNION {r.start..r.end - 1 : r \in Facts!ToSet(m.outs[j])}
  BY SameExpand DEF AskedBy
<1>3. CASE k # m.complement
  <2>1. Facts!IndicesFor(m, n, k) = AskedBy(m, k)
    BY <1>2, <1>3 DEF Facts!IndicesFor
  <2> QED
    BY <1>1, <1>3, <2>1 DEF Mine
<1>4. CASE k = m.complement
  <2>1. Facts!IndicesFor(m, n, k) = 0..n - 1 \ UNION {AskedBy(m, j) : j \in Facts!Explicit(m)}
    BY <1>2, <1>4 DEF Facts!IndicesFor
  <2>2. AskedBy(m, m.complement) = {} /\ m.complement \in 1..Len(m.outs)
    <3>1. m.outs[m.complement] = << >> /\ m.complement \in 1..Len(m.outs)
      BY DEF Facts!DecodedMix, Facts!WellFormed
    <3>2. Facts!ToSet(<< >>) = {}
      BY DEF Facts!ToSet
    <3> QED
      BY <1>2, <3>1, <3>2
  <2>3. UNION {AskedBy(m, j) : j \in 1..Len(m.outs)} = UNION {AskedBy(m, j) : j \in Facts!Explicit(m)}
    <3>1. \A j \in 1..Len(m.outs) : j \in Facts!Explicit(m) \/ AskedBy(m, j) = {}
      BY <2>2 DEF Facts!Explicit
    <3>2. \A j \in Facts!Explicit(m) : j \in 1..Len(m.outs)
      BY DEF Facts!Explicit
    <3> QED
      BY <3>1, <3>2
  <2> QED
    BY <1>1, <1>4, <2>1, <2>3 DEF Mine
<1> QED
  BY <1>3, <1>4

(* mix: each payment takes the tokens of its indices, the complement the    *)
(* rest.                                                                    *)
LEMMA MixArrives ==
  ASSUME NEW h \in Nat, NEW k \in Nat, h < k, NEW d, Facts!Grounded(d, h), NEW tx, Facts!Allowed(tx),
         NEW c \in Requests, c.kind = "mix", Drafted(c, tx), Plain(d, c, tx), MixHolds(d, c)
  PROVE  MixReaches(d, Facts!ParseTx(d, tx, k), k, c, tx)
<1> DEFINE e == Facts!ParseTx(d, tx, k)
<1>1. d \in Facts!Dbs /\ e \in Facts!Dbs /\ tx \in Facts!TxTypes
  <2>1. Facts!Grounded(e, k)
    BY Facts!StaysGrounded, Instance
  <2> QED
    BY <2>1 DEF Facts!Grounded, Facts!Allowed
<1>2. PICK named : /\ named = c.named /\ named \in Seq(Facts!Outpoints) /\ named # << >>
                   /\ Named(c) = Facts!ToSet(named)
  BY SameExpand DEF Requests, Facts!Outpoints, Named
<1>3. PICK rest \in Seq(Facts!Outpoints) : tx.ins = named \o rest /\ Facts!ToSet(rest) \cap Named(c) = {}
  BY <1>2, SameExpand DEF Drafted
<1>4. PICK m : m = c.msg /\ m.cmd = "mix" /\ WellFormed(m) /\ Len(c.pays) = Len(m.outs)
  BY DEF Requests
<1>5. /\ tx.msg = m /\ Len(tx.outs) >= Len(c.pays) + 1 /\ tx.outs[1] = OpReturn
      /\ \A i \in 1..Len(c.pays) : tx.outs[i + 1] = c.pays[i]
  BY <1>4 DEF Drafted
<1>6. Facts!Message(tx) = m
  BY <1>1, <1>4, <1>5, SameExpand DEF Facts!Message, Facts!TxTypes
<1>7. Facts!DecodedMix(m)
  BY <1>1, <1>4, <1>6, Facts!MessageFacts, Instance
<1>8. \A o \in Facts!ToSet(named) : Facts!UnspentRanges(d, o) # << >>
  <2> SUFFICES ASSUME NEW o \in Facts!ToSet(named) PROVE Facts!UnspentRanges(d, o) # << >>
    OBVIOUS
  <2>1. Facts!UnspentGroups(d, o) # {}
    BY <1>2, SameSaves DEF MixHolds
  <2> QED
    BY <2>1, Facts!GroupsHaveRanges, Instance
<1>9. \A o \in Facts!ToSet(rest) : Facts!UnspentRanges(d, o) = << >>
  <2>1. Facts!ToSet(rest) \subseteq Facts!ToSet(tx.ins)
    BY <1>2, <1>3, SetOfConcat, SameExpand
  <2> QED
    BY <1>1, <1>3, <2>1, PlainInputs, SameExpand
<1>10. /\ Facts!TokenInputs(d, tx) = named /\ Facts!OwnershipInputsArePrefix(d, tx)
       /\ Facts!InputRanges(d, tx) = Facts!RangesOfAll(d, named)
  <2>1. Facts!Joined(named, rest, tx.ins)
    BY <1>3 DEF Facts!Joined
  <2> QED
    BY <1>2, <1>8, <1>9, <2>1, Facts!NamedFirst, Instance
<1>11. PICK rs : rs = Facts!InputRanges(d, tx) /\ rs \in Seq(Facts!AllRanges)
  BY <1>1, Facts!TokenInputsFacts, Instance
<1>12. NamedIn(d, c) = rs
  <2>1. [i \in 1..Len(named) |-> Chain!UnspentRanges(d, named[i])]
        = [i \in 1..Len(named) |-> Facts!UnspentRanges(d, named[i])]
    BY SameTransaction
  <2>2. NamedIn(d, c) = Facts!FlattenSeq([i \in 1..Len(named) |-> Chain!UnspentRanges(d, named[i])])
    BY <1>2, SameExpand DEF NamedIn
  <2> QED
    BY <1>10, <1>11, <2>1, <2>2 DEF Facts!RangesOfAll
<1>13. PICK pays : pays = c.pays /\ pays \in Seq({Own, Payee}) /\ Len(pays) = Len(m.outs)
  BY <1>4 DEF Requests
<1>14. ASSUME NEW j \in 1..Len(m.outs)
       PROVE  /\ Facts!ScriptAt(tx, j) = pays[j] /\ Chain!ScriptAt(tx, j) = pays[j] /\ pays[j] # OpReturn
  BY <1>5, <1>13, WalletConstants DEF Facts!ScriptAt, Chain!ScriptAt
<1>15. Facts!CountSuffices(m, Facts!Total(rs))
  BY <1>4, <1>12, SameExpand DEF MixHolds
<1>16. Facts!MixAccepted(d, tx)
  <2>1. Len(tx.outs) >= Len(m.outs) + 1
    BY <1>4, <1>5
  <2> QED
    BY <1>2, <1>6, <1>10, <1>11, <1>14, <1>15, <2>1 DEF Facts!MixAccepted
<1>17. PICK n \in Nat : n = Facts!Total(rs) /\ Len(Facts!Expand(rs)) = n
  <2>1. Facts!Expand(rs) \in Seq(Facts!Tokens(Facts!AllGroups))
    BY <1>11, Facts!TokensInExpand, Instance
  <2>2. Len(Facts!Expand(rs)) = Facts!Total(rs)
    BY <1>11, Facts!ExpandLength, Instance, WalletConstants DEF Facts!AllRanges
  <2> QED
    BY <2>1, <2>2
<1>18. ASSUME NEW j \in 1..Len(m.outs) PROVE TokensOn(e, k, j) = Share(m, j, Expand(rs))
  <2>1. TokensOn(e, k, j) = Facts!TokensIn(Facts!UnspentRanges(e, Facts!Out(k, j)))
    <3> HIDE DEF e
    <3> QED
      BY <1>1, OnOutput
  <2>2. Facts!TokensIn(Facts!UnspentRanges(e, Facts!Out(k, j)))
        = {Facts!Expand(rs)[x + 1] : x \in Facts!Given(m, rs, j)}
    BY <1>4, <1>6, <1>11, <1>16, Facts!MixRests, Instance
  <2>3. Facts!Given(m, rs, j) = {x \in 0..n - 1 : Mine(m, j, x)}
    <3>1. \A x \in 0..n - 1 : Mine(m, j, x) <=> Facts!Gets(m, j, x)
      BY <1>7, MineGets
    <3> QED
      BY <1>17, <3>1 DEF Facts!Given
  <2>4. Share(m, j, Facts!Expand(rs)) = {Facts!Expand(rs)[x + 1] : x \in {x \in 0..n - 1 : Mine(m, j, x)}}
    BY <1>17 DEF Share
  <2> HIDE DEF e
  <2> QED
    BY <2>1, <2>2, <2>3, <2>4, SameExpand
<1> HIDE DEF e
<1>19. ASSUME NEW j \in 1..Len(c.pays)
       PROVE  TokensOn(e, k, j) = Share(c.msg, j, Expand(NamedIn(d, c))) /\ Chain!ScriptAt(tx, j) = c.pays[j]
  <2>1. j \in 1..Len(m.outs)
    BY <1>4
  <2> QED
    BY <1>4, <1>12, <1>13, <1>14, <1>18, <2>1
<1> QED
  BY <1>19 DEF MixReaches, e

LEMMA Arrives ==
  ASSUME NEW h \in Nat, NEW k \in Nat, h < k, NEW d, Facts!Grounded(d, h), NEW tx, Facts!Allowed(tx),
         NEW c \in Requests, Drafted(c, tx), Plain(d, c, tx), c.kind = "mix" => MixHolds(d, c)
  PROVE  Reaches(d, Facts!ParseTx(d, tx, k), k, c, tx)
<1>1. c.kind = "assets" => AssetsReach(d, Facts!ParseTx(d, tx, k), k, c, tx)
  BY AssetsArrive
<1>2. c.kind = "mix" => MixReaches(d, Facts!ParseTx(d, tx, k), k, c, tx)
  BY MixArrives
<1>3. c.kind = "ownership" => SlotsReach(Facts!ParseTx(d, tx, k), k, c, tx)
  BY SlotsArrive
<1> QED
  BY <1>1, <1>2, <1>3 DEF Reaches

(* The invariant: a transaction is as drafted, the coins a Mix names carry  *)
(* what was asked of them while they are unspent, and the tables give an    *)
(* unspent coin what they have given it since its block.                    *)
Arranged(p) == Live(p) /\ cmd[p].tx # NoTx => Drafted(cmd[p].order, cmd[p].tx)

Checked(p) ==
  Live(p) /\ cmd[p].order.kind = "mix" /\ cmd[p].pc # "check" =>
    /\ \A o \in Named(cmd[p].order) : o.height <= height
    /\ Named(cmd[p].order) \subseteq Unspent => MixHolds(dbs[height], cmd[p].order)

Steady == \A j \in 0..height : \A o \in Unspent : o.height <= j => Facts!AgreeAt(dbs[j], dbs[height], o)

GroundedNow == Facts!Grounded(dbs[height], height)

AllReach ==
  \A s \in sent : s.calm => Reaches(dbs[s.height - 1], dbs[s.height], s.height, s.order, s.tx)

DeliverInv ==
  /\ GroundedNow /\ Steady /\ AllReach
  /\ \A p \in Procs : Arranged(p) /\ Checked(p)

(* Coins that carry the same carry as many tokens.                          *)
LEMMA HoldsAgree ==
  ASSUME NEW c \in Requests, NEW d, NEW e, \A o \in Named(c) : Facts!AgreeAt(d, e, o), MixHolds(d, c)
  PROVE  MixHolds(e, c)
<1>1. \A o \in Named(c) : /\ Chain!UnspentGroups(e, o) = Chain!UnspentGroups(d, o)
                          /\ Chain!UnspentRanges(e, o) = Chain!UnspentRanges(d, o)
  BY SameSaves, SameTransaction DEF Facts!AgreeAt
<1>2. \A i \in 1..Len(c.named) : c.named[i] \in Named(c)
  BY DEF Named, ToSet, Requests
<1>3. [i \in 1..Len(c.named) |-> Chain!UnspentRanges(e, c.named[i])]
      = [i \in 1..Len(c.named) |-> Chain!UnspentRanges(d, c.named[i])]
  BY <1>1, <1>2
<1>4. NamedIn(e, c) = NamedIn(d, c)
  BY <1>3 DEF NamedIn
<1> QED
  BY <1>1, <1>4 DEF MixHolds

(* Without a block, a command that goes on has not changed its mind.        *)
LEMMA GoesOn ==
  ASSUME UNCHANGED node, NEW q, Arranged(q), Checked(q),
         Live(q)' => /\ Live(q) /\ cmd'[q].order = cmd[q].order /\ cmd'[q].tx = cmd[q].tx
                     /\ cmd[q].pc = "check" => cmd'[q].pc = "check"
  PROVE  Arranged(q)' /\ Checked(q)'
<1>1. height' = height /\ dbs' = dbs /\ Unspent' = Unspent
  BY SameNode DEF node
<1>2. Arranged(q)'
  BY DEF Arranged
<1>3. Checked(q)'
  BY <1>1 DEF Checked
<1> QED
  BY <1>2, <1>3

LEMMA SameTables ==
  ASSUME DeliverInv, UNCHANGED << node, sent >>, \A p \in Procs : Arranged(p)' /\ Checked(p)'
  PROVE  DeliverInv'
<1>1. height' = height /\ dbs' = dbs /\ Unspent' = Unspent /\ sent' = sent
  BY SameNode DEF node
<1>2. GroundedNow' /\ Steady' /\ AllReach'
  BY <1>1 DEF DeliverInv, GroundedNow, Steady, AllReach
<1> QED
  BY <1>2 DEF DeliverInv

(* Neither has one that loses its calm.                                     *)
LEMMA OthersGoOn ==
  ASSUME LockInv, DeliverInv, UNCHANGED node, NEW q \in Procs, NEW R,
         cmd'[q] = Shaken(q, R) \/ cmd'[q] = cmd[q]
  PROVE  Arranged(q)' /\ Checked(q)'
<1>1. Arranged(q) /\ Checked(q)
  BY DEF DeliverInv
<1>2. CASE cmd'[q] = cmd[q]
  BY <1>1, <1>2, GoesOn DEF Live
<1>3. CASE cmd'[q] = Shaken(q, R) /\ cmd'[q] # cmd[q]
  <2>1. Live(q)
    BY <1>3 DEF Shaken, Relying
  <2>2. cmd'[q].pc = cmd[q].pc /\ cmd'[q].order = cmd[q].order /\ cmd'[q].tx = cmd[q].tx
    BY <1>3, <2>1, OthersKeep
  <2> QED
    BY <1>1, <2>1, <2>2, GoesOn
<1> QED
  BY <1>2, <1>3

(* A step of p that makes no block.                                         *)
LEMMA OwnStep ==
  ASSUME LockInv, DeliverInv, NEW p \in Procs, UNCHANGED << node, sent >>, NEW R,
         \A q \in Procs \ {p} : cmd'[q] = Shaken(q, R) \/ cmd'[q] = cmd[q],
         Arranged(p)' /\ Checked(p)'
  PROVE  DeliverInv'
<1>1. \A q \in Procs : Arranged(q)' /\ Checked(q)'
  BY OthersGoOn
<1> QED
  BY <1>1, SameTables

LEMMA EndDeliver ==
  ASSUME LockInv, DeliverInv, NEW p \in Procs, End(p), UNCHANGED << node, sent >>
  PROVE  DeliverInv'
<1>1. DOMAIN cmd = Procs
  BY DEF LockInv, Shape
<1>2. ~Live(p)' /\ \A q \in Procs \ {p} : cmd'[q] = cmd[q]
  BY <1>1 DEF End, Live, Done
<1>3. Arranged(p)' /\ Checked(p)'
  BY <1>2 DEF Arranged, Checked
<1> QED
  BY <1>2, <1>3, OwnStep

(* A step that only reads, with the command's order and transaction kept.   *)
LEMMA ReadDeliver ==
  ASSUME LockInv, DeliverInv, NEW p \in Procs, UNCHANGED << node, sent >>,
         \A q \in Procs \ {p} : cmd'[q] = cmd[q], Live(p), cmd[p].pc # "check",
         cmd'[p].order = cmd[p].order, cmd'[p].tx = cmd[p].tx
  PROVE  DeliverInv'
<1>1. Arranged(p) /\ Checked(p)
  BY DEF DeliverInv
<1>2. Arranged(p)' /\ Checked(p)'
  BY <1>1, GoesOn
<1> QED
  BY <1>2, OwnStep

LEMMA StartDeliver == ASSUME LockInv, FundInv, DeliverInv, NEW p \in Procs, Start(p) PROVE DeliverInv'
<1>1. DOMAIN cmd = Procs /\ UNCHANGED << node, sent >>
  BY DEF LockInv, Shape, Start
<1>2. PICK c \in Commands[p] :
        cmd' = [cmd EXCEPT ![p] =
         [pc |-> IF c.kind = "amount" THEN "fund" ELSE IF c.named # << >> THEN "check" ELSE "list",
          order |-> c, calm |-> TRUE, relied |-> {},
          listed |-> {}, locks |-> {}, toLock |-> {}, tx |-> NoTx]]
  BY DEF Start
<1>3. c \in Requests
  BY WalletConstants
<1>4. \A q \in Procs \ {p} : cmd'[q] = cmd[q]
  BY <1>2
<1>5. /\ cmd'[p].pc = (IF c.kind = "amount" THEN "fund" ELSE IF c.named # << >> THEN "check" ELSE "list")
      /\ cmd'[p].order = c /\ cmd'[p].tx = NoTx
  BY <1>1, <1>2
<1>6. c.kind = "mix" => c.named # << >>
  BY <1>3 DEF Requests
<1>7. Arranged(p)' /\ Checked(p)'
  BY <1>5, <1>6 DEF Arranged, Checked
<1> QED
  BY <1>1, <1>4, <1>7, OwnStep

LEMMA ListUnspentDeliver == ASSUME LockInv, FundInv, DeliverInv, NEW p \in Procs, ListUnspent(p) PROVE DeliverInv'
<1>1. DOMAIN cmd = Procs /\ cmd[p].pc = "list" /\ DOMAIN cmd[p] = Fields /\ Live(p)
  BY DEF LockInv, Shape, ListUnspent, At, Live
<1>2. UNCHANGED << node, sent >>
  BY DEF ListUnspent
<1>3. CASE End(p)
  BY <1>2, <1>3, EndDeliver
<1>4. CASE cmd' = [cmd EXCEPT ![p].pc = "compute", ![p].listed = Listed, ![p].relied = OwnLocked]
  <2>1. /\ \A q \in Procs \ {p} : cmd'[q] = cmd[q]
        /\ cmd'[p].order = cmd[p].order /\ cmd'[p].tx = cmd[p].tx
    BY <1>1, <1>4 DEF Fields
  <2> QED
    BY <1>1, <1>2, <2>1, ReadDeliver
<1> QED
  BY <1>3, <1>4 DEF ListUnspent

LEMMA ComputeLocksDeliver == ASSUME LockInv, FundInv, DeliverInv, NEW p \in Procs, ComputeLocks(p) PROVE DeliverInv'
<1>1. DOMAIN cmd = Procs /\ cmd[p].pc = "compute" /\ DOMAIN cmd[p] = Fields /\ Live(p)
  BY DEF LockInv, Shape, ComputeLocks, At, Live
<1>2. UNCHANGED << node, sent >>
  BY DEF ComputeLocks
<1>3. /\ \A q \in Procs \ {p} : cmd'[q] = cmd[q]
      /\ cmd'[p].order = cmd[p].order /\ cmd'[p].tx = cmd[p].tx
  BY <1>1 DEF Fields, ComputeLocks
<1> QED
  BY <1>1, <1>2, <1>3, ReadDeliver

LEMMA ListLockedDeliver == ASSUME LockInv, FundInv, DeliverInv, NEW p \in Procs, ListLocked(p) PROVE DeliverInv'
<1>1. DOMAIN cmd = Procs /\ cmd[p].pc = "locked" /\ DOMAIN cmd[p] = Fields /\ Live(p)
  BY DEF LockInv, Shape, ListLocked, At, Live
<1>2. UNCHANGED << node, sent >>
  BY DEF ListLocked
<1>3. CASE End(p)
  BY <1>2, <1>3, EndDeliver
<1>4. CASE cmd' = [cmd EXCEPT ![p].pc = "lock", ![p].toLock = cmd[p].locks \ locked,
                              ![p].relied = @ \cup cmd[p].locks]
  <2>1. /\ \A q \in Procs \ {p} : cmd'[q] = cmd[q]
        /\ cmd'[p].order = cmd[p].order /\ cmd'[p].tx = cmd[p].tx
    BY <1>1, <1>4 DEF Fields
  <2> QED
    BY <1>1, <1>2, <2>1, ReadDeliver
<1> QED
  BY <1>3, <1>4 DEF ListLocked

LEMMA LockDeliver == ASSUME LockInv, FundInv, DeliverInv, NEW p \in Procs, Lock(p) PROVE DeliverInv'
<1>1. DOMAIN cmd = Procs /\ cmd[p].pc = "lock" /\ DOMAIN cmd[p] = Fields /\ Live(p)
  BY DEF LockInv, Shape, Lock, At, Live
<1>2. UNCHANGED << node, sent >>
  BY DEF Lock
<1>3. CASE End(p)
  BY <1>2, <1>3, EndDeliver
<1>4. CASE Goto(p, "fund")
  <2>1. /\ \A q \in Procs \ {p} : cmd'[q] = cmd[q]
        /\ cmd'[p].order = cmd[p].order /\ cmd'[p].tx = cmd[p].tx
    BY <1>1, <1>4 DEF Fields, Goto
  <2> QED
    BY <1>1, <1>2, <2>1, ReadDeliver
<1> QED
  BY <1>3, <1>4 DEF Lock

(* What Core returns is what the command drafted.                           *)
LEMMA FundDeliver == ASSUME LockInv, FundInv, DeliverInv, NEW p \in Procs, Fund(p) PROVE DeliverInv'
<1> DEFINE c == cmd[p].order
<1>1. DOMAIN cmd = Procs /\ cmd[p].pc = "fund" /\ DOMAIN cmd[p] = Fields /\ Live(p)
  BY DEF LockInv, Shape, Fund, At, Live
<1>2. UNCHANGED << node, sent >>
  BY DEF Fund
<1>3. CASE End(p)
  BY <1>2, <1>3, EndDeliver
<1>4. ASSUME NEW tx \in Psbts(c) \cup {NoTx}, NEW pc \in {"unlock", "sign"},
             cmd' = [cmd EXCEPT ![p].pc = pc, ![p].tx = tx]
      PROVE  DeliverInv'
  <2>1. /\ \A q \in Procs \ {p} : cmd'[q] = cmd[q]
        /\ cmd'[p] = [cmd[p] EXCEPT !.pc = pc, !.tx = tx]
    BY <1>1, <1>4
  <2>2. cmd'[p].pc = pc /\ cmd'[p].order = c /\ cmd'[p].tx = tx
    BY <1>1, <2>1 DEF Fields
  <2>3. Orderly(p) /\ Checked(p)
    BY DEF FundInv, DeliverInv
  <2>4. c \in Requests
    BY <1>1, <2>3, WalletConstants DEF Orderly
  <2>5. tx # NoTx => Drafted(c, tx)
    BY <1>4, <2>4, SeenFinite, DraftFacts
  <2>6. Arranged(p)'
    BY <2>2, <2>5 DEF Arranged
  <2>7. height' = height /\ dbs' = dbs /\ Unspent' = Unspent
    BY <1>2, SameNode DEF node
  <2>8. Checked(p)'
    BY <1>1, <2>2, <2>3, <2>7 DEF Checked
  <2> QED
    BY <1>2, <2>1, <2>6, <2>8, OwnStep
<1>5. PICK tx \in Psbts(c) \cup {NoTx} :
        IF c.kind # "amount" THEN cmd' = [cmd EXCEPT ![p].pc = "unlock", ![p].tx = tx]
        ELSE IF tx # NoTx THEN cmd' = [cmd EXCEPT ![p].pc = "sign", ![p].tx = tx]
        ELSE End(p)
  BY DEF Fund
<1> QED
  BY <1>3, <1>4, <1>5

LEMMA UnlockDeliver == ASSUME LockInv, FundInv, DeliverInv, NEW p \in Procs, Unlock(p) PROVE DeliverInv'
<1>1. DOMAIN cmd = Procs /\ cmd[p].pc = "unlock" /\ DOMAIN cmd[p] = Fields /\ Live(p)
  BY DEF LockInv, Shape, Unlock, At, Live
<1>2. UNCHANGED << node, sent >>
  BY DEF Unlock
<1>3. /\ \A q \in Procs \ {p} : cmd'[q] = Shaken(q, cmd[p].toLock)
      /\ cmd'[p] = IF cmd[p].tx = NoTx THEN Done ELSE [cmd[p] EXCEPT !.pc = "sign"]
  BY DEF Unlock, AfterUnlock
<1>4. Live(p)' => cmd'[p].order = cmd[p].order /\ cmd'[p].tx = cmd[p].tx
  BY <1>1, <1>3 DEF Fields, Live, Done
<1>5. Arranged(p) /\ Checked(p)
  BY DEF DeliverInv
<1>6. Arranged(p)' /\ Checked(p)'
  BY <1>1, <1>2, <1>4, <1>5, GoesOn
<1> QED
  BY <1>2, <1>3, <1>6, OwnStep

LEMMA CrashDeliver == ASSUME LockInv, FundInv, DeliverInv, NEW p \in Procs, Crash(p) PROVE DeliverInv'
BY EndDeliver DEF Crash

(* A step of the node or the daemon, or none.                               *)
LEMMA NodeDeliver ==
  ASSUME LockInv, DeliverInv, UNCHANGED << node, sent >>, NEW R,
         \A q \in Procs : cmd'[q] = Shaken(q, R) \/ cmd'[q] = cmd[q]
  PROVE  DeliverInv'
<1>1. \A q \in Procs : Arranged(q)' /\ Checked(q)'
  BY OthersGoOn
<1> QED
  BY <1>1, SameTables

LEMMA ScanDeliver == ASSUME LockInv, DeliverInv, Scan PROVE DeliverInv'
<1>1. UNCHANGED << node, sent >> /\ \A q \in Procs : cmd'[q] = cmd[q]
  BY DEF Scan
<1> QED
  BY <1>1, NodeDeliver

LEMMA NodeRestartDeliver == ASSUME LockInv, DeliverInv, NodeRestart PROVE DeliverInv'
<1>1. UNCHANGED << node, sent >> /\ \A q \in Procs : cmd'[q] = Shaken(q, locked)
  BY DEF NodeRestart
<1> QED
  BY <1>1, NodeDeliver

(* A named coin is an outpoint.                                             *)
LEMMA NamedHeights ==
  ASSUME NEW c \in Requests, NEW o \in Named(c)
  PROVE  o.height \in Nat
<1>1. PICK A : A = [height : Nat, vout : Nat]
  OBVIOUS
<1>2. PICK s : s = c.named /\ s \in Seq(A)
  BY <1>1 DEF Requests
<1>3. o \in A
  BY <1>2, SetOfSeq DEF Named
<1> QED
  BY <1>1, <1>3

(* What the index says of the coins named holds now, if they are unspent:   *)
(* it may lag, but nothing has moved their tokens since.                    *)
LEMMA CheckHolds ==
  ASSUME LockInv, FundInv, DeliverInv, NEW c \in Requests, MixHolds(Index, c)
  PROVE  /\ \A o \in Named(c) : o.height <= height
         /\ Named(c) \subseteq Unspent => MixHolds(dbs[height], c)
<1>1. height \in Nat /\ indexed \in 0..height /\ Steady /\ TablesUpTo(dbs[indexed], indexed)
  BY DEF LockInv, Past, FundInv, ChainOK, DeliverInv
<1>2. PICK d : d = dbs[indexed] /\ TablesUpTo(d, indexed) /\ MixHolds(d, c)
  BY <1>1 DEF Index
<1>3. ASSUME NEW o \in Named(c) PROVE o.height <= indexed /\ o.height \in Nat
  <2>1. Chain!UnspentGroups(d, o) # {}
    BY <1>2 DEF MixHolds
  <2>2. PICK u \in d.utxos : u.out = o
    BY <2>1 DEF Chain!UnspentGroups
  <2> QED
    BY <1>2, <2>2, NamedHeights DEF TablesUpTo
<1>4. \A o \in Named(c) : o.height <= height
  BY <1>1, <1>3
<1>5. ASSUME Named(c) \subseteq Unspent PROVE MixHolds(dbs[height], c)
  <2>1. \A o \in Named(c) : Facts!AgreeAt(d, dbs[height], o)
    BY <1>1, <1>2, <1>3, <1>5 DEF Steady
  <2> QED
    BY <1>2, <2>1, HoldsAgree
<1> QED
  BY <1>4, <1>5

LEMMA CheckNamedDeliver == ASSUME LockInv, FundInv, DeliverInv, NEW p \in Procs, CheckNamed(p) PROVE DeliverInv'
<1> DEFINE c == cmd[p].order
<1>1. DOMAIN cmd = Procs /\ cmd[p].pc = "check" /\ DOMAIN cmd[p] = Fields /\ Live(p)
  BY DEF LockInv, Shape, CheckNamed, At, Live
<1>2. UNCHANGED << node, sent >>
  BY DEF CheckNamed
<1>3. CASE End(p)
  BY <1>2, <1>3, EndDeliver
<1>4. CASE /\ \A o \in Named(c) : IsIndexed(o)
           /\ c.kind = "mix" => CountSuffices(c.msg, Total(NamedTokens(c)))
           /\ Goto(p, "list")
  <2>1. /\ \A q \in Procs \ {p} : cmd'[q] = cmd[q]
        /\ cmd'[p].pc = "list" /\ cmd'[p].order = c /\ cmd'[p].tx = cmd[p].tx
    BY <1>1, <1>4 DEF Fields, Goto
  <2>2. Arranged(p)'
    <3>1. Arranged(p)
      BY DEF DeliverInv
    <3> QED
      BY <1>1, <2>1, <3>1 DEF Arranged
  <2>3. c \in Requests
    BY <1>1, WalletConstants DEF FundInv, Orderly
  <2>4. c.kind = "mix" => MixHolds(Index, c)
    BY <1>4 DEF MixHolds, NamedIn, NamedTokens, IsIndexed
  <2>5. height' = height /\ dbs' = dbs /\ Unspent' = Unspent
    BY <1>2, SameNode DEF node
  <2>6. Checked(p)'
    BY <2>1, <2>3, <2>4, <2>5, CheckHolds DEF Checked
  <2> QED
    BY <1>2, <2>1, <2>2, <2>6, OwnStep
<1> QED
  BY <1>3, <1>4 DEF CheckNamed

(* A coin of an earlier block is unspent after a transaction only if it was *)
(* and the transaction leaves it.                                           *)
LEMMA StillUnspent ==
  ASSUME LockInv, NEW tx, NEW h, h = height + 1, NEW S, SpendCoins(tx, h, S),
         NEW o \in Unspent', o.height <= height
  PROVE  o \in Unspent /\ o \notin S
<1>1. height \in Nat /\ \A c \in coins : DOMAIN c = {"out", "script", "spent"}
  BY DEF LockInv, Past
<1>2. PICK z \in coins' : z.out = o /\ ~z.spent
  BY DEF Unspent
<1>3. CASE \E c \in coins : z = IF c.out \in S THEN [c EXCEPT !.spent = TRUE] ELSE c
  <2>1. PICK c \in coins : z = IF c.out \in S THEN [c EXCEPT !.spent = TRUE] ELSE c
    BY <1>3
  <2>2. CASE c.out \in S
    <3>1. z.spent = TRUE
      BY <1>1, <2>1, <2>2
    <3> QED
      BY <1>2, <3>1
  <2>3. CASE c.out \notin S
    BY <1>2, <2>1, <2>3 DEF Unspent
  <2> QED
    BY <2>2, <2>3
<1>4. CASE z \in {[out |-> p, script |-> Chain!ScriptAt(tx, p.vout), spent |-> FALSE]
                  : p \in Chain!OutsOf(h, tx)}
  <2>1. z.out \in Chain!OutsOf(h, tx)
    BY <1>4
  <2>2. z.out.height = h
    BY <2>1 DEF Chain!OutsOf, Chain!Out
  <2> QED
    BY <1>1, <1>2, <2>2
<1> QED
  BY <1>2, <1>3, <1>4 DEF SpendCoins

(* The tables of a new block give the coins it leaves what they had.        *)
LEMMA BlockKeeps ==
  ASSUME LockInv, FundInv, DeliverInv, NEW tx, Facts!Allowed(tx), NEW h, h = height + 1, height' = h,
         NEW S, S = ToSet(tx.ins), SpendCoins(tx, h, S),
         dbs' = [k \in 0..h |-> IF k = h THEN Chain!ParseTx(dbs[height], tx, h) ELSE dbs[k]]
  PROVE  /\ dbs'[h] = Facts!ParseTx(dbs[height], tx, h)
         /\ GroundedNow' /\ Steady'
         /\ \A o \in Unspent' : o.height <= height => Facts!AgreeAt(dbs[height], dbs'[h], o)
<1>1. /\ height \in Nat /\ h \in Nat /\ h \in 0..h
      /\ \A k \in 0..height : dbs'[k] = dbs[k]
  <2>1. height \in Nat /\ h \in Nat /\ \A k \in 0..height : dbs'[k] = dbs[k]
    BY TablesAfter
  <2> QED
    BY <2>1
<1>2. PICK d : d = dbs[height] /\ Facts!Grounded(d, height)
  BY DEF DeliverInv, GroundedNow
<1>3. PICK e : e = Facts!ParseTx(d, tx, h)
  OBVIOUS
<1>4. dbs'[h] = e
  <2>1. e = Chain!ParseTx(dbs[height], tx, h)
    BY <1>2, <1>3, SameParse
  <2>2. dbs' = [k \in 0..h |-> IF k = h THEN e ELSE dbs[k]]
    BY <2>1
  <2> QED
    BY <1>1, <2>2
<1>5. height < h
  BY <1>1
<1>6. Facts!Grounded(e, h)
  BY <1>1, <1>2, <1>3, <1>5, Facts!StaysGrounded, Instance
<1>7. GroundedNow'
  BY <1>4, <1>6 DEF GroundedNow
<1>8. coins' \subseteq [out : Facts!Outpoints, script : OutScripts, spent : BOOLEAN]
  BY <1>1, CoinsAfter
<1>9. ASSUME NEW o \in Unspent', o.height <= height
      PROVE  Facts!AgreeAt(d, e, o)
  <2>1. o \notin S
    BY <1>9, StillUnspent
  <2>2. o \in Facts!Outpoints
    BY <1>8 DEF Unspent
  <2>3. o \notin Facts!ToSet(tx.ins)
    BY <2>1, SameExpand
  <2> QED
    BY <1>1, <1>2, <1>3, <1>5, <1>9, <2>2, <2>3, Facts!OthersStay, Instance
<1>10. Steady'
  <2> SUFFICES ASSUME NEW j \in 0..h, NEW o \in Unspent', o.height <= j
               PROVE  Facts!AgreeAt(dbs'[j], e, o)
    BY <1>4 DEF Steady
  <2>1. CASE j = h
    BY <1>4, <2>1 DEF Facts!AgreeAt
  <2>2. CASE j # h
    <3>1. j \in 0..height /\ dbs'[j] = dbs[j]
      BY <1>1, <2>2
    <3>2. o.height <= height
      <4>1. o.height \in Nat
        BY <1>8 DEF Unspent, Facts!Outpoints
      <4> QED
        BY <1>1, <3>1, <4>1
    <3>3. o \in Unspent
      BY <3>2, StillUnspent
    <3>4. Facts!AgreeAt(dbs[j], d, o)
      BY <1>2, <3>1, <3>3 DEF DeliverInv, Steady
    <3>5. Facts!AgreeAt(d, e, o)
      BY <1>9, <3>2
    <3>6. Facts!AgreeAt(dbs[j], e, o)
      BY <3>4, <3>5 DEF Facts!AgreeAt
    <3> QED
      BY <3>1, <3>6
  <2> QED
    BY <2>1, <2>2
<1> QED
  BY <1>2, <1>3, <1>4, <1>7, <1>9, <1>10

(* What another Mix has been told stands while its coins are unspent.       *)
LEMMA OvertakenDeliver ==
  ASSUME LockInv, FundInv, DeliverInv, NEW tx, Facts!Allowed(tx), NEW h, h = height + 1, height' = h,
         NEW S, S = ToSet(tx.ins), SpendCoins(tx, h, S),
         dbs' = [k \in 0..h |-> IF k = h THEN Chain!ParseTx(dbs[height], tx, h) ELSE dbs[k]],
         NEW q \in Procs, cmd'[q] = Overtaken(q)
  PROVE  Arranged(q)' /\ Checked(q)'
<1>1. CASE ~Live(q)
  <2>1. cmd'[q] = cmd[q]
    BY <1>1 DEF Overtaken, Relying
  <2>2. ~Live(q)'
    BY <1>1, <2>1 DEF Live
  <2> QED
    BY <2>2 DEF Arranged, Checked
<1>2. CASE Live(q)
  <2>1. cmd'[q].pc = cmd[q].pc /\ cmd'[q].order = cmd[q].order /\ cmd'[q].tx = cmd[q].tx
    BY <1>2, OthersKeep
  <2>2. Arranged(q) /\ Checked(q)
    BY DEF DeliverInv
  <2>3. Arranged(q)'
    BY <1>2, <2>1, <2>2 DEF Arranged
  <2>4. ASSUME cmd[q].order.kind = "mix", cmd[q].pc # "check", NEW c, c = cmd[q].order
        PROVE  /\ \A o \in Named(c) : o.height <= height /\ o.height <= h
               /\ Named(c) \subseteq Unspent' => MixHolds(dbs'[h], c)
    <3>1. c \in Requests
      BY <1>2, <2>4, WalletConstants DEF FundInv, Orderly
    <3>2. /\ \A o \in Named(c) : o.height <= height
          /\ Named(c) \subseteq Unspent => MixHolds(dbs[height], c)
      BY <1>2, <2>2, <2>4 DEF Checked
    <3>3. \A o \in Unspent' : o.height <= height => Facts!AgreeAt(dbs[height], dbs'[h], o)
      BY BlockKeeps
    <3>4. ASSUME Named(c) \subseteq Unspent' PROVE MixHolds(dbs'[h], c)
      <4>1. Named(c) \subseteq Unspent
        BY <3>2, <3>4, StillUnspent
      <4>2. \A o \in Named(c) : Facts!AgreeAt(dbs[height], dbs'[h], o)
        BY <3>2, <3>3, <3>4
      <4> QED
        BY <3>1, <3>2, <4>1, <4>2, HoldsAgree
    <3>5. \A o \in Named(c) : o.height <= h
      <4>1. height \in Nat
        BY DEF LockInv, Past
      <4> QED
        BY <3>1, <3>2, <4>1, NamedHeights
    <3> QED
      BY <3>2, <3>4, <3>5
  <2>5. Checked(q)'
    BY <2>1, <2>4 DEF Checked
  <2> QED
    BY <2>3, <2>5
<1> QED
  BY <1>1, <1>2

(* The transaction of a calm command does what it was asked.                *)
LEMMA SentArrives ==
  ASSUME LockInv, FundInv, DeliverInv, NEW p \in Procs, cmd[p].pc = "sign", cmd[p].calm,
         NEW tx, tx = cmd[p].tx, Facts!Allowed(tx), ToSet(tx.ins) \subseteq Unspent,
         NEW h, h = height + 1, NEW d, d = dbs[height]
  PROVE  Reaches(d, Facts!ParseTx(d, tx, h), h, cmd[p].order, tx)
<1>1. PICK c : c = cmd[p].order
  OBVIOUS
<1>2. Live(p) /\ Orderly(p) /\ Informed(p) /\ Arranged(p) /\ Checked(p)
  BY DEF FundInv, DeliverInv, Live
<1>3. c \in Requests
  BY <1>1, <1>2, WalletConstants DEF Orderly
<1>4. CASE c.kind = "amount"
  BY <1>1, <1>4 DEF Reaches
<1>5. CASE c.kind # "amount"
  <2>1. Drafted(c, tx)
    BY <1>1, <1>2 DEF Arranged, Orderly
  <2>2. Plain(d, c, tx)
    BY <1>1, <1>2, <1>5 DEF Informed, Plain, Carries
  <2>3. c.kind = "mix" => MixHolds(d, c)
    BY <1>1, <1>2, <2>1 DEF Checked, Drafted
  <2>4. height \in Nat /\ h \in Nat /\ height < h
    BY DEF LockInv, Past
  <2>5. Facts!Grounded(d, height)
    BY DEF DeliverInv, GroundedNow
  <2> QED
    BY <1>1, <1>3, <2>1, <2>2, <2>3, <2>4, <2>5, Arrives
<1> QED
  BY <1>4, <1>5

LEMMA BroadcastDeliver == ASSUME LockInv, FundInv, DeliverInv, NEW p \in Procs, Broadcast(p) PROVE DeliverInv'
<1> DEFINE tx == cmd[p].tx
           h  == height + 1
           S  == ToSet(tx.ins)
           new == [order |-> cmd[p].order, tx |-> tx, height |-> h, calm |-> cmd[p].calm]
<1>1. cmd[p].pc = "sign"
  BY DEF Broadcast, At
<1>2. CASE End(p) /\ UNCHANGED << node, locked, sent >>
  BY <1>2, EndDeliver
<1>3. CASE /\ S \subseteq Unspent
           /\ height' = h
           /\ coins' = {IF c.out \in S THEN [c EXCEPT !.spent = TRUE] ELSE c : c \in coins}
                       \cup {[out |-> o, script |-> Chain!ScriptAt(tx, o.vout), spent |-> FALSE]
                             : o \in Chain!OutsOf(h, tx)}
           /\ dbs' = [k \in 0..h |-> IF k = h THEN Chain!ParseTx(dbs[height], tx, h) ELSE dbs[k]]
           /\ sent' = sent \cup {new}
           /\ cmd' = [q \in Procs |-> IF q = p THEN Done ELSE Overtaken(q)]
  <2>1. Live(p) /\ Orderly(p)
    BY <1>1 DEF FundInv, Live
  <2>2. Facts!Allowed(tx)
    BY <1>1, <2>1, SendableAllowed DEF Orderly
  <2>3. PICK t, H, Z, n : t = tx /\ H = h /\ Z = S /\ n = new
    OBVIOUS
  <2>4. SpendCoins(t, H, Z)
    <3>1. SpendCoins(tx, h, S)
      BY <1>3 DEF SpendCoins
    <3> QED
      BY <2>3, <3>1
  <2>5. /\ n.order = cmd[p].order /\ n.tx = t /\ n.height = H /\ n.calm = cmd[p].calm
        /\ sent' = sent \cup {n}
    BY <1>3, <2>3
  <2>6. /\ Facts!Allowed(t) /\ H = height + 1 /\ height' = H /\ Z = ToSet(t.ins) /\ Z \subseteq Unspent
        /\ dbs' = [k \in 0..H |-> IF k = H THEN Chain!ParseTx(dbs[height], t, H) ELSE dbs[k]]
        /\ cmd'[p] = Done /\ \A q \in Procs \ {p} : cmd'[q] = Overtaken(q)
    BY <1>3, <2>2, <2>3
  <2>7. t = cmd[p].tx
    BY <2>3
  <2> HIDE DEF tx, h, S, new
  <2>8. PICK e : e = Facts!ParseTx(dbs[height], t, H)
    OBVIOUS
  <2>9. dbs'[H] = e /\ GroundedNow' /\ Steady'
    BY <2>4, <2>6, <2>8, BlockKeeps
  <2>10. ASSUME NEW q \in Procs PROVE Arranged(q)' /\ Checked(q)'
    <3>1. CASE q = p
      <4>1. ~Live(q)'
        BY <2>6, <3>1 DEF Live, Done
      <4> QED
        BY <4>1 DEF Arranged, Checked
    <3>2. CASE q # p
      BY <2>4, <2>6, <3>2, OvertakenDeliver
    <3> QED
      BY <3>1, <3>2
  <2>11. height \in Nat /\ \A k \in 0..height : dbs'[k] = dbs[k]
    BY <2>6, TablesAfter
  <2>12. ASSUME NEW s \in sent, s.calm
         PROVE  Reaches(dbs'[s.height - 1], dbs'[s.height], s.height, s.order, s.tx)
    <3>1. s.height \in 1..height
      BY DEF FundInv, SentOK
    <3>2. dbs'[s.height - 1] = dbs[s.height - 1] /\ dbs'[s.height] = dbs[s.height]
      BY <2>11, <3>1
    <3> QED
      BY <2>12, <3>2 DEF DeliverInv, AllReach
  <2>13. ASSUME n.calm
         PROVE  Reaches(dbs'[n.height - 1], dbs'[n.height], n.height, n.order, n.tx)
    <3>1. PICK d : d = dbs[height]
      OBVIOUS
    <3>2. Reaches(d, e, H, cmd[p].order, t)
      BY <1>1, <2>5, <2>6, <2>7, <2>8, <2>13, <3>1, SentArrives
    <3>3. n.height - 1 = height /\ height \in 0..height
      BY <2>5, <2>6, <2>11
    <3>4. dbs'[n.height - 1] = d
      BY <2>11, <3>1, <3>3
    <3> QED
      BY <2>5, <2>9, <3>2, <3>4
  <2>14. AllReach'
    BY <2>5, <2>12, <2>13 DEF AllReach
  <2> QED
    BY <2>9, <2>10, <2>14 DEF DeliverInv
<1> QED
  BY <1>2, <1>3 DEF Broadcast

(* The deposits give an output its ranges, in the tables of every height    *)
(* since its own.                                                           *)
LEMMA DepositCarries ==
  ASSUME NEW k \in 0..Len(Deposits), NEW o \in DepositOuts(Len(Deposits)), o.height <= k
  PROVE  /\ Facts!RangesAt(DepositDb(k), o) = Deposited(o)
         /\ Facts!UnspentGroups(DepositDb(k), o) = Chain!GroupsOf(Deposited(o))
<1> DEFINE outs == {p \in DepositOuts(k) : Deposited(p) # << >>}
           row(p, g) == [out |-> p, group |-> g, owner |-> Own, created |-> p.height, spent |-> FALSE]
           rows == UNION {{row(p, g) : g \in Chain!GroupsOf(Deposited(p))} : p \in outs}
           ranges == [p \in outs |-> Deposited(p)]
<1>1. DepositDb(k) = [utxos |-> rows, ranges |-> ranges]
  BY DEF DepositDb
<1>2. o \in DepositOuts(k)
  <2>1. PICK h \in 1..Len(Deposits) : o \in {Chain!Out(h, v - 1) : v \in 1..Len(Deposits[h])}
    BY DEF DepositOuts
  <2>2. o.height = h
    BY <2>1 DEF Chain!Out
  <2>3. h \in 1..k
    BY <2>2, WalletConstants
  <2> QED
    BY <2>1, <2>3 DEF DepositOuts
<1>3. o \in outs <=> Deposited(o) # << >>
  BY <1>2
<1>4. PICK R, T : R = ranges /\ T = rows /\ DepositDb(k).ranges = R /\ DepositDb(k).utxos = T
  <2>1. DepositDb(k).ranges = ranges /\ DepositDb(k).utxos = rows
    BY <1>1
  <2> HIDE DEF ranges, rows
  <2> QED
    BY <2>1
<1>5. Facts!RangesAt(DepositDb(k), o) = Deposited(o)
  <2>1. DOMAIN R = outs /\ \A p \in outs : R[p] = Deposited(p)
    BY <1>4
  <2> HIDE DEF outs
  <2> QED
    BY <1>3, <1>4, <2>1 DEF Facts!RangesAt
<1>6. \A p, g : /\ row(p, g).out = p /\ row(p, g).group = g /\ ~row(p, g).spent
  OBVIOUS
<1>7. Facts!UnspentGroups(DepositDb(k), o) = {u.group : u \in {u \in T : u.out = o /\ ~u.spent}}
  BY <1>4 DEF Facts!UnspentGroups
<1>8. \A u : u \in T <=> \E p \in outs : \E g \in Chain!GroupsOf(Deposited(p)) : u = row(p, g)
  <2> HIDE DEF outs, row
  <2> QED
    BY <1>4
<1> HIDE DEF row, outs, rows, ranges
<1>9. ASSUME NEW g \in Chain!GroupsOf(Deposited(o)) PROVE \E u \in T : u.out = o /\ ~u.spent /\ u.group = g
  <2>1. Deposited(o) # << >>
    BY <1>9 DEF Chain!GroupsOf, Chain!ToSet
  <2>2. row(o, g) \in T
    BY <1>3, <1>8, <2>1
  <2> QED
    BY <1>6, <2>2
<1>10. ASSUME NEW u \in T, u.out = o PROVE u.group \in Chain!GroupsOf(Deposited(o))
  <2>1. PICK p \in outs : \E g \in Chain!GroupsOf(Deposited(p)) : u = row(p, g)
    BY <1>8
  <2>2. PICK g \in Chain!GroupsOf(Deposited(p)) : u = row(p, g)
    BY <2>1
  <2>3. u.out = p /\ u.group = g
    BY <1>6, <2>2
  <2> QED
    BY <1>10, <2>2, <2>3
<1>11. Facts!UnspentGroups(DepositDb(k), o) = Chain!GroupsOf(Deposited(o))
  BY <1>7, <1>9, <1>10
<1> QED
  BY <1>5, <1>11

(* ... and every row of the tables has a range.                             *)
LEMMA DepositsGrounded ==
  Facts!Grounded(DepositDb(Len(Deposits)), Len(Deposits))
<1> DEFINE n == Len(Deposits)
           d == DepositDb(n)
<1>1. n \in Nat /\ n \in 0..n
  BY WalletConstants
<1>2. d \in Facts!Dbs /\ \A u \in d.utxos : u.out.height <= n
  BY <1>1, DepositTables DEF TablesUpTo
<1>3. /\ \A u \in d.utxos : u.out \in DepositOuts(n) /\ u.group \in Chain!GroupsOf(Deposited(u.out))
      /\ DOMAIN d.ranges \subseteq DepositOuts(n)
  BY DEF DepositDb
<1> HIDE DEF d, n
<1>4. ASSUME NEW u \in d.utxos PROVE \E r \in Facts!ToSet(Facts!RangesAt(d, u.out)) : r.group = u.group
  <2>1. u.out \in DepositOuts(n) /\ u.out.height <= n
    BY <1>2, <1>3
  <2>2. Facts!RangesAt(d, u.out) = Deposited(u.out)
    BY <1>1, <2>1, DepositCarries DEF d, n
  <2>3. PICK r \in Chain!ToSet(Deposited(u.out)) : r.group = u.group
    BY <1>3 DEF Chain!GroupsOf
  <2>4. r \in Facts!ToSet(Deposited(u.out))
    BY <2>3 DEF Chain!ToSet, Facts!ToSet
  <2> QED
    BY <2>2, <2>3, <2>4
<1>5. \A o \in DOMAIN d.ranges : o.height <= n
  <2> SUFFICES ASSUME NEW o \in DOMAIN d.ranges PROVE o.height <= n
    OBVIOUS
  <2>1. o.height \in 1..n
    BY <1>1, <1>3, DepositFacts DEF n
  <2> QED
    BY <1>1, <2>1
<1>6. Facts!Grounded(d, n)
  BY <1>2, <1>4, <1>5 DEF Facts!Grounded
<1> QED
  BY <1>6 DEF d, n

(* A chain of deposits on which nothing has been sent.                       *)
LEMMA InitDeliverInv == Init => DeliverInv
<1> SUFFICES ASSUME Init PROVE DeliverInv
  OBVIOUS
<1> DEFINE n == Len(Deposits)
           D == DepositOuts(n)
<1>1. n \in Nat /\ height = n /\ \A k \in 0..n : dbs[k] = DepositDb(k)
  BY WalletConstants DEF Init
<1>2. n \in 0..n
  BY <1>1
<1>3. Unspent \subseteq D
  <2> SUFFICES ASSUME NEW c \in coins PROVE c.out \in D
    BY DEF Unspent
  <2>1. PICK o \in D : c = [out |-> o, script |-> Own, spent |-> FALSE]
    BY DEF Init
  <2> QED
    BY <2>1
<1> HIDE DEF D
<1>4. GroundedNow
  BY <1>1, <1>2, DepositsGrounded DEF GroundedNow
<1>5. ASSUME NEW j \in 0..n, NEW o \in D, o.height <= j
      PROVE  Facts!AgreeAt(DepositDb(j), DepositDb(n), o)
  <2>1. o.height <= n
    <3>1. o.height \in 1..n
      BY <1>2, DepositFacts DEF D
    <3> QED
      BY <1>1, <3>1
  <2>2. /\ Facts!RangesAt(DepositDb(j), o) = Deposited(o)
        /\ Facts!UnspentGroups(DepositDb(j), o) = Chain!GroupsOf(Deposited(o))
    BY <1>5, DepositCarries DEF D
  <2>3. /\ Facts!RangesAt(DepositDb(n), o) = Deposited(o)
        /\ Facts!UnspentGroups(DepositDb(n), o) = Chain!GroupsOf(Deposited(o))
    BY <1>2, <2>1, DepositCarries DEF D
  <2> QED
    BY <2>2, <2>3 DEF Facts!AgreeAt, Facts!UnspentRanges
<1>6. Steady
  BY <1>1, <1>2, <1>3, <1>5 DEF Steady
<1>7. AllReach
  BY DEF Init, AllReach
<1>8. \A p \in Procs : Arranged(p) /\ Checked(p)
  <2>1. \A p \in Procs : ~Live(p)
    BY DEF Init, Idle, Live
  <2> QED
    BY <2>1 DEF Arranged, Checked
<1> QED
  BY <1>4, <1>6, <1>7, <1>8 DEF DeliverInv

LEMMA NextDeliverInv == LockInv /\ FundInv /\ DeliverInv /\ [Next]_vars => DeliverInv'
<1> SUFFICES ASSUME LockInv, FundInv, DeliverInv, [Next]_vars PROVE DeliverInv'
  OBVIOUS
<1>1. ASSUME NEW p \in Procs, Start(p) PROVE DeliverInv'
  BY <1>1, StartDeliver
<1>2. ASSUME NEW p \in Procs, CheckNamed(p) PROVE DeliverInv'
  BY <1>2, CheckNamedDeliver
<1>3. ASSUME NEW p \in Procs, ListUnspent(p) PROVE DeliverInv'
  BY <1>3, ListUnspentDeliver
<1>4. ASSUME NEW p \in Procs, ComputeLocks(p) PROVE DeliverInv'
  BY <1>4, ComputeLocksDeliver
<1>5. ASSUME NEW p \in Procs, ListLocked(p) PROVE DeliverInv'
  BY <1>5, ListLockedDeliver
<1>6. ASSUME NEW p \in Procs, Lock(p) PROVE DeliverInv'
  BY <1>6, LockDeliver
<1>7. ASSUME NEW p \in Procs, Fund(p) PROVE DeliverInv'
  BY <1>7, FundDeliver
<1>8. ASSUME NEW p \in Procs, Unlock(p) PROVE DeliverInv'
  BY <1>8, UnlockDeliver
<1>9. ASSUME NEW p \in Procs, Broadcast(p) PROVE DeliverInv'
  BY <1>9, BroadcastDeliver
<1>10. ASSUME NEW p \in Procs, Crash(p) PROVE DeliverInv'
  BY <1>10, CrashDeliver
<1>11. CASE Scan
  BY <1>11, ScanDeliver
<1>12. CASE NodeRestart
  BY <1>12, NodeRestartDeliver
<1>13. CASE UNCHANGED vars
  <2>1. UNCHANGED << node, sent >> /\ \A q \in Procs : cmd'[q] = cmd[q]
    BY <1>13 DEF vars, node
  <2> QED
    BY <2>1, NodeDeliver
<1> QED
  BY <1>1, <1>2, <1>3, <1>4, <1>5, <1>6, <1>7, <1>8, <1>9, <1>10, <1>11, <1>12, <1>13 DEF Next

LEMMA AlwaysDeliverInv == Spec => []DeliverInv
<1>1. Spec => []LockInv /\ []FundInv
  BY AlwaysLockInv, AlwaysFundInv, PTL
<1> QED
  BY <1>1, InitDeliverInv, NextDeliverInv, PTL DEF Spec

LEMMA ReachesIsDelivered ==
  ASSUME NEW s, Reaches(dbs[s.height - 1], dbs[s.height], s.height, s.order, s.tx)
  PROVE  /\ s.order.kind = "assets" => AssetsSent(s)
         /\ s.order.kind = "mix" => AssetsMixed(s)
         /\ s.order.kind = "ownership" => SlotsRegistered(s)
<1>1. \A v : TokensAt(s, v) = TokensOn(dbs[s.height], s.height, v)
  BY DEF TokensAt, TokensOn
<1>2. \A o : Carried(s, o) = Chain!UnspentRanges(dbs[s.height - 1], o)
  BY DEF Carried
<1>3. \A k : MixedTo(s, k) = Share(s.order.msg, k, Expand(NamedIn(dbs[s.height - 1], s.order)))
  BY DEF MixedTo, Carried, Share, Mine, AskedBy, NamedIn
<1>4. ASSUME s.order.kind = "assets" PROVE AssetsSent(s)
  BY <1>1, <1>2, <1>4 DEF AssetsSent, Reaches, AssetsReach
<1>5. ASSUME s.order.kind = "mix" PROVE AssetsMixed(s)
  BY <1>1, <1>3, <1>5 DEF AssetsMixed, Reaches, MixReaches
<1>6. ASSUME s.order.kind = "ownership" PROVE SlotsRegistered(s)
  BY <1>1, <1>6 DEF SlotsRegistered, Reaches, SlotsReach
<1> QED
  BY <1>4, <1>5, <1>6

(* create_psbt_* and the parser agree: what a calm command sends, mixes or  *)
(* registers is on the outputs it was meant for, whatever other commands do *)
(* in between and however Core orders the inputs and places the change.     *)
THEOREM TokensDelivered == Spec => []Delivered
<1>1. DeliverInv => Delivered
  BY ReachesIsDelivered DEF DeliverInv, AllReach, Delivered
<1> QED
  BY <1>1, AlwaysDeliverInv, PTL

=============================================================================
