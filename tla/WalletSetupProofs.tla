-------------------------- MODULE WalletSetupProofs --------------------------
(***************************************************************************)
(* For every set of processes and of seeds: the files belong to one seed,   *)
(* no address is handed out twice, and "ready" is said of a complete wallet *)
(* unless an init was cut in half.                                          *)
(*                                                                          *)
(* The invariant says what a process in the middle of a command still       *)
(* knows of files and wallets that others may change meanwhile.             *)
(***************************************************************************)
EXTENDS WalletSetup, TLAPS

Creating  == {"keycreate", "keywrite"}
InitOnly  == {"create", "setup", "createw", "import", "ready"} \cup Creating
Unwedded  == {"idle", "local", "create"}   \* has no wallet, or is about to get one

(* Only init creates, and only init is given a mnemonic; there is one init  *)
(* and one `wallet address` at a time.                                      *)
Roles ==
  \A p \in Procs : (proc[p].mnemonic \/ proc[p].pc \in InitOnly) => proc[p].cmd = "init"
Alone ==
  \A p, q \in Procs : proc[p].cmd \in {"init", "address"} /\ proc[q].cmd = proc[p].cmd => p = q

(* A process that has loaded or created a wallet has that of the database.  *)
Wedded == \A p \in Procs : proc[p].pc \notin Unwedded => Wallet(p) = walletDb /\ walletDb # None

(* Whoever is about to load, fill or praise a wallet of Core, it exists.    *)
Known == \A p \in Procs : proc[p].pc \in {"loadw", "import", "ready"} => core[Wallet(p)] # "none"

(* A half-made wallet is being completed, or its init was cut.              *)
HalfCore ==
  \A s \in Seeds \ cut : core[s] = "blank" => \E p \in Procs : At(p, "import") /\ Wallet(p) = s
HalfKey ==
  walletDb \notin cut /\ key # walletDb => \E p \in Procs : proc[p].pc \in Creating

(* `wallet address` still has the number the database has.                  *)
IndexFresh ==
  \A p \in Procs : proc[p].cmd = "address" /\ proc[p].pc \notin {"idle", "local"} =>
    proc[p].index = revealed
HandedKnown == \A i \in handed : i < revealed

SetupInv ==
  /\ TypeOK
  /\ Roles /\ Alone /\ Wedded /\ Known
  /\ OneSeed /\ HalfCore /\ HalfKey
  /\ IndexFresh /\ HandedKnown

LEMMA InitSetupInv == Init => SetupInv
<1> SUFFICES ASSUME Init PROVE SetupInv
  OBVIOUS
<1>1. Idle \in Process
  BY SetupConstants DEF Idle, Process, Pc
<1>2. TypeOK
  <2>1. proc \in [Procs -> Process]
    BY <1>1 DEF Init
  <2>2. core \in [Seeds -> {"none", "blank", "watching"}] /\ loaded \subseteq {t \in Seeds : core[t] # "none"}
    BY DEF Init
  <2>3. revealed \in 0..MaxReveal
    BY SetupConstants DEF Init
  <2> QED
    BY <2>1, <2>2, <2>3, Zenon DEF Init, TypeOK
<1>3. \A p \in Procs : proc[p].pc = "idle" /\ proc[p].cmd = "none" /\ proc[p].mnemonic = FALSE
  BY DEF Init, Idle
<1>4. Roles /\ Alone /\ Wedded /\ Known /\ IndexFresh
  BY <1>3 DEF Roles, Alone, Wedded, Known, IndexFresh, InitOnly, Creating, Unwedded
<1>5. OneSeed /\ HalfCore /\ HalfKey /\ HandedKnown
  BY DEF Init, OneSeed, HalfCore, HalfKey, HandedKnown
<1> QED
  BY <1>2, <1>4, <1>5 DEF SetupInv

LEMMA StartInv ==
  ASSUME SetupInv, NEW p \in Procs, NEW cmd \in Commands, NEW m \in BOOLEAN, Start(p, cmd, m)
  PROVE  SetupInv'
<1> DEFINE new == [pc |-> "local", cmd |-> cmd, mnemonic |-> m, wallet |-> None, index |-> 0]
<1> USE DEF SetupInv, Start, files, node, hist, At, Wallet
<1>1. proc' = [proc EXCEPT ![p] = new]
  BY Zenon
<1>2. TypeOK'
  <2>1. new \in Process
    BY SetupConstants DEF Process, Pc
  <2> QED
    BY <1>1, <2>1 DEF TypeOK
<1>3. Roles' /\ Alone'
  BY <1>1 DEF TypeOK, Roles, Alone, InitOnly, Creating
<1>4. Wedded' /\ Known' /\ OneSeed'
  BY <1>1 DEF TypeOK, Wedded, Known, OneSeed, Unwedded
<1>5. HalfCore' /\ HalfKey'
  BY <1>1 DEF TypeOK, HalfCore, HalfKey, Creating
<1>6. IndexFresh' /\ HandedKnown'
  BY <1>1 DEF TypeOK, IndexFresh, HandedKnown
<1> QED
  BY <1>2, <1>3, <1>4, <1>5, <1>6

-----------------------------------------------------------------------------
(* What a move of one process leaves alone.                                *)
LEMMA MoveFacts ==
  ASSUME TypeOK, NEW p \in Procs, NEW x \in Pc, proc' = [proc EXCEPT ![p].pc = x]
  PROVE  /\ proc' \in [Procs -> Process]
         /\ proc'[p].pc = x /\ proc'[p].cmd = proc[p].cmd
         /\ proc'[p].mnemonic = proc[p].mnemonic
         /\ proc'[p].wallet = proc[p].wallet /\ proc'[p].index = proc[p].index
         /\ \A q \in Procs \ {p} : proc'[q] = proc[q]
  BY DEF TypeOK, Process

LEMMA DoneFacts ==
  ASSUME TypeOK, NEW p \in Procs, Done(p)
  PROVE  /\ proc' \in [Procs -> Process]
         /\ proc'[p] = Idle
         /\ \A q \in Procs \ {p} : proc'[q] = proc[q]
<1>1. Idle \in Process
  BY SetupConstants DEF Idle, Process, Pc
<1> QED
  BY <1>1 DEF TypeOK, Done

(* A process that moves on outside the halves of an init.                  *)
LEMMA MoveInv ==
  ASSUME SetupInv, NEW p \in Procs, NEW x \in Pc, GoTo(p, x),
         UNCHANGED << files, core, calm >>,
         loaded' \subseteq {s \in Seeds : core[s] # "none"},
         proc[p].pc \notin Creating \cup {"import", "idle"},
         x \notin Creating \cup {"import", "local"},
         x \in InitOnly => proc[p].cmd = "init",
         x \notin Unwedded => proc[p].pc \notin Unwedded,
         x \in {"loadw", "ready"} => core[Wallet(p)] # "none",
         proc[p].pc = "local" => proc[p].cmd = "init"
  PROVE  SetupInv'
<1> USE DEF SetupInv, GoTo, files, hist, At, Wallet
<1>1. /\ proc' \in [Procs -> Process]
      /\ proc'[p].pc = x /\ proc'[p].cmd = proc[p].cmd
      /\ proc'[p].mnemonic = proc[p].mnemonic
      /\ proc'[p].wallet = proc[p].wallet /\ proc'[p].index = proc[p].index
      /\ \A q \in Procs \ {p} : proc'[q] = proc[q]
  BY MoveFacts
<1> HIDE DEF GoTo
<1>2. UNCHANGED hist
  BY DEF GoTo
<1>3. TypeOK'
  BY <1>1, <1>2, Zenon DEF TypeOK
<1>4. Roles' /\ Alone'
  BY <1>1, <1>2 DEF Roles, Alone, InitOnly, Creating
<1>5. Wedded' /\ Known' /\ OneSeed'
  BY <1>1, <1>2 DEF Wedded, Known, OneSeed, Creating, Unwedded
<1>6. HalfCore' /\ HalfKey'
  BY <1>1, <1>2 DEF HalfCore, HalfKey, Creating
<1>7. IndexFresh' /\ HandedKnown'
  BY <1>1, <1>2 DEF IndexFresh, HandedKnown
<1> QED
  BY <1>3, <1>4, <1>5, <1>6, <1>7

(* A process that ends; if it was half way, that is on record.             *)
LEMMA GiveUpInv ==
  ASSUME SetupInv, NEW p \in Procs, GiveUp(p), ~At(p, "idle"), UNCHANGED << files, core, calm >>,
         loaded' \subseteq {s \in Seeds : core[s] # "none"}
  PROVE  SetupInv'
<1> USE DEF SetupInv, GiveUp, files, At, Wallet
<1>1. /\ proc' \in [Procs -> Process]
      /\ proc'[p] = Idle
      /\ \A q \in Procs \ {p} : proc'[q] = proc[q]
  BY DoneFacts
<1>2. Idle.pc = "idle" /\ Idle.cmd = "none" /\ Idle.mnemonic = FALSE
  BY DEF Idle
<1>3. /\ cut \subseteq cut' /\ UNCHANGED handed
      /\ proc[p].pc \in Creating \cup {"import"} => Wallet(p) \in cut'
  BY DEF HalfWay, Creating
<1>4. TypeOK'
  <2>1. cut' \subseteq Seeds
    <3>1. HalfWay(p) => Wallet(p) \in Seeds
      BY DEF HalfWay, TypeOK, Wedded, Unwedded
    <3> QED
      BY <3>1 DEF TypeOK
  <2> QED
    BY <1>1, <1>3, <2>1, Zenon DEF TypeOK
<1>5. Roles' /\ Alone'
  BY <1>1, <1>2 DEF Roles, Alone, InitOnly, Creating
<1>6. Wedded' /\ Known' /\ OneSeed'
  BY <1>1, <1>2 DEF Wedded, Known, OneSeed, Unwedded
<1>7. HalfCore' /\ HalfKey'
  BY <1>1, <1>2, <1>3 DEF HalfCore, HalfKey, Creating, Wedded, Unwedded
<1>8. IndexFresh' /\ HandedKnown'
  BY <1>1, <1>2, <1>3 DEF IndexFresh, HandedKnown
<1> QED
  BY <1>4, <1>5, <1>6, <1>7, <1>8

(* ... and one that ends well, perhaps having revealed an address.         *)
LEMMA DoneInv ==
  ASSUME SetupInv, NEW p \in Procs, Done(p), proc[p].pc \in {"run", "ready"},
         UNCHANGED << walletDb, key, core, calm, cut >>,
         loaded' \subseteq {s \in Seeds : core[s] # "none"},
         \/ UNCHANGED << revealed, handed >>
         \/ /\ Runs(p, "address") /\ proc[p].index < MaxReveal
            /\ revealed' = proc[p].index + 1
            /\ handed' = handed \cup {proc[p].index}
  PROVE  SetupInv'
<1> USE DEF SetupInv, At, Wallet
<1>1. /\ proc' \in [Procs -> Process]
      /\ proc'[p] = Idle
      /\ \A q \in Procs \ {p} : proc'[q] = proc[q]
  BY DoneFacts
<1>2. Idle.pc = "idle" /\ Idle.cmd = "none" /\ Idle.mnemonic = FALSE
  BY DEF Idle
<1>3. revealed \in 0..MaxReveal /\ handed \subseteq 0..MaxReveal /\ MaxReveal \in Nat
  BY SetupConstants DEF TypeOK
<1>4. Runs(p, "address") => proc[p].index = revealed
  BY DEF Runs, IndexFresh
<1>5. TypeOK'
  <2>1. revealed' \in 0..MaxReveal /\ handed' \subseteq 0..MaxReveal
    BY <1>3, <1>4
  <2> QED
    BY <1>1, <2>1, Zenon DEF TypeOK
<1>6. Roles' /\ Alone'
  BY <1>1, <1>2 DEF Roles, Alone, InitOnly, Creating
<1>7. Wedded' /\ Known' /\ OneSeed'
  BY <1>1, <1>2 DEF Wedded, Known, OneSeed, Unwedded
<1>8. HalfCore' /\ HalfKey'
  BY <1>1, <1>2 DEF HalfCore, HalfKey, Creating
<1>9. IndexFresh' /\ HandedKnown'
  <2>1. HandedKnown
    OBVIOUS
  <2>2. CASE UNCHANGED << revealed, handed >>
    BY <1>1, <1>2, <2>1, <2>2 DEF IndexFresh, HandedKnown
  <2>3. CASE /\ Runs(p, "address")
             /\ revealed' = proc[p].index + 1
             /\ handed' = handed \cup {proc[p].index}
    <3>1. HandedKnown'
      <4>1. revealed' = revealed + 1 /\ handed' = handed \cup {revealed}
        BY <1>4, <2>3
      <4> QED
        BY <1>3, <2>1, <4>1 DEF HandedKnown
    <3>2. IndexFresh'
      BY <1>1, <1>2, <2>3 DEF IndexFresh, Runs, Alone
    <3> QED
      BY <3>1, <3>2
  <2> QED
    BY <2>2, <2>3
<1> QED
  BY <1>5, <1>6, <1>7, <1>8, <1>9

-----------------------------------------------------------------------------
(* Brc721Wallet::load and the end of every command that fails.             *)
LEMMA LoadFailedInv ==
  ASSUME SetupInv, NEW p \in Procs, LoadFailed(p),
         proc[p].pc \in {"local", "list", "loadw"}, UNCHANGED << files, node, calm >>
  PROVE  SetupInv'
<1>1. CASE proc[p].mnemonic
  <2>1. proc[p].cmd = "init" /\ GoTo(p, "create")
    BY <1>1 DEF LoadFailed, SetupInv, Roles
  <2>2. "create" \in Pc
    BY DEF Pc
  <2> QED
    BY <2>1, <2>2, MoveInv DEF node, SetupInv, TypeOK, Creating, Unwedded
<1>2. CASE ~proc[p].mnemonic
  <2>1. GiveUp(p)
    BY <1>2 DEF LoadFailed
  <2> QED
    BY <2>1, GiveUpInv DEF node, SetupInv, TypeOK, At
<1> QED
  BY <1>1, <1>2

LEMMA LoadLocalInv ==
  ASSUME SetupInv, NEW p \in Procs, LoadLocal(p)
  PROVE  SetupInv'
<1>1. CASE LoadFailed(p)
  BY <1>1, LoadFailedInv DEF LoadLocal, At
<1>2. CASE /\ walletDb # None
           /\ proc' = [proc EXCEPT ![p].pc = "list", ![p].wallet = walletDb,
                        ![p].index = IF proc[p].cmd = "address" THEN revealed ELSE 0]
           /\ UNCHANGED hist
  <2> USE DEF SetupInv, files, node, hist, At, Wallet
  <2>1. UNCHANGED << walletDb, revealed, key, core, loaded, calm, handed, cut >>
        /\ proc[p].pc = "local"
    BY <1>2 DEF LoadLocal
  <2>2. proc \in [Procs -> Process] /\ walletDb \in Seeds /\ revealed \in 0..MaxReveal
    BY <1>2 DEF TypeOK
  <2>3. 0 \in 0..MaxReveal /\ "list" \in Pc
    BY SetupConstants DEF Pc
  <2>4. /\ proc' \in [Procs -> Process]
        /\ proc'[p].pc = "list" /\ proc'[p].cmd = proc[p].cmd
        /\ proc'[p].mnemonic = proc[p].mnemonic /\ proc'[p].wallet = walletDb
        /\ proc[p].cmd = "address" => proc'[p].index = revealed
        /\ \A q \in Procs \ {p} : proc'[q] = proc[q]
    BY <1>2, <2>2, <2>3 DEF Process
  <2>5. TypeOK'
    BY <2>1, <2>4, Zenon DEF TypeOK
  <2>6. Roles' /\ Alone'
    BY <2>1, <2>4 DEF Roles, Alone, InitOnly, Creating
  <2>7. Wedded' /\ Known' /\ OneSeed'
    BY <1>2, <2>1, <2>4 DEF Wedded, Known, OneSeed, Unwedded
  <2>8. HalfCore' /\ HalfKey'
    BY <2>1, <2>4 DEF HalfCore, HalfKey, Creating
  <2>9. IndexFresh' /\ HandedKnown'
    BY <2>1, <2>4 DEF IndexFresh, HandedKnown
  <2> QED
    BY <2>5, <2>6, <2>7, <2>8, <2>9
<1> QED
  BY <1>1, <1>2 DEF LoadLocal

LEMMA LoadCoreInv ==
  ASSUME SetupInv, NEW p \in Procs, ListWallets(p) \/ LoadWallet(p)
  PROVE  SetupInv'
<1>1. AfterLoad(p) \in Pc \cap {"setup", "run"} /\ (AfterLoad(p) = "setup" => proc[p].cmd = "init")
  BY DEF AfterLoad, Pc
<1>2. CASE ListWallets(p)
  <2>1. CASE core[Wallet(p)] = "none" \/ Wallet(p) \in loaded
    <3>1. GoTo(p, AfterLoad(p))
      BY <1>2, <2>1 DEF ListWallets
    <3> QED
      BY <1>1, <1>2, <3>1, MoveInv
      DEF ListWallets, node, SetupInv, TypeOK, Creating, Unwedded, InitOnly, At
  <2>2. CASE ~(core[Wallet(p)] = "none" \/ Wallet(p) \in loaded)
    <3>1. GoTo(p, "loadw") /\ "loadw" \in Pc
      BY <1>2, <2>2 DEF ListWallets, Pc
    <3> QED
      BY <1>2, <2>2, <3>1, MoveInv
      DEF ListWallets, node, SetupInv, TypeOK, Creating, Unwedded, InitOnly, At
  <2> QED
    BY <2>1, <2>2
<1>3. CASE LoadWallet(p)
  <2>1. CASE LoadFailed(p) /\ UNCHANGED loaded
    BY <1>3, <2>1, LoadFailedInv DEF LoadWallet, node, At
  <2>2. CASE loaded' = loaded \cup {Wallet(p)} /\ GoTo(p, AfterLoad(p))
    <3>1. core[Wallet(p)] # "none" /\ Wallet(p) \in Seeds
      BY <1>3 DEF LoadWallet, SetupInv, TypeOK, Wedded, Known, Unwedded, At
    <3>2. loaded' \subseteq {s \in Seeds : core[s] # "none"}
      BY <2>2, <3>1 DEF SetupInv, TypeOK
    <3> QED
      BY <1>1, <1>3, <2>2, <3>2, MoveInv
      DEF LoadWallet, Creating, Unwedded, InitOnly, At
  <2> QED
    BY <1>3, <2>1, <2>2 DEF LoadWallet
<1> QED
  BY <1>2, <1>3

-----------------------------------------------------------------------------
(* LocalWallet::create: nobody has a wallet yet, since there is none.      *)
LEMMA CreateLocalInv ==
  ASSUME SetupInv, NEW p \in Procs, CreateLocal(p)
  PROVE  SetupInv'
<1>1. CASE GiveUp(p) /\ UNCHANGED walletDb
  BY <1>1, GiveUpInv DEF CreateLocal, files, node, SetupInv, TypeOK, At
<1>2. ASSUME NEW s \in Seeds, walletDb = None, walletDb' = s,
             proc' = [proc EXCEPT ![p].pc = "keycreate", ![p].wallet = s], UNCHANGED hist
      PROVE  SetupInv'
  <2> USE DEF SetupInv, hist, node, At, Wallet
  <2>1. UNCHANGED << revealed, key, core, loaded, calm, handed, cut >> /\ proc[p].pc = "create"
    BY <1>2 DEF CreateLocal
  <2>2. proc \in [Procs -> Process] /\ "keycreate" \in Pc
    BY DEF TypeOK, Pc
  <2>3. /\ proc' \in [Procs -> Process]
        /\ proc'[p].pc = "keycreate" /\ proc'[p].cmd = proc[p].cmd
        /\ proc'[p].mnemonic = proc[p].mnemonic /\ proc'[p].wallet = s
        /\ \A q \in Procs \ {p} : proc'[q] = proc[q]
    BY <1>2, <2>2 DEF Process
  <2>4. walletDb' \in Seeds \cup {None}
    BY <1>2
  <2>5. TypeOK'
    BY <2>1, <2>3, <2>4, Zenon DEF TypeOK
  <2>6. Roles' /\ Alone'
    BY <2>1, <2>3 DEF Roles, Alone, InitOnly, Creating
  <2>7. walletDb' # None /\ \A q \in Procs : proc[q].pc \in Unwedded
    BY <1>2, SetupConstants DEF Wedded
  <2>8. Wedded' /\ Known' /\ OneSeed'
    BY <1>2, <2>1, <2>3, <2>7 DEF Wedded, Known, OneSeed, Unwedded
  <2>9. HalfCore' /\ HalfKey'
    BY <2>1, <2>3 DEF HalfCore, HalfKey, Creating
  <2>10. proc[p].cmd = "init"
    BY <2>1 DEF Roles, InitOnly
  <2>11. IndexFresh' /\ HandedKnown'
    BY <2>1, <2>3, <2>10 DEF IndexFresh, HandedKnown
  <2> QED
    BY <2>5, <2>6, <2>8, <2>9, <2>11
<1> QED
  BY <1>1, <1>2 DEF CreateLocal

(* MasterKeyStore::store: the key is that of the database its init made.    *)
LEMMA KeyInv ==
  ASSUME SetupInv, NEW p \in Procs, KeyCreate(p) \/ KeyWrite(p)
  PROVE  SetupInv'
<1>1. CASE KeyCreate(p) /\ key # None
  BY <1>1, GiveUpInv, SetupConstants
  DEF KeyCreate, files, node, SetupInv, TypeOK, At
<1>2. ASSUME NEW x \in Pc, GoTo(p, x), UNCHANGED << walletDb, revealed, node, calm >>,
             \/ proc[p].pc = "keycreate" /\ x = "keywrite" /\ key' = Torn
             \/ proc[p].pc = "keywrite" /\ x = "setup" /\ key' = Wallet(p)
      PROVE  SetupInv'
  <2> USE DEF SetupInv, hist, node, At, Wallet
  <2>1. UNCHANGED << walletDb, revealed, core, loaded, calm, handed, cut >>
    BY <1>2 DEF GoTo
  <2>2. /\ proc' \in [Procs -> Process]
        /\ proc'[p].pc = x /\ proc'[p].cmd = proc[p].cmd
        /\ proc'[p].mnemonic = proc[p].mnemonic
        /\ proc'[p].wallet = proc[p].wallet /\ proc'[p].index = proc[p].index
        /\ \A q \in Procs \ {p} : proc'[q] = proc[q]
    BY <1>2, MoveFacts DEF GoTo
  <2>3. Wallet(p) = walletDb /\ walletDb # None /\ proc[p].cmd = "init" /\ walletDb \in Seeds
    BY <1>2 DEF TypeOK, Wedded, Unwedded, Roles, InitOnly, Creating
  <2>4. key' \in Seeds \cup {None, Torn}
    BY <1>2, <2>3
  <2>5. TypeOK'
    BY <2>1, <2>2, <2>4, Zenon DEF TypeOK
  <2>6. Roles' /\ Alone'
    BY <1>2, <2>2, <2>3 DEF Roles, Alone
  <2>7. Wedded' /\ Known' /\ OneSeed'
    BY <1>2, <2>1, <2>2, <2>3 DEF Wedded, Known, OneSeed, Unwedded
  <2>8. HalfCore' /\ HalfKey'
    BY <1>2, <2>1, <2>2, <2>3 DEF HalfCore, HalfKey, Creating
  <2>9. IndexFresh' /\ HandedKnown'
    BY <2>1, <2>2, <2>3 DEF IndexFresh, HandedKnown
  <2> QED
    BY <2>5, <2>6, <2>7, <2>8, <2>9
<1>3. "keywrite" \in Pc /\ "setup" \in Pc
  BY DEF Pc
<1> QED
  BY <1>1, <1>2, <1>3 DEF KeyCreate, KeyWrite, At

-----------------------------------------------------------------------------
(* RemoteWallet::setup                                                     *)
LEMMA SetUpInv ==
  ASSUME SetupInv, NEW p \in Procs, SetUp(p)
  PROVE  SetupInv'
<1>1. proc[p].cmd = "init" /\ loaded \subseteq {s \in Seeds : core[s] # "none"}
  BY DEF SetUp, SetupInv, Roles, InitOnly, TypeOK, At
<1>2. "ready" \in Pc /\ "createw" \in Pc
  BY DEF Pc
<1>3. CASE Wallet(p) \in loaded
  <2>1. GoTo(p, "ready")
    BY <1>3 DEF SetUp
  <2> QED
    BY <1>1, <1>2, <1>3, <2>1, MoveInv DEF SetUp, node, Creating, Unwedded, At
<1>4. CASE Wallet(p) \notin loaded
  <2>1. GoTo(p, "createw")
    BY <1>4 DEF SetUp
  <2> QED
    BY <1>1, <1>2, <2>1, MoveInv DEF SetUp, node, Creating, Unwedded, At
<1> QED
  BY <1>3, <1>4

LEMMA CoreWalletInv ==
  ASSUME SetupInv, NEW p \in Procs, CreateWallet(p) \/ ImportDescriptors(p)
  PROVE  SetupInv'
<1>1. CASE GiveUp(p) /\ UNCHANGED node
  BY <1>1, GiveUpInv
  DEF CreateWallet, ImportDescriptors, files, node, SetupInv, TypeOK, At
<1>2. ASSUME NEW x \in Pc, NEW how \in {"blank", "watching"}, GoTo(p, x),
             UNCHANGED << files, calm >>, core' = [core EXCEPT ![Wallet(p)] = how],
             \/ /\ proc[p].pc = "createw" /\ x = "import" /\ how = "blank"
                /\ loaded' = loaded \cup {Wallet(p)}
             \/ /\ proc[p].pc = "import" /\ x = "ready" /\ how = "watching"
                /\ loaded' = loaded
      PROVE  SetupInv'
  <2> USE DEF SetupInv, hist, files, At, Wallet
  <2>1. UNCHANGED << walletDb, revealed, key, calm, handed, cut >>
    BY <1>2 DEF GoTo
  <2>2. /\ proc' \in [Procs -> Process]
        /\ proc'[p].pc = x /\ proc'[p].cmd = proc[p].cmd
        /\ proc'[p].mnemonic = proc[p].mnemonic
        /\ proc'[p].wallet = proc[p].wallet /\ proc'[p].index = proc[p].index
        /\ \A q \in Procs \ {p} : proc'[q] = proc[q]
    BY <1>2, MoveFacts DEF GoTo
  <2>3. Wallet(p) = walletDb /\ walletDb # None /\ proc[p].cmd = "init" /\ walletDb \in Seeds
    BY <1>2 DEF TypeOK, Wedded, Unwedded, Roles, InitOnly
  <2>4. /\ core' \in [Seeds -> {"none", "blank", "watching"}]
        /\ core'[walletDb] = how
        /\ \A s \in Seeds \ {walletDb} : core'[s] = core[s]
    BY <1>2, <2>3 DEF TypeOK
  <2>5. loaded' \subseteq {s \in Seeds : core'[s] # "none"}
    BY <1>2, <2>3, <2>4 DEF TypeOK
  <2>6. TypeOK'
    BY <2>1, <2>2, <2>4, <2>5, Zenon DEF TypeOK
  <2>7. Roles' /\ Alone'
    BY <1>2, <2>2, <2>3 DEF Roles, Alone
  <2>8. Wedded' /\ OneSeed'
    BY <1>2, <2>1, <2>2, <2>3 DEF Wedded, OneSeed, Unwedded
  <2>9. Known'
    BY <1>2, <2>1, <2>2, <2>3, <2>4 DEF Known, Wedded, Unwedded
  <2>10. HalfCore' /\ HalfKey'
    BY <1>2, <2>1, <2>2, <2>3, <2>4 DEF HalfCore, HalfKey, Creating
  <2>11. IndexFresh' /\ HandedKnown'
    BY <2>1, <2>2, <2>3 DEF IndexFresh, HandedKnown
  <2> QED
    BY <2>6, <2>7, <2>8, <2>9, <2>10, <2>11
<1>3. "import" \in Pc /\ "ready" \in Pc
  BY DEF Pc
<1>4. CASE /\ CreateWallet(p)
           /\ core' = [core EXCEPT ![Wallet(p)] = "blank"]
           /\ loaded' = loaded \cup {Wallet(p)} /\ GoTo(p, "import")
  BY <1>2, <1>3, <1>4 DEF CreateWallet, At
<1>5. CASE /\ ImportDescriptors(p)
           /\ core' = [core EXCEPT ![Wallet(p)] = "watching"] /\ GoTo(p, "ready")
  BY <1>2, <1>3, <1>5 DEF ImportDescriptors, At
<1> QED
  BY <1>1, <1>4, <1>5 DEF CreateWallet, ImportDescriptors, node

-----------------------------------------------------------------------------
(* The commands' ends.                                                     *)
LEMMA EndInv ==
  ASSUME SetupInv, NEW p \in Procs, Reveal(p) \/ Answer(p) \/ Unload(p) \/ Sign(p)
  PROVE  SetupInv'
<1>1. loaded \subseteq {s \in Seeds : core[s] # "none"}
  BY DEF SetupInv, TypeOK
<1>2. CASE Reveal(p)
  BY <1>1, <1>2, DoneInv DEF Reveal, node, Runs, At
<1>3. CASE Answer(p)
  BY <1>1, <1>3, DoneInv DEF Answer, files, node, hist, Runs, At
<1>4. CASE Unload(p)
  BY <1>1, <1>4, DoneInv DEF Unload, files, hist, Runs, At
<1>5. CASE Sign(p)
  <2>1. CASE Opens(p)
    BY <1>1, <1>5, <2>1, DoneInv DEF Sign, files, node, hist, Runs, At
  <2>2. CASE ~Opens(p)
    BY <1>1, <1>5, <2>2, GiveUpInv DEF Sign, files, node, Runs, At
  <2> QED
    BY <2>1, <2>2
<1> QED
  BY <1>2, <1>3, <1>4, <1>5

LEMMA StepInv ==
  ASSUME SetupInv, NEW p \in Procs, Step(p)
  PROVE  SetupInv'
  BY LoadLocalInv, LoadCoreInv, CreateLocalInv, KeyInv, SetUpInv, CoreWalletInv, EndInv DEF Step

(* What happens to a process, to the node or to the directory.             *)
LEMMA FaultInv == SetupInv /\ (Fault \/ CalmDown) => SetupInv'
<1> SUFFICES ASSUME SetupInv, Fault \/ CalmDown PROVE SetupInv'
  OBVIOUS
<1>1. loaded \subseteq {s \in Seeds : core[s] # "none"}
  BY DEF SetupInv, TypeOK
<1>2. ASSUME NEW p \in Procs, OperationFails(p) PROVE SetupInv'
  <2>1. CASE proc[p].pc \in {"list", "loadw"}
    BY <1>2, <2>1, LoadFailedInv DEF OperationFails
  <2>2. CASE proc[p].pc \notin {"list", "loadw"}
    BY <1>1, <1>2, <2>2, GiveUpInv DEF OperationFails, node
  <2> QED
    BY <2>1, <2>2
<1>3. ASSUME NEW p \in Procs, Crash(p) PROVE SetupInv'
  BY <1>1, <1>3, GiveUpInv DEF Crash, node
<1>4. CASE NodeRestart
  <2> USE DEF SetupInv, files, hist, At, Wallet
  <2>1. UNCHANGED << files, core, proc, calm, hist >> /\ loaded' = {}
    BY <1>4 DEF NodeRestart
  <2>2. TypeOK'
    BY <2>1, Zenon DEF TypeOK
  <2> QED
    BY <2>1, <2>2
    DEF Roles, Alone, Wedded, Known, OneSeed, HalfCore, HalfKey, IndexFresh, HandedKnown
<1>5. CASE LoseDataDir
  <2> USE DEF SetupInv, node, At, Wallet
  <2>1. /\ UNCHANGED << core, loaded, proc, calm, cut >>
        /\ walletDb' = None /\ revealed' = 0 /\ key' = None /\ handed' = {}
        /\ \A p \in Procs : proc[p].pc = "idle"
    BY <1>5 DEF LoseDataDir
  <2>2. TypeOK'
    <3>1. revealed' \in 0..MaxReveal
      BY <2>1, SetupConstants
    <3> QED
      BY <2>1, <3>1, Zenon DEF TypeOK
  <2> QED
    BY <2>1, <2>2
    DEF Roles, Alone, Wedded, Known, OneSeed, HalfCore, HalfKey, IndexFresh, HandedKnown,
        Unwedded, Creating
<1>6. CASE CalmDown
  <2> USE DEF SetupInv, files, node, hist, At, Wallet
  <2>1. UNCHANGED << files, node, proc, hist >> /\ calm' = TRUE
    BY <1>6 DEF CalmDown
  <2>2. TypeOK'
    BY <2>1, Zenon DEF TypeOK
  <2> QED
    BY <2>1, <2>2
    DEF Roles, Alone, Wedded, Known, OneSeed, HalfCore, HalfKey, IndexFresh, HandedKnown
<1> QED
  BY <1>2, <1>3, <1>4, <1>5, <1>6 DEF Fault

LEMMA NextSetupInv == SetupInv /\ [Next]_vars => SetupInv'
<1> SUFFICES ASSUME SetupInv, [Next]_vars PROVE SetupInv'
  OBVIOUS
<1>1. ASSUME NEW p \in Procs, NEW cmd \in Commands, NEW m \in BOOLEAN, Start(p, cmd, m)
      PROVE  SetupInv'
  BY <1>1, StartInv
<1>2. ASSUME NEW p \in Procs, Step(p) PROVE SetupInv'
  BY <1>2, StepInv
<1>3. CASE UNCHANGED vars
  <2> USE DEF SetupInv, vars, files, node, hist, At, Wallet
  <2>1. TypeOK'
    BY <1>3, Zenon DEF TypeOK
  <2> QED
    BY <1>3, <2>1
    DEF Roles, Alone, Wedded, Known, OneSeed, HalfCore, HalfKey, IndexFresh, HandedKnown
<1> QED
  BY <1>1, <1>2, <1>3, FaultInv DEF Next

LEMMA AlwaysSetupInv == Spec => []SetupInv
  BY InitSetupInv, NextSetupInv, PTL DEF Spec

-----------------------------------------------------------------------------
(* Type correctness of the wallet commands.                                *)
THEOREM SetupTypeCorrect == Spec => []TypeOK
<1>1. SetupInv => TypeOK
  BY DEF SetupInv
<1> QED
  BY <1>1, AlwaysSetupInv, PTL

(* wallet.sqlite and master-key.age belong to one seed, for any number of   *)
(* commands and seeds, wherever an init died (Brc721Wallet::create).        *)
THEOREM FilesOfOneSeed == Spec => []OneSeed
<1>1. SetupInv => OneSeed
  BY DEF SetupInv
<1> QED
  BY <1>1, AlwaysSetupInv, PTL

(* "ready in Core" (wallet.rs:46, 73) is said of a wallet whose key is      *)
(* stored and whose descriptors Core watches, unless an init of its seed    *)
(* was cut in half.  What is half made now is being made by an init that    *)
(* runs, and there is only one: the one that says "ready".                  *)
THEOREM ReadyMeansReady == Spec => []ReadyIsComplete
<1>1. ASSUME SetupInv, NEW p \in Procs, At(p, "ready"), Wallet(p) \notin cut
      PROVE  core[Wallet(p)] = "watching" /\ key = Wallet(p) /\ walletDb = Wallet(p)
  <2> USE DEF At, SetupInv
  <2>1. Wallet(p) = walletDb /\ walletDb # None /\ walletDb \in Seeds
    BY <1>1 DEF Wedded, Unwedded, TypeOK
  <2>2. \A q \in Procs : proc[q].pc \in InitOnly => q = p
    BY <1>1 DEF Roles, Alone, InitOnly
  <2>3. key = walletDb
    BY <1>1, <2>1, <2>2 DEF HalfKey, InitOnly, Creating
  <2>4. core[walletDb] \in {"blank", "watching"}
    BY <1>1, <2>1 DEF Known, TypeOK
  <2>5. core[walletDb] # "blank"
    BY <1>1, <2>1, <2>2 DEF HalfCore, InitOnly
  <2> QED
    BY <2>1, <2>3, <2>4, <2>5
<1>2. SetupInv => ReadyIsComplete
  BY <1>1 DEF ReadyIsComplete
<1> QED
  BY <1>2, AlwaysSetupInv, PTL

(* No address is printed twice, and every one printed is among those that   *)
(* `wallet addresses` and `wallet assets` look at (run_address).            *)
THEOREM AddressesHandedOnce == Spec => []AddressesOnce
<1>1. ASSUME SetupInv, NEW p \in Procs, Runs(p, "address") PROVE proc[p].index \notin handed
  <2>1. proc[p].index = revealed /\ revealed \in Nat
    BY <1>1, SetupConstants DEF SetupInv, IndexFresh, Runs, At, TypeOK
  <2>2. HandedKnown
    BY <1>1 DEF SetupInv
  <2> QED
    BY <2>1, <2>2 DEF HandedKnown
<1>2. SetupInv => AddressesOnce
  BY <1>1 DEF AddressesOnce, SetupInv, HandedKnown
<1> QED
  BY <1>2, AlwaysSetupInv, PTL
=============================================================================
