----------------------------- MODULE WalletSetup -----------------------------
(***************************************************************************)
(* The wallet commands around wallet files (commands/wallet.rs,             *)
(* brc721_wallet.rs, local_wallet.rs, master_key_store.rs, signer.rs and    *)
(* the wallet RPCs of remote_wallet.rs).                                    *)
(*                                                                          *)
(* Each command is a process of its own on one data directory, holding      *)
(* wallet.sqlite (descriptors and the number of revealed addresses) and     *)
(* master-key.age, and on one bitcoind, holding a watch-only wallet per     *)
(* seed.  Every change of a file and every RPC is a step; nothing locks     *)
(* across steps, a process may die at any of them and an RPC may fail.      *)
(* Seeds stand for mnemonics and for the wallet ids computed from them.     *)
(***************************************************************************)
EXTENDS Naturals

CONSTANTS Procs, Seeds,
  None,        \* no wallet, no key, no mnemonic
  Torn,        \* a key file that was created but not written
  MaxReveal    \* bound: addresses revealed in one data directory

ASSUME SetupConstants == None \notin Seeds /\ Torn \notin Seeds \cup {None} /\ MaxReveal \in Nat

VARIABLES
  walletDb,    \* the seed whose descriptors wallet.sqlite holds, or None
  revealed,    \* the number of addresses it records as revealed
  key,         \* the seed in master-key.age, None or Torn
  core,        \* per seed: Core's watch-only wallet on disk
  loaded,      \* the wallets Core has loaded
  proc,        \* per process: where it is, its command, whether a mnemonic
               \* was given, the wallet and the address index it has loaded
  calm,        \* nothing fails any more and nobody unloads wallets
  handed,      \* history: the addresses printed by `wallet address`
  cut          \* history: the seeds whose init ended between two halves

files == << walletDb, revealed, key >>
node  == << core, loaded >>
hist  == << handed, cut >>
vars  == << files, node, proc, calm, hist >>

(* use stands for the commands that load the wallet and then change none   *)
(* of this state: load, balance, info, rescan, and tx, which also signs;    *)
(* address also for `tx register-ownership`, which reveals one to own the   *)
(* tokens.                                                                 *)
Commands == {"init", "address", "unload", "use"}
Idle     == [pc |-> "idle", cmd |-> "none", mnemonic |-> FALSE, wallet |-> None, index |-> 0]
Pc       == {"idle", "local", "list", "loadw", "create", "keycreate", "keywrite",
             "setup", "createw", "import", "ready", "run"}
Process  == [pc : Pc, cmd : Commands \cup {"none"}, mnemonic : BOOLEAN,
             wallet : Seeds \cup {None}, index : 0..MaxReveal]

TypeOK ==
  /\ walletDb \in Seeds \cup {None}
  /\ revealed \in 0..MaxReveal
  /\ key \in Seeds \cup {None, Torn}
  /\ core \in [Seeds -> {"none", "blank", "watching"}]
  /\ loaded \subseteq {s \in Seeds : core[s] # "none"}
  /\ proc \in [Procs -> Process]
  /\ calm \in BOOLEAN
  /\ handed \subseteq 0..MaxReveal
  /\ cut \subseteq Seeds

Init ==
  /\ walletDb = None /\ revealed = 0 /\ key = None
  /\ core = [s \in Seeds |-> "none"]
  /\ loaded = {}
  /\ proc = [p \in Procs |-> Idle]
  /\ calm = FALSE /\ handed = {} /\ cut = {}

At(p, pc)   == proc[p].pc = pc
Runs(p, cmd) == At(p, "run") /\ proc[p].cmd = cmd
Wallet(p)   == proc[p].wallet
GoTo(p, pc) == proc' = [proc EXCEPT ![p].pc = pc] /\ UNCHANGED hist
Done(p)     == proc' = [proc EXCEPT ![p] = Idle]

(* The process ends here, on an error or killed.                           *)
HalfWay(p) == proc[p].pc \in {"keycreate", "keywrite", "import"}
GiveUp(p) ==
  /\ Done(p)
  /\ cut' = IF HalfWay(p) THEN cut \cup {Wallet(p)} ELSE cut
  /\ UNCHANGED handed

-----------------------------------------------------------------------------
(* Two inits, or two `wallet address`, at a time are left out: nothing     *)
(* keeps them apart, and none of the properties is claimed for them.       *)
Start(p, cmd, mnemonic) ==
  /\ At(p, "idle")
  /\ mnemonic => cmd = "init"
  /\ calm => cmd # "unload"
  /\ cmd \in {"init", "address"} => \A q \in Procs : proc[q].cmd # cmd
  /\ proc' = [proc EXCEPT ![p] =
                [pc |-> "local", cmd |-> cmd, mnemonic |-> mnemonic, wallet |-> None, index |-> 0]]
  /\ UNCHANGED << files, node, calm, hist >>

(* run_init goes on to create a wallet when loading one failed, whatever   *)
(* the reason; every other command fails.                                  *)
LoadFailed(p) == IF proc[p].mnemonic THEN GoTo(p, "create") ELSE GiveUp(p)

(* LocalWallet::load                                                       *)
LoadLocal(p) ==
  /\ At(p, "local")
  /\ \/ walletDb = None /\ LoadFailed(p)
     \/ /\ walletDb # None
        /\ proc' = [proc EXCEPT ![p].pc = "list", ![p].wallet = walletDb,
                      ![p].index = IF proc[p].cmd = "address" THEN revealed ELSE 0]
        /\ UNCHANGED hist
  /\ UNCHANGED << files, node, calm >>

(* RemoteWallet::load_wallet: listwalletdir and listwallets, loadwallet.    *)
AfterLoad(p) == IF proc[p].cmd = "init" THEN "setup" ELSE "run"

ListWallets(p) ==
  /\ At(p, "list")
  /\ GoTo(p, IF core[Wallet(p)] = "none" \/ Wallet(p) \in loaded THEN AfterLoad(p) ELSE "loadw")
  /\ UNCHANGED << files, node, calm >>

LoadWalletNot(p) ==   \* mutant: a wallet Core has not loaded is an error
  At(p, "loadw") /\ LoadFailed(p) /\ UNCHANGED << files, node, calm >>

LoadWallet(p) ==
  /\ At(p, "loadw")
  /\ \/ Wallet(p) \in loaded /\ LoadFailed(p) /\ UNCHANGED loaded
     \/ /\ Wallet(p) \notin loaded
        /\ loaded' = loaded \cup {Wallet(p)}
        /\ GoTo(p, AfterLoad(p))
  /\ UNCHANGED << files, core, calm >>

-----------------------------------------------------------------------------
CreateAnyway(p) ==   \* mutant: an existing database is taken over
  /\ At(p, "create")
  /\ \E s \in Seeds : /\ walletDb' = s
                     /\ proc' = [proc EXCEPT ![p].pc = "keycreate", ![p].wallet = s]
  /\ UNCHANGED << revealed, key, node, calm, hist >>

(* LocalWallet::create for the seed of the mnemonic; bdk refuses a database *)
(* that holds a wallet.                                                     *)
CreateLocal(p) ==
  /\ At(p, "create")
  /\ \/ walletDb # None /\ GiveUp(p) /\ UNCHANGED walletDb
     \/ /\ walletDb = None
        /\ \E s \in Seeds : /\ walletDb' = s
                           /\ proc' = [proc EXCEPT ![p].pc = "keycreate", ![p].wallet = s]
        /\ UNCHANGED hist
  /\ UNCHANGED << revealed, key, node, calm >>

(* MasterKeyStore::store refuses an existing file, creates one, writes it. *)
KeyCreate(p) ==
  /\ At(p, "keycreate")
  /\ \/ key # None /\ GiveUp(p) /\ UNCHANGED key
     \/ key = None /\ key' = Torn /\ GoTo(p, "keywrite")
  /\ UNCHANGED << walletDb, revealed, node, calm >>

KeyWrite(p) ==
  /\ At(p, "keywrite")
  /\ key' = Wallet(p)
  /\ GoTo(p, "setup")
  /\ UNCHANGED << walletDb, revealed, node, calm >>

(* RemoteWallet::setup: listwallets, createwallet, importdescriptors.  A    *)
(* wallet Core has loaded already is taken to be set up.                    *)
SetUp(p) ==
  /\ At(p, "setup")
  /\ GoTo(p, IF Wallet(p) \in loaded THEN "ready" ELSE "createw")
  /\ UNCHANGED << files, node, calm >>

CreateWalletOnly(p) ==   \* mutant: the descriptors are not imported
  /\ At(p, "createw")
  /\ core[Wallet(p)] = "none"
  /\ core' = [core EXCEPT ![Wallet(p)] = "blank"]
  /\ loaded' = loaded \cup {Wallet(p)}
  /\ GoTo(p, "ready")
  /\ UNCHANGED << files, calm >>

CreateWallet(p) ==
  /\ At(p, "createw")
  /\ \/ core[Wallet(p)] # "none" /\ GiveUp(p) /\ UNCHANGED node
     \/ /\ core[Wallet(p)] = "none"
        /\ core' = [core EXCEPT ![Wallet(p)] = "blank"]
        /\ loaded' = loaded \cup {Wallet(p)}
        /\ GoTo(p, "import")
  /\ UNCHANGED << files, calm >>

ImportDescriptors(p) ==
  /\ At(p, "import")
  /\ \/ Wallet(p) \notin loaded /\ GiveUp(p) /\ UNCHANGED core
     \/ /\ Wallet(p) \in loaded
        /\ core' = [core EXCEPT ![Wallet(p)] = "watching"]
        /\ GoTo(p, "ready")
  /\ UNCHANGED << files, loaded, calm >>

-----------------------------------------------------------------------------
RevealUnsaved(p) ==   \* mutant: the advanced index is not persisted
  /\ Runs(p, "address") /\ proc[p].index < MaxReveal
  /\ handed' = handed \cup {proc[p].index}
  /\ Done(p)
  /\ UNCHANGED << files, node, cut, calm >>

(* run_address: the index read by LoadLocal is advanced, saved over what    *)
(* the database says now, and printed.                                      *)
Reveal(p) ==
  /\ Runs(p, "address") /\ proc[p].index < MaxReveal
  /\ revealed' = proc[p].index + 1
  /\ handed' = handed \cup {proc[p].index}
  /\ Done(p)
  /\ UNCHANGED << walletDb, key, node, cut, calm >>

(* The command prints "ready", or has loaded the wallet and only asks Core. *)
Answer(p) ==
  /\ At(p, "ready") \/ Runs(p, "use")
  /\ Done(p)
  /\ UNCHANGED << files, node, hist, calm >>

UnloadMissing(p) ==   \* mutant: load and unload are confused
  /\ Runs(p, "unload")
  /\ loaded' = loaded \cup {Wallet(p)}
  /\ Done(p)
  /\ UNCHANGED << files, core, hist, calm >>

(* run_unload; a wallet that is not loaded is left as it is.                *)
Unload(p) ==
  /\ Runs(p, "unload")
  /\ loaded' = loaded \ {Wallet(p)}
  /\ Done(p)
  /\ UNCHANGED << files, core, hist, calm >>

(* MasterKeyStore::load: the file is there, whole, and of this wallet.      *)
Opens(p) == key = Wallet(p)

(* The end of a tx command: without the key Signer::sign fails, or the      *)
(* transaction is not finalized; no file changes either way.                *)
Sign(p) ==
  /\ Runs(p, "use")
  /\ IF Opens(p) THEN Done(p) /\ UNCHANGED hist ELSE GiveUp(p)
  /\ UNCHANGED << files, node, calm >>

(* A running command's next step.                                          *)
Step(p) ==
  \/ LoadLocal(p) \/ ListWallets(p) \/ LoadWallet(p)
  \/ CreateLocal(p) \/ KeyCreate(p) \/ KeyWrite(p)
  \/ SetUp(p) \/ CreateWallet(p) \/ ImportDescriptors(p)
  \/ Reveal(p) \/ Answer(p) \/ Unload(p) \/ Sign(p)

-----------------------------------------------------------------------------
(* An RPC or a file operation fails without effect.                        *)
OperationFails(p) ==
  /\ ~At(p, "idle")
  /\ IF proc[p].pc \in {"list", "loadw"} THEN LoadFailed(p) ELSE GiveUp(p)
  /\ UNCHANGED << files, node, calm >>

Crash(p) == ~At(p, "idle") /\ GiveUp(p) /\ UNCHANGED << files, node, calm >>

(* bitcoind restarts; createwallet did not ask for load_on_startup.         *)
NodeRestart ==
  /\ loaded # {}
  /\ loaded' = {}
  /\ UNCHANGED << files, core, proc, calm, hist >>

(* The data directory is removed while no command runs: what remains is     *)
(* the mnemonic and Core's wallets.                                         *)
LoseDataDir ==
  /\ walletDb # None
  /\ \A p \in Procs : At(p, "idle")
  /\ walletDb' = None /\ revealed' = 0 /\ key' = None
  /\ handed' = {}
  /\ UNCHANGED << node, proc, calm, cut >>

Fault == (\E p \in Procs : OperationFails(p) \/ Crash(p)) \/ NodeRestart \/ LoseDataDir

(* From here on nothing fails; the commands running go on.                  *)
CalmDown ==
  /\ \A p \in Procs : proc[p].cmd # "unload"
  /\ calm' = TRUE
  /\ UNCHANGED << files, node, proc, hist >>

Next ==
  \/ \E p \in Procs, cmd \in Commands, m \in BOOLEAN : Start(p, cmd, m)
  \/ \E p \in Procs : Step(p)
  \/ ~calm /\ (Fault \/ CalmDown)

Spec == Init /\ [][Next]_vars

(* A command that runs goes on; an operator whose init failed runs it again *)
(* with a mnemonic.                                                         *)
Rerun == \E p \in Procs : Start(p, "init", TRUE)
FairSpec == Spec /\ (\A p \in Procs : WF_vars(Step(p))) /\ SF_vars(Rerun)

-----------------------------------------------------------------------------
(* wallet.sqlite and master-key.age belong to one seed, whatever init died  *)
(* where and whichever mnemonic the next one is given: a second seed never  *)
(* gets a database beside the key of the first (create refuses a database   *)
(* that holds a wallet, and comes before the key).                          *)
OneSeed ==
  /\ key \in {None, Torn, walletDb}
  /\ key # None => walletDb # None

(* "Watch-only wallet ready in Core" (wallet.rs:46, 73) is said only when   *)
(* Core watches the descriptors and the key can sign.  init looks at        *)
(* neither: it is true because only an init cut short between               *)
(* LocalWallet::create and the written key, or between createwallet and     *)
(* importdescriptors, leaves half of it behind.                             *)
ReadyIsComplete ==
  \A p \in Procs : At(p, "ready") /\ Wallet(p) \notin cut =>
    core[Wallet(p)] = "watching" /\ key = Wallet(p) /\ walletDb = Wallet(p)

(* An address is handed out once, whatever dies, and `wallet addresses` and *)
(* `wallet assets`, which look at the revealed ones, include every address  *)
(* handed out.                                                              *)
AddressesOnce ==
  /\ \A i \in handed : i < revealed
  /\ \A p \in Procs : Runs(p, "address") => proc[p].index \notin handed

(* Once nothing fails and nobody unloads wallets, running init again ends   *)
(* in "ready", whatever was left behind, also after the data directory was  *)
(* lost and Core has the wallet on disk but not loaded: the init that fails *)
(* on createwallet has stored the local wallet, the next one loads Core's.  *)
InitSucceeds == calm ~> \E p \in Procs : At(p, "ready")
=============================================================================
