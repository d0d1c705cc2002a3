-------------------------------- MODULE Daemon --------------------------------
(***************************************************************************)
(* The life of the daemon (app.rs) and of the database file it shares with  *)
(* the one-shot commands (SqliteStorage: with_conn, migrate, reset_all).    *)
(*                                                                          *)
(* Whoever opens the database first creates its tables and indexes, one     *)
(* statement at a time and each committed on its own, and records the       *)
(* schema version last.  The daemon then runs two tasks, the REST server    *)
(* and the indexing loop, and ends when either ends or Ctrl-C is pressed.   *)
(* One daemon at a time uses the data directory.                            *)
(***************************************************************************)
EXTENDS Naturals

CONSTANTS
  Commands,     \* the one-shot processes that open the database
  daemon,       \* the daemon's own connection
  Statements    \* the CREATE statements of the schema

ASSUME DaemonConstants == Statements \in Nat \ {0} /\ daemon \notin Commands

VARIABLES
  version,      \* user_version: "none" is 0, "other" belongs to another release
  created,      \* how many of the statements have been committed
  conn,         \* per connection: where migrate is, the next statement
  life,         \* where the daemon is
  rest, core,   \* its tasks
  token,        \* the shutdown token is cancelled
  asked,        \* Ctrl-C was caught
  exit,         \* how the daemon ended last
  calm          \* no crash, error or power loss any more, and the operator
                \* starts the daemon with --reset, before other commands

database == << version, created >>
tasks    == << rest, core, token, asked >>
vars     == << database, conn, life, tasks, exit, calm >>

Conns    == Commands \cup {daemon}
Closed   == [pc |-> "closed", next |-> 1]
AllShut  == [c \in Conns |-> Closed]

TypeOK ==
  /\ version \in {"none", "current", "other"}
  /\ created \in 0..Statements
  /\ conn \in [Conns -> [pc : {"closed", "read", "create"}, next : 1..(Statements + 1)]]
  /\ life \in {"off", "open", "start", "wait", "drain"}
  /\ rest \in {"none", "running", "done"}
  /\ core \in {"none", "running", "done"}
  /\ token \in BOOLEAN /\ asked \in BOOLEAN /\ calm \in BOOLEAN
  /\ exit \in {"none", "ok", "failed", "aborted"}

(* No file is the same as an empty one.                                    *)
Init ==
  /\ \/ version = "none" /\ created = 0
     \/ version = "other" /\ created = Statements
  /\ conn = AllShut
  /\ life = "off"
  /\ rest = "none" /\ core = "none" /\ token = FALSE /\ asked = FALSE
  /\ exit = "none" /\ calm = FALSE

-----------------------------------------------------------------------------
(* The daemon's process is gone, and what it held with it.                 *)
Ends(how) ==
  /\ life' = "off" /\ exit' = how
  /\ rest' = "none" /\ core' = "none" /\ token' = FALSE /\ asked' = FALSE

(* A connection whose open failed ends its process.                        *)
OpenFails(c) ==
  /\ conn' = [conn EXCEPT ![c] = Closed]
  /\ IF c = daemon THEN Ends("aborted") ELSE UNCHANGED << life, tasks, exit >>

OpenDone(c) ==
  /\ conn' = [conn EXCEPT ![c] = Closed]
  /\ life' = IF c = daemon THEN "start" ELSE life
  /\ UNCHANGED << tasks, exit >>

(* migrate: the version is read outside any transaction.                    *)
ReadVersion(c) ==
  /\ conn[c].pc = "read"
  /\ \/ version = "current" /\ OpenDone(c)
     \/ version = "other" /\ OpenFails(c)
     \/ /\ version = "none"
        /\ conn' = [conn EXCEPT ![c].pc = "create"]
        /\ UNCHANGED << life, tasks, exit >>
  /\ UNCHANGED << database, calm >>

CreatePast(c) ==   \* mutant: one statement too many
  /\ conn[c].pc = "create"
  /\ \/ created >= conn[c].next /\ OpenFails(c) /\ UNCHANGED created
     \/ /\ created < conn[c].next
        /\ created' = conn[c].next
        /\ conn' = [conn EXCEPT ![c].next = @ + 1]
        /\ UNCHANGED << life, tasks, exit >>
  /\ UNCHANGED << version, calm >>

(* CREATE without IF NOT EXISTS: it fails when another connection, or an    *)
(* earlier process, has created the object.                                 *)
Create(c) ==
  /\ conn[c].pc = "create" /\ conn[c].next <= Statements
  /\ \/ created >= conn[c].next /\ OpenFails(c) /\ UNCHANGED created
     \/ /\ created < conn[c].next
        /\ created' = conn[c].next
        /\ conn' = [conn EXCEPT ![c].next = @ + 1]
        /\ UNCHANGED << life, tasks, exit >>
  /\ UNCHANGED << version, calm >>

SetVersionEarly(c) ==   \* mutant: the version is recorded before the indexes
  /\ conn[c].pc = "create" /\ conn[c].next = Statements
  /\ version' = "current"
  /\ OpenDone(c)
  /\ UNCHANGED << created, calm >>

SetVersion(c) ==
  /\ conn[c].pc = "create" /\ conn[c].next = Statements + 1
  /\ version' = "current"
  /\ OpenDone(c)
  /\ UNCHANGED << created, calm >>

Migrate(c) == ReadVersion(c) \/ Create(c) \/ SetVersion(c)

(* `wallet assets` and the tx commands open the database if there is one.   *)
CommandOpens(c) ==
  /\ conn[c] = Closed
  /\ calm => life # "off"
  /\ conn' = [conn EXCEPT ![c].pc = "read"]
  /\ UNCHANGED << database, life, tasks, exit, calm >>

-----------------------------------------------------------------------------
(* App::new: setup_storage, with --reset after removing the file.  A       *)
(* command still connected to a removed file is left out.                   *)
ResetKeeps(reset) ==   \* mutant: only a database of this release is removed
  /\ life = "off"
  /\ calm => reset
  /\ reset => \A c \in Commands : conn[c] = Closed
  /\ IF reset /\ version = "current" THEN version' = "none" /\ created' = 0 ELSE UNCHANGED database
  /\ life' = "open"
  /\ conn' = [conn EXCEPT ![daemon].pc = "read"]
  /\ UNCHANGED << tasks, exit, calm >>

Start(reset) ==
  /\ life = "off"
  /\ calm => reset
  /\ reset => \A c \in Commands : conn[c] = Closed
  /\ IF reset THEN version' = "none" /\ created' = 0 ELSE UNCHANGED database
  /\ life' = "open"
  /\ conn' = [conn EXCEPT ![daemon].pc = "read"]
  /\ UNCHANGED << tasks, exit, calm >>

(* run_daemon: spawn_rest_server, then spawn_core_indexer, which reads the  *)
(* last block first.                                                        *)
Spawn ==
  /\ life = "start"
  /\ life' = "wait" /\ rest' = "running" /\ core' = "running"
  /\ UNCHANGED << database, conn, token, asked, exit, calm >>

(* The tasks end when they see the token.                                   *)
RestStops == rest = "running" /\ token /\ rest' = "done"
             /\ UNCHANGED << database, conn, life, core, token, asked, exit, calm >>
CoreStops == core = "running" /\ token /\ core' = "done"
             /\ UNCHANGED << database, conn, life, rest, token, asked, exit, calm >>

(* The handler for Ctrl-C is installed by wait_for_shutdown and stays.      *)
CtrlC ==
  /\ life = "wait" /\ ~asked
  /\ asked' = TRUE
  /\ UNCHANGED << database, conn, life, rest, core, token, exit, calm >>

SelectCoreQuietly ==   \* mutant: the end of the core task cancels nothing
  /\ life = "wait" /\ core = "done"
  /\ life' = "drain" /\ exit' = "failed"
  /\ UNCHANGED << database, conn, rest, core, token, asked, calm >>

(* wait_for_shutdown: the branches of select!, any of those that are ready. *)
Select(ready, how) ==
  /\ life = "wait" /\ ready
  /\ life' = "drain" /\ token' = TRUE /\ exit' = how
  /\ UNCHANGED << database, conn, rest, core, asked, calm >>

SelectCtrlC == Select(asked, "ok")
SelectRest  == Select(rest = "done", "failed")
SelectCore  == Select(core = "done", "failed")

ReturnAtOnce ==   \* mutant: the REST task is not awaited
  /\ life = "drain" /\ core = "done"
  /\ Ends(exit)
  /\ UNCHANGED << database, conn, calm >>

(* ... each then awaits the tasks that are not over, and returns.           *)
Return ==
  /\ life = "drain" /\ rest = "done" /\ core = "done"
  /\ Ends(exit)
  /\ UNCHANGED << database, conn, calm >>

-----------------------------------------------------------------------------
(* The port is taken or the server fails; a block cannot be read, parsed or *)
(* stored, or the task panics.                                              *)
RestFails == rest = "running" /\ ~token /\ rest' = "done"
             /\ UNCHANGED << database, conn, life, core, token, asked, exit, calm >>
CoreFails == core = "running" /\ core' = "done"
             /\ UNCHANGED << database, conn, life, rest, token, asked, exit, calm >>

(* The disk is full, the database stays busy, the process is killed.        *)
ConnFails(c) == conn[c] # Closed /\ OpenFails(c) /\ UNCHANGED << database, calm >>

(* ... or it is the daemon, elsewhere; the last block cannot be read.       *)
DaemonDies ==
  /\ life \in {"start", "wait", "drain"}
  /\ Ends("aborted")
  /\ UNCHANGED << database, conn, calm >>

(* With synchronous = NORMAL the newest commits may be lost.                *)
PowerLoss ==
  /\ version # "other"
  /\ created' \in 0..created
  /\ version' \in {"none", version} /\ (created' < created => version' = "none")
  /\ conn' = AllShut
  /\ Ends("aborted")
  /\ UNCHANGED calm

Fault == (\E c \in Conns : ConnFails(c)) \/ DaemonDies \/ PowerLoss

CalmDown == calm' = TRUE /\ UNCHANGED << database, conn, life, tasks, exit >>

Waiting  == SelectCtrlC \/ SelectRest \/ SelectCore \/ Return

Next ==
  \/ \E c \in Conns : Migrate(c)
  \/ \E c \in Commands : CommandOpens(c)
  \/ \E reset \in BOOLEAN : Start(reset)
  \/ Spawn \/ CtrlC \/ RestStops \/ CoreStops \/ Waiting
  \/ RestFails \/ CoreFails
  \/ ~calm /\ (Fault \/ CalmDown)

Spec == Init /\ [][Next]_vars

(* Processes run, tasks look at the token between blocks and requests, and  *)
(* an operator whose daemon does not run starts it.                         *)
FairSpec ==
  /\ Spec
  /\ \A c \in Conns : WF_vars(Migrate(c))
  /\ WF_vars(Spawn) /\ WF_vars(RestStops) /\ WF_vars(CoreStops) /\ WF_vars(Waiting)
  /\ WF_vars(Start(TRUE))

-----------------------------------------------------------------------------
(* A database that says it has this release's schema has all of it, and the *)
(* tasks, of which the core's begin_tx never looks at the version, only run *)
(* on such a one: whatever process died between two statements, whichever   *)
(* two created the schema at once, whatever commits a power loss took.      *)
CompleteIfCurrent ==
  /\ version = "current" => created = Statements
  /\ rest = "running" \/ core = "running" => version = "current"

(* wait_for_shutdown returns after both tasks are over, whichever of its    *)
(* three branches won, and Ok only after a Ctrl-C ("Await tasks to ensure   *)
(* clean exit", app.rs:112): a task that ended by itself is never reported  *)
(* as a clean shutdown unless one was asked for as well.                    *)
ExitClean ==
  [][life # "off" /\ life' = "off" /\ exit' # "aborted" =>
       rest = "done" /\ core = "done" /\ (exit' = "ok" => asked)]_vars

(* The daemon never stays up as half of itself: once Ctrl-C is caught or a  *)
(* task has ended, both end and the process does.                           *)
NoHalfDaemon ==
  life = "wait" /\ (asked \/ rest = "done" \/ core = "done") ~> life = "off"

(* "please run with --reset option" (sqlite.rs:733-737): whatever an        *)
(* earlier release, a crash in the middle of migrate or a power loss left,  *)
(* a start with --reset ends in a complete schema, also when commands open  *)
(* the new file at the same time.                                           *)
ResetRecovers == calm ~> version = "current"
=============================================================================
