----------------------------- MODULE DaemonProofs -----------------------------
(***************************************************************************)
(* For every number of statements and every set of commands: the schema is  *)
(* complete whenever its version says so, and the daemon's tasks only run   *)
(* on a complete one.                                                       *)
(*                                                                          *)
(* The invariant is about who creates: at most one connection has created   *)
(* anything, and it stands right after the last object there is.            *)
(***************************************************************************)
EXTENDS Daemon, TLAPS

Creator(c) == conn[c].pc = "create" /\ conn[c].next > 1

(* The creator has created all there is and no version is recorded yet.     *)
CreatorKnows == \A c \in Conns : Creator(c) => created = conn[c].next - 1 /\ version = "none"

OneCreator == \A c, d \in Conns : Creator(c) /\ Creator(d) => c = d

(* A connection that has not read the version has created nothing, and one  *)
(* that creates did not find another release's.                             *)
Fresh ==
  \A c \in Conns : IF conn[c].pc = "create" THEN version # "other" ELSE conn[c].next = 1

(* The daemon is connected while it opens the database, and only then.      *)
DaemonConn == life = "open" <=> conn[daemon].pc # "closed"

Serving ==
  /\ life \in {"start", "wait", "drain"} => version = "current"
  /\ life \in {"off", "open", "start"} => rest = "none" /\ core = "none"
  /\ life = "drain" /\ exit = "ok" => asked

DaemonInv ==
  /\ TypeOK
  /\ version = "current" => created = Statements
  /\ CreatorKnows /\ OneCreator /\ Fresh /\ DaemonConn /\ Serving

(* Initially nobody is connected and nothing runs.                          *)
LEMMA InitDaemonInv == Init => DaemonInv
<1> SUFFICES ASSUME Init PROVE DaemonInv
  OBVIOUS
<1>1. TypeOK
  <2>1. conn \in [Conns -> [pc : {"closed", "read", "create"}, next : 1..(Statements + 1)]]
    BY DaemonConstants DEF Init, AllShut, Closed
  <2>2. created \in 0..Statements
    BY DaemonConstants DEF Init
  <2> QED
    BY <2>1, <2>2, Zenon DEF Init, TypeOK
<1>2. \A c \in Conns : conn[c].pc = "closed" /\ conn[c].next = 1
  BY DEF Init, AllShut, Closed
<1>3. CreatorKnows /\ OneCreator /\ Fresh
  BY <1>2 DEF CreatorKnows, OneCreator, Fresh, Creator
<1>4. DaemonConn /\ Serving
  BY <1>2 DEF Init, DaemonConn, Serving, Conns
<1> QED
  BY <1>1, <1>3, <1>4 DEF Init, DaemonInv

(* A connection that closes without a change of the database, and the end   *)
(* of its process, keep the invariant.                                      *)
LEMMA CloseDaemonInv ==
  ASSUME DaemonInv, NEW c \in Conns, OpenFails(c), UNCHANGED << database, calm >>
  PROVE  DaemonInv'
<1> USE DaemonConstants DEF DaemonInv, Closed, database
<1>1. daemon \in Conns
  BY DEF Conns
<1>2. /\ conn'[c].pc = "closed" /\ conn'[c].next = 1
      /\ \A d \in Conns \ {c} : conn'[d] = conn[d]
  BY DEF OpenFails, TypeOK
<1>3. TypeOK'
  <2>1. conn' \in [Conns -> [pc : {"closed", "read", "create"}, next : 1..(Statements + 1)]]
    BY DEF OpenFails, TypeOK
  <2>2. CASE c = daemon
    BY <2>1, <2>2, Zenon DEF OpenFails, Ends, TypeOK
  <2>3. CASE c # daemon
    BY <2>1, <2>3, Zenon DEF OpenFails, TypeOK, tasks
  <2> QED
    BY <2>2, <2>3
<1>4. CreatorKnows' /\ OneCreator' /\ Fresh'
  BY <1>2 DEF CreatorKnows, OneCreator, Fresh, Creator
<1>5. DaemonConn' /\ Serving'
  <2>1. CASE c = daemon
    BY <2>1, <1>2 DEF OpenFails, Ends, DaemonConn, Serving
  <2>2. CASE c # daemon
    BY <2>2, <1>1, <1>2 DEF OpenFails, DaemonConn, Serving, tasks
  <2> QED
    BY <2>1, <2>2
<1> QED
  BY <1>3, <1>4, <1>5

(* Every step keeps the invariant: the steps of migrate, those that start   *)
(* and end the daemon, and the rest, which leave the database alone.        *)
LEMMA NextDaemonInv == DaemonInv /\ [Next]_vars => DaemonInv'
<1> SUFFICES ASSUME DaemonInv, [Next]_vars PROVE DaemonInv'
  OBVIOUS
<1> USE DaemonConstants
    DEF DaemonInv, TypeOK, CreatorKnows, OneCreator, Fresh, DaemonConn, Serving, Creator,
        Closed, database, tasks
<1>c. daemon \in Conns /\ Commands \subseteq Conns
  BY DEF Conns
<1>1. CASE \E c \in Conns : ReadVersion(c)
  <2> PICK c \in Conns : ReadVersion(c)
    BY <1>1
  <2>1. CASE version = "current" /\ OpenDone(c)
    BY <2>1, <1>c DEF ReadVersion, OpenDone
  <2>2. CASE version = "other" /\ OpenFails(c)
    BY <2>2, <1>c DEF ReadVersion, OpenFails, Ends
  <2>3. CASE version = "none" /\ conn' = [conn EXCEPT ![c].pc = "create"]
    BY <2>3, <1>c DEF ReadVersion
  <2> QED
    BY <2>1, <2>2, <2>3 DEF ReadVersion
<1>2. CASE \E c \in Conns : Create(c)
  <2> PICK c \in Conns : Create(c)
    BY <1>2
  <2>1. CASE created >= conn[c].next
    <3>1. OpenFails(c) /\ UNCHANGED << database, calm >>
      BY <2>1 DEF Create
    <3> QED
      BY <3>1, CloseDaemonInv
  <2>2. CASE created < conn[c].next
    <3>1. /\ created' = conn[c].next /\ conn' = [conn EXCEPT ![c].next = @ + 1]
          /\ conn[c].pc = "create" /\ conn[c].next <= Statements
          /\ UNCHANGED << version, calm, life, tasks, exit >>
      BY <2>2 DEF Create
    <3>2. version = "none"
      <4>1. created < Statements
        BY <2>2, <3>1
      <4>2. version # "other"
        BY <3>1
      <4> QED
        BY <4>1, <4>2
    <3>3. TypeOK'
      BY <3>1, <1>c
    <3>4. \A d \in Conns : Creator(d)' => d = c
      BY <3>1, <2>2
    <3>5. CreatorKnows' /\ OneCreator' /\ Fresh'
      BY <3>1, <3>2, <3>4
    <3> QED
      BY <3>1, <3>2, <3>3, <3>5, <1>c
  <2> QED
    BY <2>1, <2>2 DEF Create
<1>3. CASE \E c \in Conns : SetVersion(c)
  <2> PICK c \in Conns : SetVersion(c)
    BY <1>3
  <2>1. Creator(c) /\ created = Statements
    BY DEF SetVersion
  <2> QED
    BY <2>1, <1>c DEF SetVersion, OpenDone
<1>4. CASE \E c \in Commands : CommandOpens(c)
  BY <1>4, <1>c DEF CommandOpens, Conns
<1>5. CASE \E reset \in BOOLEAN : Start(reset)
  <2> PICK reset \in BOOLEAN : Start(reset)
    BY <1>5
  <2>1. CASE reset
    BY <2>1, <1>c DEF Start, Conns
  <2>2. CASE ~reset
    BY <2>2, <1>c DEF Start
  <2> QED
    BY <2>1, <2>2
<1>6. CASE \E c \in Conns : ConnFails(c)
  BY <1>6, CloseDaemonInv DEF ConnFails
<1>7. CASE DaemonDies
  BY <1>7 DEF DaemonDies, Ends
<1>8. CASE PowerLoss
  <2>1. \A c \in Conns : conn'[c].pc = "closed" /\ conn'[c].next = 1
    BY <1>8 DEF PowerLoss, AllShut
  <2>2. CreatorKnows' /\ OneCreator' /\ Fresh' /\ DaemonConn'
    BY <2>1, <1>8, <1>c DEF PowerLoss, Ends
  <2>3. TypeOK'
    <3>1. conn' \in [Conns -> [pc : {"closed", "read", "create"}, next : 1..(Statements + 1)]]
      BY <1>8 DEF PowerLoss, AllShut
    <3>2. created' \in 0..Statements
      BY <1>8 DEF PowerLoss
    <3> QED
      BY <1>8, <3>1, <3>2, Zenon DEF PowerLoss, Ends
  <2>4. (version = "current" => created = Statements)' /\ Serving'
    BY <1>8 DEF PowerLoss, Ends
  <2> QED
    BY <2>2, <2>3, <2>4
<1>9. CASE Return
  BY <1>9 DEF Return, Ends
<1>10. CASE SelectCtrlC \/ SelectRest \/ SelectCore
  BY <1>10 DEF SelectCtrlC, SelectRest, SelectCore, Select
<1>11. CASE Spawn \/ CtrlC \/ RestStops \/ CoreStops \/ RestFails \/ CoreFails \/ CalmDown
  <2>1. CASE Spawn
    BY <2>1 DEF Spawn
  <2>2. CASE CtrlC \/ CalmDown
    BY <2>2 DEF CtrlC, CalmDown
  <2>3. CASE RestStops \/ RestFails
    BY <2>3 DEF RestStops, RestFails
  <2>4. CASE CoreStops \/ CoreFails
    BY <2>4 DEF CoreStops, CoreFails
  <2> QED
    BY <1>11, <2>1, <2>2, <2>3, <2>4
<1>12. CASE UNCHANGED vars
  BY <1>12 DEF vars
<1> QED
  BY <1>1, <1>2, <1>3, <1>4, <1>5, <1>6, <1>7, <1>8, <1>9, <1>10, <1>11, <1>12
  DEF Next, Migrate, Waiting, Fault

(* The invariant of every reachable state.                                  *)
LEMMA AlwaysDaemonInv == Spec => []DaemonInv
  BY InitDaemonInv, NextDaemonInv, PTL DEF Spec

(* The states of app.rs and of the database are those TypeOK lists.         *)
THEOREM DaemonTypeCorrect == Spec => []TypeOK
<1>1. DaemonInv => TypeOK
  BY DEF DaemonInv
<1> QED
  BY <1>1, AlwaysDaemonInv, PTL

(* The recorded version implies the whole schema, whoever created it and    *)
(* whatever died, and no task runs without it.                              *)
THEOREM SchemaComplete == Spec => []CompleteIfCurrent
<1>1. DaemonInv => CompleteIfCurrent
  BY DEF DaemonInv, TypeOK, Serving, CompleteIfCurrent
<1> QED
  BY <1>1, AlwaysDaemonInv, PTL

(* wait_for_shutdown returns only after both tasks are over.                *)
THEOREM ShutdownClean == Spec => ExitClean
<1> DEFINE Clean == life # "off" /\ life' = "off" /\ exit' # "aborted" =>
                      rest = "done" /\ core = "done" /\ (exit' = "ok" => asked)
<1>1. DaemonInv /\ [Next]_vars => [Clean]_vars
  <2> SUFFICES ASSUME DaemonInv, [Next]_vars, life # "off", life' = "off", exit' # "aborted"
               PROVE rest = "done" /\ core = "done" /\ (exit' = "ok" => asked)
    OBVIOUS
  <2>1. Return
    <3> USE DEF OpenFails, OpenDone, Ends, tasks
    <3>1. ASSUME NEW c \in Conns, Migrate(c) PROVE FALSE
      BY <3>1 DEF Migrate, ReadVersion, Create, SetVersion
    <3>2. ~(\E c \in Commands : CommandOpens(c)) /\ ~(\E r \in BOOLEAN : Start(r))
      BY DEF CommandOpens, Start
    <3>3. ~(Spawn \/ CtrlC \/ RestStops \/ CoreStops \/ RestFails \/ CoreFails \/ CalmDown)
      BY DEF Spawn, CtrlC, RestStops, CoreStops, RestFails, CoreFails, CalmDown
    <3>4. ~(SelectCtrlC \/ SelectRest \/ SelectCore)
      BY DEF SelectCtrlC, SelectRest, SelectCore, Select
    <3>5. ~Fault
      BY DEF Fault, ConnFails, DaemonDies, PowerLoss
    <3>6. ~(UNCHANGED vars)
      BY DEF vars
    <3> QED
      BY <3>1, <3>2, <3>3, <3>4, <3>5, <3>6 DEF Next, Waiting
  <2> QED
    BY <2>1 DEF Return, Ends, DaemonInv, Serving
<1>2. ExitClean <=> [][Clean]_vars
  BY DEF ExitClean
<1> QED
  BY <1>1, <1>2, AlwaysDaemonInv, PTL DEF Spec
=============================================================================
