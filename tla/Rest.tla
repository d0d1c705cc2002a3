--------------------------------- MODULE Rest ---------------------------------
(***************************************************************************)
(* The readers of the ownership tables: the REST handlers                   *)
(* (rest/handlers.rs) and the command `wallet assets` (commands/wallet.rs), *)
(* while the indexer commits blocks (module Ledger).                        *)
(*                                                                          *)
(* No query reads in a transaction: most open a connection of their own,    *)
(* and those that share one (storage/sqlite.rs, with_conn) do so in         *)
(* autocommit mode.  So blocks may be committed between any two SELECTs.  A *)
(* client asks, and may ask again about an outpoint it was told of.  The    *)
(* order of a reply's entries is left out.                                  *)
(***************************************************************************)
EXTENDS Ledger

(* No spendable script is an OP_RETURN, and none is known whose hash is     *)
(* zero.                                                                    *)
ASSUME RestConstants == OpReturn \notin Scripts /\ NoOwner \notin Scripts

VARIABLES
  req,    \* the request being answered: [kind, arg, ...], what it has still
          \* to read and what it has got
  reply,  \* the last reply, until something is asked
  prior   \* the reply before it, when this one is about an outpoint it named

restVars == <<vars, req, reply, prior>>

NoRequest == [kind |-> "none"]
NoReply   == [kind |-> "none"]

Client ==   \* clients ask for scripts and outpoints, for tokens as ids;
            \* a wallet, for its addresses
  [token   |-> [group : [coll : 1..Len(Shapes), base : Scripts], slot : Slots],
   address |-> Scripts,
   utxo    |-> [height : 1..Len(Shapes), vout : 0..MaxVout],
   wallet  |-> SUBSET Scripts \ {{}}]

-----------------------------------------------------------------------------
(* What is so: the coins and the holdings parse_tx would move.             *)

TokensOn(o) == {h[1] : h \in {h \in Holds : h[2] = o}}

Truth(kind, arg) ==
  CASE kind = "token"   -> {h[2] : h \in {h \in Holds : h[1] = arg}}
    [] kind = "address" -> {h \in Holds : ScriptOf(h[2]) = arg}
    [] kind = "utxo"    -> TokensOn(arg)

NotFoundReply(kind, arg) ==
  [kind |-> kind, arg |-> arg, found |-> FALSE, truth |-> Truth(kind, arg)]

-----------------------------------------------------------------------------
(* The queries.                                                            *)

(* list_unspent_ownership_utxos_by_owner, _by_outpoint                     *)
RowsOfVout(kind, arg) ==   \* mutant: the query forgets the txid
  {u \in utxos : ~u.spent /\ IF kind = "address" THEN u.owner = arg
                            ELSE u.out.vout = arg.vout}

Rows(kind, arg) ==
  {u \in utxos : ~u.spent /\ IF kind = "address" THEN u.owner = arg ELSE u.out = arg}

RangesUnspentOnly(u) ==   \* mutant: the join that parse_tx uses
  LET rs == UnspentRanges(Db, u.out) IN Keep(rs, {r \in ToSet(rs) : r.group = u.group})

(* list_ownership_ranges: of the row, spent or not by now.                 *)
RangesOfRow(u) ==
  LET rs == RangesAt(Db, u.out) IN Keep(rs, {r \in ToSet(rs) : r.group = u.group})

-----------------------------------------------------------------------------

RestInit ==
  /\ Init
  /\ req = NoRequest
  /\ reply = NoReply
  /\ prior = NoReply

Answer(r) == reply' = r /\ req' = NoRequest

(* get_token_owner, first query: load_collection.                          *)
AskToken(t) ==
  /\ req = NoRequest
  /\ IF t.group.coll \in collections
     THEN req' = [kind |-> "token", arg |-> t] /\ reply' = NoReply
     ELSE Answer(NotFoundReply("token", t))
  /\ prior' = NoReply
  /\ UNCHANGED vars

(* ... then find_unspent_ownership_utxo_for_slot; without a row the token  *)
(* is answered as the initial owner's.                                     *)
FindOwner ==
  /\ req.kind = "token"
  /\ \/ /\ Found(Db, req.arg) = {}
        /\ Answer([kind |-> "token", arg |-> req.arg, found |-> TRUE, status |-> "initial",
                   owner |-> req.arg.group.base, truth |-> Truth("token", req.arg)])
     \/ \E u \in Found(Db, req.arg) :
          Answer([kind |-> "token", arg |-> req.arg, found |-> TRUE, status |-> "registered",
                  owner |-> u.owner, out |-> u.out, truth |-> Truth("token", req.arg)])
  /\ UNCHANGED <<vars, prior>>

(* get_address_assets, get_utxo_assets: first the rows ...                 *)
AskRows(kind, arg) ==
  LET rows == Rows(kind, arg)
  IN  IF kind = "utxo" /\ rows = {} THEN Answer(NotFoundReply("utxo", arg))
      ELSE /\ req' = [kind |-> kind, arg |-> arg, rows |-> rows, all |-> rows, got |-> {},
                      truth |-> Truth(kind, arg)]
           /\ reply' = NoReply

AskAddress(s) ==
  /\ req = NoRequest
  /\ AskRows("address", s)
  /\ prior' = NoReply
  /\ UNCHANGED vars

AskUtxo(o) ==
  /\ req = NoRequest
  /\ AskRows("utxo", o)
  /\ prior' = IF reply.kind = "token" /\ reply.found /\ reply.status = "registered"
                 /\ reply.out = o THEN reply ELSE NoReply
  /\ UNCHANGED vars

(* ... then the ranges of each in a query of its own ...                   *)
ReadRanges ==
  /\ req.kind \in {"address", "utxo"}
  /\ \E u \in req.rows :
       req' = [req EXCEPT !.rows = @ \ {u},
                          !.got = @ \cup {<<t, u.out>> : t \in ToSet(Expand(RangesOfRow(u)))}]
  /\ UNCHANGED <<vars, reply, prior>>

(* ... and the reply.  get_utxo_assets takes the owner of its first row.   *)
ReplyRows ==
  /\ req.kind \in {"address", "utxo"}
  /\ req.rows = {}
  /\ \/ /\ req.kind = "address"
        /\ Answer([kind |-> "address", arg |-> req.arg, found |-> TRUE,
                   assets |-> req.got, truth |-> req.truth])
     \/ /\ req.kind = "utxo"
        /\ \E u \in req.all :
             Answer([kind |-> "utxo", arg |-> req.arg, found |-> TRUE, owner |-> u.owner,
                     assets |-> {g[1] : g \in req.got}, truth |-> req.truth])
  /\ UNCHANGED <<vars, prior>>

-----------------------------------------------------------------------------
(* run_assets.                                                             *)

HeldBy(addresses) == {h \in Holds : ScriptOf(h[2]) \in addresses}

(* merge_ranges: sorted by first slot, then by last; a range that starts    *)
(* within the one before, or right after it, extends it.                    *)
Precedes(r, q) == r.lo < q.lo \/ (r.lo = q.lo /\ r.hi < q.hi)

InOrderOf(s, rs) ==
  /\ ToSet(s) = ToSet(rs)
  /\ \A i, j \in 1..Len(rs) : i < j => ~Precedes(s[j], s[i])

SortedRanges(rs) == CHOOSE s \in [1..Len(rs) -> ToSet(rs)] : InOrderOf(s, rs)

JoinRange(out, r) ==
  IF out # << >> /\ r.lo <= Last(out).hi + 1
  THEN Append(Front(out), [Last(out) EXCEPT !.hi = IF @ < r.hi THEN r.hi ELSE @])
  ELSE Append(out, r)

MergeRanges(rs) == FoldLeft(JoinRange, << >>, SortedRanges(rs))

Listed(u) == {<<t, u.out>> : t \in ToSet(Expand(MergeRanges(RangesOfRow(u))))}

AskWallet(addresses) ==
  /\ req = NoRequest
  /\ req' = [kind |-> "wallet", arg |-> addresses, left |-> addresses, outs |-> {}, rows |-> {},
             got |-> {}, since |-> HeldBy(addresses), ever |-> HeldBy(addresses)]
  /\ prior' = NoReply /\ reply' = NoReply
  /\ UNCHANGED vars

(* For each address, list_unspent_ownership_utxos_by_owner ...             *)
QueryOwner ==
  /\ req.kind = "wallet" /\ req.outs = {} /\ req.rows = {}
  /\ \E a \in req.left :
       req' = [req EXCEPT !.left = @ \ {a}, !.outs = {u.out : u \in Rows("address", a)}]
  /\ UNCHANGED <<vars, reply, prior>>

QueryFirstGroup ==   \* mutant: one group of an outpoint is enough
  /\ req.kind = "wallet" /\ req.rows = {}
  /\ \E o \in req.outs : \E u \in Rows("utxo", o) :
       req' = [req EXCEPT !.outs = @ \ {o}, !.rows = {u}]
  /\ UNCHANGED <<vars, reply, prior>>

(* ... then outpoint after outpoint of those rows: the rows it has by then, *)
(* which may be none ...                                                   *)
QueryOutpoint ==
  /\ req.kind = "wallet" /\ req.rows = {}
  /\ \E o \in req.outs : req' = [req EXCEPT !.outs = @ \ {o}, !.rows = Rows("utxo", o)]
  /\ UNCHANGED <<vars, reply, prior>>

(* ... and the ranges of each of these, spent or not by then.               *)
QueryRanges ==
  /\ req.kind = "wallet"
  /\ \E u \in req.rows :
       req' = [req EXCEPT !.rows = @ \ {u}, !.got = @ \cup Listed(u)]
  /\ UNCHANGED <<vars, reply, prior>>

PrintAssets ==
  /\ req.kind = "wallet" /\ req.left = {} /\ req.outs = {} /\ req.rows = {}
  /\ Answer([kind |-> "wallet", arg |-> req.arg, assets |-> req.got,
             still |-> req.since \cap Holds, ever |-> req.ever])
  /\ UNCHANGED <<vars, prior>>

-----------------------------------------------------------------------------
(* The indexer commits a block; a parse error ends the daemon.             *)
Commit ==
  /\ ParseBlock
  /\ IF req.kind = "wallet"
     THEN \E wanted \in {req.arg} : req' = [req EXCEPT !.ever = @ \cup HeldBy(wanted)']
     ELSE UNCHANGED req
  /\ UNCHANGED <<reply, prior>>

RestNext ==
  \/ \E t \in Client.token : AskToken(t)
  \/ FindOwner
  \/ \E s \in Client.address : AskAddress(s)
  \/ \E o \in Client.utxo : AskUtxo(o)
  \/ ReadRanges
  \/ ReplyRows
  \/ \E addresses \in Client.wallet : AskWallet(addresses)
  \/ QueryOwner
  \/ QueryOutpoint
  \/ QueryRanges
  \/ PrintAssets
  \/ Commit

RestSpec == RestInit /\ [][RestNext]_restVars

-----------------------------------------------------------------------------
(* Properties.                                                             *)

(* A listing put together from several queries is what was so at one       *)
(* moment, its first query: it never mixes two committed states, whatever  *)
(* is spent meanwhile.                                                     *)
ListingIsSnapshot ==
  reply.kind \in {"address", "utxo"} /\ reply.found => reply.assets = reply.truth

(* An owner answer names an output that then holds the token, or the       *)
(* initial owner when none does.  The collection was looked up before: a    *)
(* 404 is given only for what nobody holds, so no token is ever committed   *)
(* ahead of its collection, nor an outpoint's tokens ahead of its rows.     *)
OwnerAnswer ==
  /\ reply.kind = "token" /\ reply.found =>
       IF reply.status = "initial" THEN reply.truth = {} ELSE reply.out \in reply.truth
  /\ reply.kind \in {"token", "utxo"} /\ ~reply.found => reply.truth = {}

(* The two views agree over time: a client told that a token rests on an   *)
(* outpoint finds it there under the same owner for as long as the         *)
(* outpoint is found at all.                                               *)
OwnerThenAssets ==
  req = NoRequest /\ prior # NoReply /\ reply.kind = "utxo" /\ reply.found =>
    /\ prior.arg \in reply.assets
    /\ prior.owner = reply.owner

(* `wallet assets` takes a query per address, per outpoint and per row, and *)
(* no snapshot, so a token that moves meanwhile may be missing, or listed   *)
(* twice.  One that stays where it is from the first query to the last is   *)
(* listed, and nothing is listed that none of the addresses held meanwhile, *)
(* though rows may be spent before their ranges are read; merging the       *)
(* ranges of a row adds no slot between them.                               *)
StillTokensListed ==
  reply.kind = "wallet" =>
    reply.still \subseteq reply.assets /\ reply.assets \subseteq reply.ever

=============================================================================
