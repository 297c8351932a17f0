----------------------------- MODULE Membership -----------------------------
(***************************************************************************)
(* Readers and writers of one document (collabswarm-document.ts): the      *)
(* founder opens it, adds and removes readers and writers, and rotates the *)
(* document key; joiners take the ACL changes, Welcomes, PathUpdates, key  *)
(* updates and load responses that reach them.  It composes the keychain   *)
(* of Keychain with the ratchet tree of BeeKEM.                            *)
(*                                                                         *)
(* A step is the code between two awaits.  The founder runs open() and at  *)
(* most one membership call at a time beside it.  Messages stay in net: a  *)
(* joiner takes one late, out of order, more than once or never, and one   *)
(* whose stream failed is never taken.  Signing is on and everybody has    *)
(* installed a KEM key pair.                                               *)
(*                                                                         *)
(* A document key is a number: one made by the keychain, or the epoch key  *)
(* EpochKey(root) derived from a root secret.                              *)
(***************************************************************************)
EXTENDS Keychain, Integers

CONSTANTS Joiners,        \* numbers from 2 on; the founder is 1
          FounderClient,  \* the Yjs client id of the founder's keychain
          JoinerClient,   \* joiner -> the Yjs client id of its keychain
          DocClients,     \* client ids for the minimal documents of currentKeyChange
          FullHistory,    \* whether historyVisibility is 'full_history'
          MaxPending,     \* bound of the Welcome buffer (16 in the code)
          MaxCalls,       \* bound: membership calls of the founder
          MaxLoads,       \* bound: load requests of each joiner
          MaxKeys         \* bound: keychain entries with which a joiner takes a PathUpdate

B == INSTANCE BeeKEM

ASSUME MembershipAssumption ==
  /\ Joiners \subseteq (Nat \ {0, 1}) /\ IsFiniteSet(Joiners)
  /\ FounderClient \notin DocClients
  /\ \A x \in Joiners : JoinerClient[x] \notin DocClients \cup {FounderClient}
  /\ FullHistory \in BOOLEAN /\ MaxPending \in Nat \ {0}

VARIABLES
  open,    \* where open() of the founder is
  call,    \* the membership call the founder runs
  calls,   \* calls started
  f,       \* the founder's replica
  log,     \* the changes committed to its tree and published, in order
  mint,    \* the last key made
  free,    \* client ids of DocClients not used yet
  net,     \* the founder's messages
  load,    \* joiner -> its load request at the founder
  loads,   \* joiner -> load requests made
  j,       \* joiner -> its replica
  revoked  \* joiner -> epoch keys of removals it must not learn (see RevokedStaysOut)

membershipVars == <<open, call, calls, f, log, mint, free, net, load, loads, j, revoked>>

F == 1
People == {F} \cup Joiners
EpochKey(root) == 1000 + root
kemKey == [p \in People |-> p]

-----------------------------------------------------------------------------
(* An ACL is a Yjs map.  row gives the add that holds a user's row, 0 for  *)
(* no row.  The update of an add or a removal holds the adds it made and   *)
(* all deletions; a replica integrates an add once it has the earlier ones *)
(* of the same document.                                                   *)
EmptyAcl == [row |-> [p \in People |-> 0], clock |-> 0, dels |-> {}]

aclCheck(a, p) == a.row[p] # 0

aclAdd(a, p) == [a EXCEPT !.clock = @ + 1, !.row[p] = a.clock + 1]

aclRemove(a, p) == [a EXCEPT !.dels = @ \cup {a.row[p]}, !.row[p] = 0]

(* The users of an ACL at a replica that merged the first n changes. *)
UsersAt(kind, n) ==
  LET mine == {i \in 1..n : log[i].kind = kind}
      have == {log[i].clock : i \in mine}
      gone == UNION {log[i].dels : i \in mine}
  IN  {log[i].who : i \in {k \in mine : /\ log[k].clock \notin gone \cup {0}
                                        /\ 1..log[k].clock \subseteq have}}

(* An ACL change as _makeChange publishes it: under the current key. *)
Change(kind, acl, p, epoch) ==
  [kind |-> kind, who |-> p, clock |-> acl.row[p], dels |-> acl.dels,
   key |-> current(f.kc), epoch |-> epoch]

(* _makeChange of an ACL change: block, hash and message under the current *)
(* key; it throws on an empty keychain.                                    *)
Commit(change) == current(f.kc) # 0 /\ log' = Append(log, change)

-----------------------------------------------------------------------------
Idle == [pc |-> "idle", who |-> 0, root |-> 0, update |-> << >>, key |-> 0]
NoLoad == [pc |-> "none", seen |-> 0, items |-> {}, key |-> 0]
NoMessage == [kind |-> "none"]

(* The founder: ACLs, keychain, tree, and by reader the leaf index, the    *)
(* KEM key and the Welcome that it caches.                                 *)
Founder0 == [writers |-> EmptyAcl, readers |-> EmptyAcl, kc |-> Replica(FounderClient),
             tree |-> B!NoTree, leaf |-> [x \in Joiners |-> -1], kemPub |-> {},
             welcome |-> [x \in Joiners |-> B!NoWelcome]]

(* A joiner: how much of the log it merged, keychain, tree, invitation     *)
(* epoch (0 for undefined), the Welcomes buffered, the one its handler is  *)
(* about to buffer, and whether a drain was started.                       *)
Joiner0(x) == [seen |-> 0, kc |-> Replica(JoinerClient[x]), tree |-> B!NoTree, epoch |-> 0,
               pending |-> << >>, parking |-> NoMessage, drain |-> FALSE]

MembershipInit ==
  /\ open = "start" /\ call = Idle /\ calls = 0
  /\ f = Founder0
  /\ log = << >>
  /\ mint = Cardinality(People) /\ free = DocClients
  /\ net = {}
  /\ load = [x \in Joiners |-> NoLoad] /\ loads = [x \in Joiners |-> 0]
  /\ j = [x \in Joiners |-> Joiner0(x)]
  /\ revoked = [x \in Joiners |-> {}]

rest == <<net, load, loads, j, free>>

-----------------------------------------------------------------------------
(* open() of a document that no peer served: the founder's row, the first  *)
(* key, and the change that publishes the row.                             *)
OpenAddWriter ==
  /\ open = "start" /\ open' = "writer"
  /\ f' = [f EXCEPT !.writers = aclAdd(@, F)]
  /\ UNCHANGED <<call, calls, log, mint, rest, revoked>>

OpenAddKey ==
  /\ open = "writer" /\ open' = "key"
  /\ mint' = mint + 1
  /\ f' = [f EXCEPT !.kc = addKey(@, mint + 1)]
  /\ UNCHANGED <<call, calls, log, rest, revoked>>

OpenCommit ==
  /\ open = "key" /\ open' = "done"
  /\ Commit(Change("writer", f.writers, F, 0))
  /\ UNCHANGED <<call, calls, f, mint, rest, revoked>>

-----------------------------------------------------------------------------
(* Starting a call.  One that throws or returns before it changes anything *)
(* is not taken.                                                           *)
Start(c) ==
  /\ call = Idle /\ calls < MaxCalls
  /\ aclCheck(f.writers, F)
  /\ calls' = calls + 1
  /\ call' = c

Goto(pc) == call' = [call EXCEPT !.pc = pc]

Return == call' = Idle

(* The gate of addReader: with no tree yet and any change in _hashes the   *)
(* caller is taken for a writer that joined.                               *)
addReaderGate == f.tree # B!NoTree \/ Len(log) = 0

(* addReader: up to the row; a reader that has one goes on to the tree. *)
AddReader(x) ==
  /\ addReaderGate
  /\ IF aclCheck(f.readers, x)
     THEN Start([Idle EXCEPT !.pc = "register", !.who = x]) /\ f' = f
     ELSE /\ Start([Idle EXCEPT !.pc = "addReader", !.who = x])
          /\ f' = [f EXCEPT !.readers = aclAdd(@, x)]
  /\ revoked' = [revoked EXCEPT ![x] = {}]
  /\ UNCHANGED <<open, log, mint, rest>>

(* Without a KEM key of the reader the call ends with the row. *)
AddReaderCommit ==
  /\ call.pc = "addReader"
  /\ Commit(Change("reader", f.readers, call.who, 0))
  /\ Goto("register") \/ Return
  /\ UNCHANGED <<open, calls, f, mint, rest, revoked>>

(* _registerBeeKEMReader: an entry of the leaf cache makes the call a      *)
(* re-send; otherwise the tree is founded if there is none, unless more    *)
(* than one change is known, and the member added.  The founder holds the  *)
(* keys of its whole path, so building the Welcome does not throw.         *)
founded == IF f.tree = B!NoTree THEN B!initialize(kemKey[F]) ELSE f.tree

registerGate == f.tree # B!NoTree \/ Len(log) <= 1

Register ==
  LET x  == call.who
      f1 == [f EXCEPT !.kemPub = @ \cup {x}]
  IN  /\ call.pc = "register"
      /\ \/ f.leaf[x] # -1 /\ f' = f1 /\ Goto("epoch") /\ UNCHANGED mint
         \/ f.leaf[x] = -1 /\ ~registerGate /\ f' = f1 /\ Return /\ UNCHANGED mint
         \/ /\ f.leaf[x] = -1 /\ registerGate
            /\ \E r \in {B!addMember(founded, kemKey[x], mint)} :
                 /\ mint' = mint + Len(r.minted)
                 /\ f' = [f1 EXCEPT !.tree = r.tree, !.leaf[x] = r.welcome.leaf,
                                    !.welcome[x] = r.welcome]
                 /\ Goto("epoch")
      /\ UNCHANGED <<open, calls, log, rest, revoked>>

(* _keychainChangesForWelcome, and _keychainChangesForVisibility of the    *)
(* founder, which has no invitation epoch: the update and the client ids   *)
(* left; nothing where currentKeyChange throws on an empty keychain.       *)
Shared == IF FullHistory THEN {[items |-> history(f.kc), free |-> free]}
          ELSE IF current(f.kc) = 0 THEN {}
          ELSE {[items |-> currentKeyChange(f.kc, c), free |-> free \ {c}] : c \in free}

(* _sendBeeKEMWelcome: the epoch is read first, the keychain later. *)
WelcomeEpoch ==
  /\ call.pc = "epoch"
  /\ current(f.kc) # 0
  /\ call' = [call EXCEPT !.pc = "welcome", !.key = current(f.kc)]
  /\ UNCHANGED <<open, calls, f, log, mint, rest, revoked>>

WelcomeSend ==
  /\ call.pc = "welcome"
  /\ \E s \in Shared :
       /\ free' = s.free
       /\ net' = net \cup {[kind |-> "welcome", to |-> call.who, epoch |-> call.key,
                            items |-> s.items, tree |-> f.welcome[call.who]]}
  /\ Return
  /\ UNCHANGED <<open, calls, f, log, mint, load, loads, j, revoked>>

(* Whatever throws on the way is logged by addReader. *)
WelcomeFails ==
  /\ call.pc \in {"epoch", "welcome"}
  /\ Return
  /\ UNCHANGED <<open, calls, f, log, mint, rest, revoked>>

-----------------------------------------------------------------------------
(* removeReader: the leaf from the cache, or from the tree by the KEM key. *)
leafIndexOf(x) == IF f.leaf[x] # -1 THEN f.leaf[x]
                  ELSE IF x \in f.kemPub THEN B!findLeafByPublicKey(f.tree, kemKey[x])
                  ELSE -1

RemoveReader(x) ==
  /\ aclCheck(f.readers, x)
  /\ f.tree # B!NoTree
  /\ leafIndexOf(x) # -1
  /\ \E r \in {B!removeMember(f.tree, leafIndexOf(x), mint)} :
       /\ Start([Idle EXCEPT !.pc = "removeReader", !.who = x, !.root = r.root, !.update = r.update])
       /\ f' = [f EXCEPT !.tree = r.tree]
       /\ mint' = mint + Len(r.minted)
  /\ UNCHANGED <<open, log, rest, revoked>>

(* The row is removed and the change committed under the old key; a commit *)
(* that fails is logged and passed over.                                   *)
RemoveReaderAcl ==
  /\ call.pc = "removeReader"
  /\ f' = [f EXCEPT !.readers = aclRemove(@, call.who)]
  /\ \/ UNCHANGED log
     \/ Commit(Change("reader", f'.readers, call.who, EpochKey(call.root)))
  /\ revoked' = [revoked EXCEPT ![call.who] =
                   IF ~aclCheck(f.writers, call.who)
                   THEN @ \cup {EpochKey(call.root)} ELSE @]
  /\ Goto("forget")
  /\ UNCHANGED <<open, calls, mint, rest>>

(* The caches are cleared, then the PathUpdate goes out. *)
RemoveReaderSend ==
  /\ call.pc = "forget"
  /\ f' = [f EXCEPT !.leaf[call.who] = -1, !.kemPub = @ \ {call.who},
                    !.welcome[call.who] = B!NoWelcome]
  /\ net' = net \cup {[kind |-> "path", update |-> call.update, epoch |-> EpochKey(call.root)]}
  /\ Goto("install")
  /\ UNCHANGED <<open, calls, log, mint, free, load, loads, j, revoked>>

RemoveReaderInstall ==
  /\ call.pc = "install"
  /\ f' = [f EXCEPT !.kc = addKey(@, EpochKey(call.root))]
  /\ Return
  /\ UNCHANGED <<open, calls, log, mint, rest, revoked>>

-----------------------------------------------------------------------------
(* addWriter and removeWriter.  The latter rotates the key: the previous   *)
(* one is read, a new one added, and its entry sent under the previous.    *)
AddWriter(x) ==
  /\ ~aclCheck(f.writers, x)
  /\ Start([Idle EXCEPT !.pc = "addWriter", !.who = x])
  /\ f' = [f EXCEPT !.writers = aclAdd(@, x)]
  /\ revoked' = [revoked EXCEPT ![x] = {}]
  /\ UNCHANGED <<open, log, mint, rest>>

AddWriterCommit ==
  /\ call.pc = "addWriter"
  /\ Commit(Change("writer", f.writers, call.who, 0))
  /\ Return
  /\ UNCHANGED <<open, calls, f, mint, rest, revoked>>

RemoveWriter(x) ==
  /\ aclCheck(f.writers, x)
  /\ Start([Idle EXCEPT !.pc = "removeWriter", !.who = x])
  /\ f' = [f EXCEPT !.writers = aclRemove(@, x)]
  /\ UNCHANGED <<open, log, mint, rest, revoked>>

RemoveWriterCommit ==
  /\ call.pc = "removeWriter"
  /\ Commit(Change("writer", f.writers, call.who, 0))
  /\ Goto("rotate")
  /\ UNCHANGED <<open, calls, f, mint, rest, revoked>>

RotateKey ==
  /\ call.pc = "rotate"
  /\ mint' = mint + 1
  /\ f' = [f EXCEPT !.kc = addKey(@, mint + 1)]
  /\ net' = net \cup {[kind |-> "key", under |-> current(f.kc),
                       items |-> {NextEntry(f.kc, mint + 1)}]}
  /\ Return
  /\ UNCHANGED <<open, calls, log, free, load, loads, j, revoked>>

(* The block store or the empty keychain rejects: the call throws, the     *)
(* local row stays as it is.                                               *)
CommitFails ==
  /\ call.pc \in {"addReader", "addWriter", "removeWriter"}
  /\ Return
  /\ UNCHANGED <<open, calls, f, log, mint, rest, revoked>>

FounderNext ==
  \/ OpenAddWriter \/ OpenAddKey \/ OpenCommit
  \/ \E x \in Joiners : AddReader(x) \/ RemoveReader(x) \/ AddWriter(x) \/ RemoveWriter(x)
  \/ AddReaderCommit \/ Register \/ WelcomeEpoch \/ WelcomeSend \/ WelcomeFails
  \/ RemoveReaderAcl \/ RemoveReaderSend \/ RemoveReaderInstall
  \/ AddWriterCommit \/ RemoveWriterCommit \/ RotateKey \/ CommitFails

-----------------------------------------------------------------------------
(* What a joiner knows of the ACLs.  Signatures of everything the founder  *)
(* sends are checked against the writers the joiner has.                   *)
IsReader(r, x) == x \in UsersAt("reader", r.seen)
Trusts(r) == F \in UsersAt("writer", r.seen)

(* Merging the first n changes; _mergeReaders starts a drain whenever it   *)
(* merges a reader change and Welcomes are buffered.                       *)
MergeChanges(r, n) ==
  [r EXCEPT !.seen = IF n > @ THEN n ELSE @,
            !.drain = @ \/ /\ r.pending # << >>
                           /\ \E i \in 1..n : log[i].kind = "reader"]

(* sync(): keychain update first, then the changes of the tree. *)
sync(r, items, n) == MergeChanges([r EXCEPT !.kc = mergeKeys(@, items)], n)

Joins(x, r) == j' = [j EXCEPT ![x] = r]

founder == <<open, call, calls, f, log, mint>>

(* The application hands a joiner whose row exists a message of the        *)
(* founder, out of band, and calls sync(message, false).                   *)
Bootstrap(x) ==
  /\ j[x].seen = 0 /\ Len(log) > 0
  /\ aclCheck(f.readers, x) \/ aclCheck(f.writers, x)
  /\ \E s \in Shared : Joins(x, sync(j[x], s.items, Len(log))) /\ free' = s.free
  /\ UNCHANGED <<founder, net, load, loads, revoked>>

(* A published change: dropped unless its key is in the cache and its      *)
(* signer a known writer.  Its tree carries every change before it.        *)
ReceiveChange(x, n) ==
  /\ getKey(j[x].kc, log[n].key) /\ Trusts(j[x])
  /\ Joins(x, MergeChanges(j[x], n))
  /\ UNCHANGED <<founder, free, net, load, loads, revoked>>

(* handleLoadRequestData: the ACL is checked; awaits; tree and keychain    *)
(* are read; awaits; the answer is encrypted under the current key.        *)
LoadRequest(x) ==
  /\ load[x] = NoLoad /\ loads[x] < MaxLoads
  /\ aclCheck(f.readers, x) \/ aclCheck(f.writers, x)
  /\ load' = [load EXCEPT ![x].pc = "allowed"]
  /\ loads' = [loads EXCEPT ![x] = @ + 1]
  /\ UNCHANGED <<founder, free, net, j, revoked>>

LoadRead(x) ==
  /\ load[x].pc = "allowed"
  /\ \E s \in Shared :
       /\ load' = [load EXCEPT ![x] = [pc |-> "read", seen |-> Len(log), items |-> s.items, key |-> 0]]
       /\ free' = s.free
  /\ UNCHANGED <<founder, net, loads, j, revoked>>

LoadAnswer(x) ==
  /\ load[x].pc = "read" /\ current(f.kc) # 0
  /\ load' = [load EXCEPT ![x].pc = "sent", ![x].key = current(f.kc)]
  /\ UNCHANGED <<founder, free, net, loads, j, revoked>>

(* Without a key the request fails, with an empty answer. *)
LoadFails(x) ==
  /\ load[x].pc \in {"allowed", "read"} /\ current(f.kc) = 0
  /\ load' = [load EXCEPT ![x] = NoLoad]
  /\ UNCHANGED <<founder, free, net, loads, j, revoked>>

(* The answer is skipped when its key is not in the cache or its signer    *)
(* is not among the known writers, if any are known.                       *)
LoadReceive(x) ==
  /\ load[x].pc = "sent"
  /\ load' = [load EXCEPT ![x] = NoLoad]
  /\ IF getKey(j[x].kc, load[x].key) /\ (UsersAt("writer", j[x].seen) = {} \/ Trusts(j[x]))
     THEN Joins(x, sync(j[x], load[x].items, load[x].seen))
     ELSE UNCHANGED j
  /\ UNCHANGED <<founder, free, net, loads, revoked>>

-----------------------------------------------------------------------------
(* Applying an accepted Welcome: the keychain update, the tree (a Welcome  *)
(* that cannot be opened leaves it), and the invitation epoch.  A later    *)
(* Welcome moves the epoch only to a later position of the keychain.       *)
shouldAdvance(kc, old, new) ==
  LET ids == KeyIds(kc)
  IN  \E a, b \in 1..Len(ids) : ids[a] = old /\ ids[b] = new /\ a < b

setEpoch(r, e) ==
  IF r.epoch = 0 THEN [r EXCEPT !.epoch = e]
  ELSE IF r.epoch = e THEN r
  ELSE [r EXCEPT !.kc = afterKeys(@), !.epoch = IF shouldAdvance(r.kc, @, e) THEN e ELSE @]

applyWelcome(r, x, m) ==
  LET t == B!processWelcome(m.tree, kemKey[x])
  IN  setEpoch([r EXCEPT !.kc = mergeKeys(@, m.items),
                         !.tree = IF t = B!NoTree THEN @ ELSE t], m.epoch)

Accepts(r, x) == IsReader(r, x) /\ Trusts(r)

(* A Welcome arrives: a reader takes it (or drops it on its signature),    *)
(* anybody else buffers it, after an await.                                *)
WelcomeArrives(x, m) ==
  /\ m.kind = "welcome" /\ m.to = x
  /\ \/ Accepts(j[x], x) /\ Joins(x, applyWelcome(j[x], x, m))
     \/ ~IsReader(j[x], x) /\ j[x].parking = NoMessage
        /\ Joins(x, [j[x] EXCEPT !.parking = m])
  /\ UNCHANGED <<founder, free, net, load, loads, revoked>>

(* _bufferPendingWelcome: one entry per epoch, the oldest evicted. *)
buffered(pending, m) ==
  LET others == SelectSeq(pending, LAMBDA w : w.epoch # m.epoch)
  IN  Append(IF Len(others) >= MaxPending THEN Tail(others) ELSE others, m)

BufferWelcome(x) ==
  /\ j[x].parking # NoMessage
  /\ Joins(x, [j[x] EXCEPT !.pending = buffered(@, j[x].parking), !.parking = NoMessage])
  /\ UNCHANGED <<founder, free, net, load, loads, revoked>>

(* _drainPendingWelcomes: expired entries go, the others are evaluated     *)
(* again and go when they are accepted.                                    *)
DrainWelcomes(x) ==
  /\ j[x].drain
  /\ \E expired \in SUBSET DOMAIN j[x].pending :
       LET p     == j[x].pending
           fresh == SelectSeq([i \in DOMAIN p |-> [p[i] EXCEPT !.to = IF i \in expired THEN 0 ELSE @]],
                              LAMBDA w : w.to # 0)
           take(r, w) == applyWelcome(r, x, w)
           r0    == [j[x] EXCEPT !.drain = FALSE, !.pending = IF Accepts(j[x], x) THEN << >> ELSE fresh]
       IN  Joins(x, IF Accepts(j[x], x) THEN FoldLeft(take, r0, fresh) ELSE r0)
  /\ UNCHANGED <<founder, free, net, load, loads, revoked>>

-----------------------------------------------------------------------------
(* handleBeeKEMPathUpdateRequestData: the update must open, and its root   *)
(* give the announced epoch.  Taken twice it appends the key twice.        *)
ReceivePathUpdate(x, m) ==
  /\ m.kind = "path" /\ Trusts(j[x]) /\ j[x].tree # B!NoTree
  /\ Cardinality(j[x].kc.items) < MaxKeys
  /\ \E r \in {B!processPathUpdate(j[x].tree, m.update)} :
       Joins(x, [j[x] EXCEPT !.tree = r.tree,
                             !.kc = IF r.root # B!NoKey /\ EpochKey(r.root) = m.epoch
                                    THEN addKey(@, m.epoch) ELSE @])
  /\ UNCHANGED <<founder, free, net, load, loads, revoked>>

(* handleKeyUpdateRequestData: opened with a key of the cache. *)
ReceiveKeyUpdate(x, m) ==
  /\ m.kind = "key" /\ getKey(j[x].kc, m.under) /\ Trusts(j[x])
  /\ Joins(x, [j[x] EXCEPT !.kc = mergeKeys(@, m.items)])
  /\ UNCHANGED <<founder, free, net, load, loads, revoked>>

(* The joiner answers a load request or publishes: current() fills the     *)
(* cache.                                                                  *)
UseKeychain(x) ==
  /\ current(j[x].kc) # 0
  /\ Joins(x, [j[x] EXCEPT !.kc = afterCurrent(@)])
  /\ UNCHANGED <<founder, free, net, load, loads, revoked>>

JoinerNext(x) ==
  \/ Bootstrap(x) \/ \E n \in 1..Len(log) : ReceiveChange(x, n)
  \/ LoadRequest(x) \/ LoadRead(x) \/ LoadAnswer(x) \/ LoadFails(x) \/ LoadReceive(x)
  \/ \E m \in net : WelcomeArrives(x, m) \/ ReceivePathUpdate(x, m) \/ ReceiveKeyUpdate(x, m)
  \/ BufferWelcome(x) \/ DrainWelcomes(x) \/ UseKeychain(x)

MembershipNext == FounderNext \/ \E x \in Joiners : JoinerNext(x)

-----------------------------------------------------------------------------
(* MembershipTypeOK: counters, buffers and key IDs stay in range; the buffer of      *)
(* Welcomes keeps to its bound (_bufferPendingWelcome).                    *)
Keys == 0..EpochKey(mint)

MembershipTypeOK ==
  /\ open \in {"start", "writer", "key", "done"}
  /\ call.who \in {0} \cup Joiners /\ calls \in 0..MaxCalls
  /\ free \subseteq DocClients
  /\ \A x \in Joiners :
       /\ j[x].seen \in 0..Len(log)
       /\ Len(j[x].pending) <= MaxPending
       /\ j[x].kc.cached \subseteq Keys
       /\ j[x].epoch \in Keys

(* EpochKeysHeld: a joiner's invitation epoch is a key of its keychain, so *)
(* that the history it later shares since its invitation starts there and  *)
(* does not fall back to everything it has (keychainHistorySinceOrFull).   *)
(* The epoch key that removeReader installs never reaches the keychain of  *)
(* the reader it removed, through no message sent before or after and no   *)
(* load request that passed its ACL check before, unless it is invited     *)
(* again or is a writer; but the change that removes the reader is under a *)
(* key that those who stay already have.                                   *)
(* It includes the types.                                                  *)
EpochKeysHeld ==
  /\ MembershipTypeOK
  /\ \A x \in Joiners : j[x].epoch # 0 => Has(j[x].kc, j[x].epoch)
  /\ \A x \in Joiners : \A k \in revoked[x] : ~Has(j[x].kc, k)
  /\ \A i \in 1..Len(log) : log[i].epoch = 0 \/ log[i].key # log[i].epoch

-----------------------------------------------------------------------------
(* Statements of comments in the code that do not hold.                    *)

(* LaterMeansLater: the comment on _shouldAdvanceInvitationEpoch: "the     *)
(* array position is the canonical 'later means later' ordering": the      *)
(* keys of a joiner's keychain stand in the order the founder made them.   *)
FounderPosition(k) == CHOOSE i \in DOMAIN KeyIds(f.kc) : KeyIds(f.kc)[i] = k

LaterMeansLater ==
  \A x \in Joiners :
    LET ids == KeyIds(j[x].kc)
    IN  \A a, b \in DOMAIN ids : a < b => FounderPosition(ids[a]) <= FounderPosition(ids[b])

(* BufferingClosesTheRace: the comment on _pendingWelcomes: a Welcome that *)
(* is buffered by a joiner that is a reader by now is about to be drained. *)
BufferingClosesTheRace ==
  \A x \in Joiners : Accepts(j[x], x) /\ j[x].pending # << >> => j[x].drain

(* FounderMayInvite: the comment in addReader: the founder's first call    *)
(* finds no change in _hashes.                                             *)
FounderMayInvite == open = "done" /\ calls = 0 => addReaderGate
=============================================================================
