---------------------------- MODULE BlockDownload ----------------------------
(***************************************************************************)
(* How nodes get each other's blocks: the handlers of version, inv,        *)
(* getblocks, getdata and block in ProcessMessage, SendMessages, and       *)
(* ProcessBlock with the orphan blocks.  Every node runs the same code; a  *)
(* connection carries the messages of each side in order, and those on the *)
(* way are lost when it breaks.  net.h, which is not in the repository,    *)
(* has PushInventory, AskFor and PushGetBlocks.                            *)
(*                                                                         *)
(* Blocks are valid and of the same work; AddToBlockIndex is modelled with *)
(* all its outcomes in BlockChain.  Peers are full nodes of this version.  *)
(* A new block is relayed to every peer: the code leaves out those whose   *)
(* chain was 2000 blocks longer when they connected.                       *)
(***************************************************************************)
EXTENDS BlockTree, BlockLocator, SequencesExt

CONSTANTS
  Node,
  StartTips,       \* the tips a node may start on
  nLimit,          \* the blocks announced for one getblocks; 500 in the code
  MaxWait,         \* bound on the ticks a request is put off
  MaxDisconnects   \* bound on the connections that break

ASSUME DownloadAssumption ==
  /\ StartTips \in [Node -> SUBSET Block]
  /\ nLimit \in Nat \ {0} /\ MaxWait \in Nat \ {0} /\ MaxDisconnects \in Nat

VARIABLES
  mapBlockIndex, pindexBest, mapOrphanBlocks,
  mapAlreadyAskedFor,  \* the ticks until a block may be asked for again
  fAskedForBlocks,     \* nAskedForBlocks # 0
  pnode,               \* the CNode that a node keeps of a peer, or Null
  channel,             \* the messages on the way from one node to another
  nDisconnects

nodeVars == <<mapBlockIndex, pindexBest, mapOrphanBlocks>>
downloadVars ==
  <<nodeVars, mapAlreadyAskedFor, fAskedForBlocks, pnode, channel, nDisconnects>>

Link == {l \in Node \X Node : l[1] # l[2]}

\* Two minutes, the time before a block is asked for again, are one tick.
nRetry == 1

NewNode(inbound) ==
  [fInbound |-> inbound,
   nVersion |-> FALSE,             \* whether the version message has come
   setInventoryKnown |-> {}, vInventoryToSend |-> <<>>,
   mapAskFor |-> [w \in 0..MaxWait |-> <<>>],  \* by the ticks left, in order
   hashContinue |-> Null,
   lastGetBlocks |-> Null]         \* pindexLastGetBlocksBegin, hashLastGetBlocksEnd

\* A call of PushGetBlocks.
Request == [pindexBegin : Block, hashEnd : Block \cup {Null}]

CNode ==
  [fInbound : BOOLEAN, nVersion : BOOLEAN,
   setInventoryKnown : SUBSET Block, vInventoryToSend : Seq(Block),
   mapAskFor : [0..MaxWait -> Seq(Block)],
   hashContinue : Block \cup {Null}, lastGetBlocks : Request \cup {Null}]

Message ==
  [type : {"version"}] \cup [type : {"inv", "getdata"}, inv : Seq(Block)]
  \cup [type : {"getblocks"}, locator : Seq(Block), hashStop : Block \cup {Null}]
  \cup [type : {"block"}, block : Block]

DownloadTypeOK ==
  /\ mapBlockIndex \in [Node -> SUBSET Block]
  /\ \A n \in Node : pindexBest[n] \in mapBlockIndex[n]
  /\ \A n \in Node : mapOrphanBlocks[n] \subseteq Block \ mapBlockIndex[n]
  /\ mapAlreadyAskedFor \in [Node -> [Block -> 0..MaxWait]]
  /\ fAskedForBlocks \in [Node -> BOOLEAN]
  /\ channel \in [Link -> Seq(Message)]
  /\ pnode \in [Link -> CNode \cup {Null}]
  /\ nDisconnects \in 0..MaxDisconnects

\* The nodes start on branches of their own, not connected.
DownloadInit ==
  \E tip \in [Node -> Block] :
    /\ \A n \in Node : tip[n] \in StartTips[n]
    /\ mapBlockIndex = [n \in Node |-> Ancestors(tip[n])]
    /\ pindexBest = tip
    /\ mapOrphanBlocks = [n \in Node |-> {}]
    /\ mapAlreadyAskedFor = [n \in Node |-> [b \in Block |-> 0]]
    /\ fAskedForBlocks = [n \in Node |-> FALSE]
    /\ pnode = [l \in Link |-> Null]
    /\ channel = [l \in Link |-> <<>>]
    /\ nDisconnects = 0

-----------------------------------------------------------------------------
(* CNode, from net.h.                                                      *)

vNodes(n) == {m \in Node \ {n} : pnode[<<n, m>>] # Null}

\* The entries of s that are in S, in their order.
Within(s, S) ==
  LET Kept[k \in 0..Len(s)] ==
        IF k = 0 THEN <<>>
        ELSE IF s[k] \in S THEN Append(Kept[k - 1], s[k]) ELSE Kept[k - 1]
  IN Kept[Len(s)]

Unknown(node, invs) == Within(invs, Block \ node.setInventoryKnown)

PushInventory(node, invs) == [node EXCEPT !.vInventoryToSend = @ \o Unknown(node, invs)]

AddInventoryKnown(node, invs) == [node EXCEPT !.setInventoryKnown = @ \cup ToSet(invs)]

\* When a node that asks for b has it on its list to ask.
nRequestTime(n, b) == Min({mapAlreadyAskedFor[n][b], MaxWait - nRetry})

AskFor(n, node, invs) ==
  [node EXCEPT !.mapAskFor =
     [w \in 0..MaxWait |-> @[w] \o Within(invs, {b \in Block : nRequestTime(n, b) = w})]]

\* The sequence, in a set of its own, of what stands in s at the places of P.
Picked(s, P) ==
  LET InOrder == {at \in UNION {[1..k -> P] : k \in 0..Cardinality(P)} :
                    /\ P \subseteq ToSet(at)
                    /\ \A i, j \in DOMAIN at : i < j => at[i] < at[j]}
  IN {[k \in DOMAIN at |-> s[at[k]]] : at \in InOrder}

\* The requests that do not repeat the one before.
Fresh(node, requests) ==
  Picked(requests,
         {i \in DOMAIN requests :
            requests[i] # IF i = 1 THEN node.lastGetBlocks ELSE requests[i - 1]})

PushGetBlocks(node, requests) ==
  [node EXCEPT !.lastGetBlocks = IF requests = <<>> THEN @ ELSE Last(requests)]

GetBlocksMessages(requests) ==
  [i \in DOMAIN requests |->
     [type |-> "getblocks", locator |-> vHave(Branch[requests[i].pindexBegin]),
      hashStop |-> requests[i].hashEnd]]

-----------------------------------------------------------------------------
(* The blocks of a node.                                                   *)

AlreadyHave(n) == mapBlockIndex[n] \cup mapOrphanBlocks[n]

\* The first block of an orphan chain.
GetOrphanRoot(n, b) ==
  LET first == Min({i \in DOMAIN Branch[b] :
                      \A j \in i..Len(Branch[b]) - 1 : Branch[b][j] \in mapOrphanBlocks[n]})
  IN Branch[b][first]

FillIn(n, b) == [pindexBegin |-> pindexBest[n], hashEnd |-> GetOrphanRoot(n, b)]

MutantOrphansWait(n, b) == {b}

\* What b brings into the block index: itself and the orphans that depend on it.
Accepted(n, b) ==
  {c \in mapOrphanBlocks[n] \cup {b} : Ancestors(c) \subseteq AlreadyHave(n) \cup {b}}

MutantOrphansKept(n, accepted) == mapOrphanBlocks[n]

OrphansLeft(n, accepted) == mapOrphanBlocks[n] \ accepted

\* The blocks that become the best one in turn; on each height the first accepted.
BestInTurn(n, accepted) ==
  {s \in UNION {[1..k -> accepted] : k \in 0..Cardinality(accepted)} :
     /\ \A i \in DOMAIN s : nHeight(s[i]) = nHeight(pindexBest[n]) + i
     /\ \A c \in accepted : nHeight(c) <= nHeight(pindexBest[n]) + Len(s)}

\* AcceptBlock announces a new best block to every peer; nodes are those of n.
Relay(n, l, node, s) == IF l[1] = n /\ node # Null THEN PushInventory(node, s) ELSE node

\* AcceptBlock of b and of the orphans that depend on it, with the nodes of n
\* before the relay.
AcceptBlock(n, b, nodes) ==
  LET accepted == Accepted(n, b) IN
  /\ mapBlockIndex' = [mapBlockIndex EXCEPT ![n] = @ \cup accepted]
  /\ mapOrphanBlocks' = [mapOrphanBlocks EXCEPT ![n] = OrphansLeft(n, accepted)]
  /\ \E s \in BestInTurn(n, accepted) :
       /\ pindexBest' = IF s = <<>> THEN pindexBest ELSE [pindexBest EXCEPT ![n] = Last(s)]
       /\ pnode' = [l \in Link |-> Relay(n, l, nodes[l], s)]

-----------------------------------------------------------------------------
(* The handlers: node n takes a message of node m.                         *)

Send(from, to, messages) == [channel EXCEPT ![<<from, to>>] = @ \o messages]

\* The channels after n has taken the first message of m and answered.
Answer(n, m, messages) ==
  [channel EXCEPT ![<<m, n>>] = Tail(@), ![<<n, m>>] = @ \o messages]

Received(n, m, type) ==
  /\ m \in vNodes(n)
  /\ channel[<<m, n>>] # <<>>
  /\ Head(channel[<<m, n>>]).type = type

\* Ask the first connected node for block updates.
AsksForBlocks(n) == ~fAskedForBlocks[n] \/ Cardinality(vNodes(n)) <= 1

ReceiveVersion(n, m) ==
  /\ Received(n, m, "version")
  /\ LET node == [pnode[<<n, m>>] EXCEPT !.nVersion = TRUE]
         hello == IF node.fInbound THEN <<[type |-> "version"]>> ELSE <<>>
         requests == IF AsksForBlocks(n)
                     THEN <<[pindexBegin |-> pindexBest[n], hashEnd |-> Null]>> ELSE <<>>
     IN /\ pnode' = [pnode EXCEPT ![<<n, m>>] = PushGetBlocks(node, requests)]
        /\ \E fresh \in Fresh(node, requests) :
             channel' = Answer(n, m, hello \o GetBlocksMessages(fresh))
        /\ fAskedForBlocks' = [fAskedForBlocks EXCEPT ![n] = @ \/ AsksForBlocks(n)]
  /\ UNCHANGED <<nodeVars, mapAlreadyAskedFor, nDisconnects>>

\* What an inv makes a node ask for with getblocks: the blocks before an orphan, and
\* those after the last one announced if it has that.
Continuations(n, inv) ==
  LET last == Last(inv)
      orphans == Within(inv, mapOrphanBlocks[n])
  IN [i \in DOMAIN orphans |-> FillIn(n, orphans[i])] \o
     IF last \in mapBlockIndex[n] THEN <<[pindexBegin |-> last, hashEnd |-> Null]>> ELSE <<>>

ReceiveInv(n, m) ==
  /\ Received(n, m, "inv")
  /\ LET inv == Head(channel[<<m, n>>]).inv
         new == Within(inv, Block \ AlreadyHave(n))
         node == AskFor(n, AddInventoryKnown(pnode[<<n, m>>], inv), new)
         requests == Continuations(n, inv)
     IN /\ pnode' = [pnode EXCEPT ![<<n, m>>] = PushGetBlocks(node, requests)]
        /\ \E fresh \in Fresh(node, requests) :
             channel' = Answer(n, m, GetBlocksMessages(fresh))
        /\ mapAlreadyAskedFor' =
             [mapAlreadyAskedFor EXCEPT ![n] =
                [b \in Block |-> IF b \in ToSet(new) THEN nRequestTime(n, b) + nRetry ELSE @[b]]]
  /\ UNCHANGED <<nodeVars, fAskedForBlocks, nDisconnects>>

\* The blocks of the main chain after the last common one, up to hashStop.
RestOfChain(n, message) ==
  LET main == Branch[pindexBest[n]]
      first == nHeight(GetBlockIndex(message.locator, main)) + 2
      stop == {i \in first..Len(main) : main[i] = message.hashStop}
  IN SubSeq(main, first, Min({Len(main)} \cup {i - 1 : i \in stop}))

ReceiveGetBlocks(n, m) ==
  /\ Received(n, m, "getblocks")
  /\ LET rest == RestOfChain(n, Head(channel[<<m, n>>]))
         sent == SubSeq(rest, 1, Min({nLimit, Len(rest)}))
         node == PushInventory(pnode[<<n, m>>], sent)
     IN pnode' = [pnode EXCEPT ![<<n, m>>] =
          IF Len(sent) = nLimit THEN [node EXCEPT !.hashContinue = Last(sent)] ELSE node]
  /\ channel' = Answer(n, m, <<>>)
  /\ UNCHANGED <<nodeVars, mapAlreadyAskedFor, fAskedForBlocks, nDisconnects>>

BlockMessages(s) == [i \in DOMAIN s |-> [type |-> "block", block |-> s[i]]]

MutantNeverContinues(node, found) == {}

\* The places in found of the block that ended an answer to getblocks.
ContinueAt(node, found) == {i \in DOMAIN found : found[i] = node.hashContinue}

\* The answer to a getdata: the blocks that are there and, after hashContinue, the
\* best one, to trigger the next getblocks.
ReceiveGetData(n, m) ==
  /\ Received(n, m, "getdata")
  /\ LET inv == Head(channel[<<m, n>>]).inv IN
     \E found \in Picked(inv, {i \in DOMAIN inv : inv[i] \in mapBlockIndex[n]}) :
       LET next == ContinueAt(pnode[<<n, m>>], found)
           best == <<[type |-> "inv", inv |-> <<pindexBest[n]>>]>>
       IN \/ /\ next = {}
             /\ channel' = Answer(n, m, BlockMessages(found))
             /\ pnode' = pnode
          \/ \E i \in next :
               /\ \A j \in next : i <= j
               /\ channel' = Answer(n, m, BlockMessages(SubSeq(found, 1, i)) \o best
                               \o BlockMessages(SubSeq(found, i + 1, Len(found))))
               /\ pnode' = [pnode EXCEPT ![<<n, m>>].hashContinue = Null]
  /\ UNCHANGED <<nodeVars, mapAlreadyAskedFor, fAskedForBlocks, nDisconnects>>

\* ProcessBlock: a block whose parent is not known waits as an orphan, and the node
\* it came from is asked for what is missing.
ProcessBlock(n, m, b, nodes) ==
  \/ /\ b \in AlreadyHave(n)
     /\ pnode' = nodes
     /\ channel' = Answer(n, m, <<>>)
     /\ UNCHANGED <<nodeVars, mapAlreadyAskedFor>>
  \/ /\ b \notin AlreadyHave(n) /\ hashPrevBlock[b] \notin mapBlockIndex[n]
     /\ mapOrphanBlocks' = [mapOrphanBlocks EXCEPT ![n] = @ \cup {b}]
     /\ LET requests == <<FillIn(n, b)>> IN
        /\ pnode' = [nodes EXCEPT ![<<n, m>>] = PushGetBlocks(@, requests)]
        /\ \E fresh \in Fresh(nodes[<<n, m>>], requests) :
             channel' = Answer(n, m, GetBlocksMessages(fresh))
     /\ mapAlreadyAskedFor' = [mapAlreadyAskedFor EXCEPT ![n][b] = 0]
     /\ UNCHANGED <<mapBlockIndex, pindexBest>>
  \/ /\ b \notin AlreadyHave(n) /\ hashPrevBlock[b] \in mapBlockIndex[n]
     /\ AcceptBlock(n, b, nodes)
     /\ channel' = Answer(n, m, <<>>)
     /\ mapAlreadyAskedFor' = [mapAlreadyAskedFor EXCEPT ![n][b] = 0]

ReceiveBlock(n, m) ==
  /\ Received(n, m, "block")
  /\ LET b == Head(channel[<<m, n>>]).block
     IN ProcessBlock(n, m, b, [pnode EXCEPT ![<<n, m>>] = AddInventoryKnown(@, <<b>>)])
  /\ UNCHANGED <<fAskedForBlocks, nDisconnects>>

\* The first of every value in a sequence.
FirstOfEach(s) == Picked(s, {i \in DOMAIN s : \A j \in 1..i - 1 : s[j] # s[i]})

\* SendMessages to m: the blocks m is not known to know, and a getdata for those
\* whose time has come and that have not arrived meanwhile.
SendMessages(n, m) ==
  /\ m \in vNodes(n) /\ pnode[<<n, m>>].nVersion
  /\ LET node == pnode[<<n, m>>]
         get == Within(node.mapAskFor[0], Block \ AlreadyHave(n))
         say(type, s) == IF s = <<>> THEN <<>> ELSE <<[type |-> type, inv |-> s]>>
     IN /\ node.vInventoryToSend # <<>> \/ node.mapAskFor[0] # <<>>
        /\ \E inv \in FirstOfEach(Unknown(node, node.vInventoryToSend)) :
             /\ pnode' = [pnode EXCEPT ![<<n, m>>] =
                  [AddInventoryKnown(node, inv) EXCEPT
                     !.vInventoryToSend = <<>>, !.mapAskFor[0] = <<>>]]
             /\ channel' = Send(n, m, say("inv", inv) \o say("getdata", get))
        /\ mapAlreadyAskedFor' =
             [mapAlreadyAskedFor EXCEPT ![n] =
                [b \in Block |-> IF b \in ToSet(get) THEN nRetry ELSE @[b]]]
  /\ UNCHANGED <<nodeVars, fAskedForBlocks, nDisconnects>>

-----------------------------------------------------------------------------
(* What happens around the handlers.                                       *)

\* n connects to m; the node that connects sends its version first.
Connect(n, m) ==
  /\ m \notin vNodes(n)
  /\ pnode' = [pnode EXCEPT ![<<n, m>>] = NewNode(FALSE), ![<<m, n>>] = NewNode(TRUE)]
  /\ channel' = Send(n, m, <<[type |-> "version"]>>)
  /\ UNCHANGED <<nodeVars, mapAlreadyAskedFor, fAskedForBlocks, nDisconnects>>

Disconnect(n, m) ==
  /\ m \in vNodes(n) /\ nDisconnects < MaxDisconnects
  /\ pnode' = [pnode EXCEPT ![<<n, m>>] = Null, ![<<m, n>>] = Null]
  /\ channel' = [channel EXCEPT ![<<n, m>>] = <<>>, ![<<m, n>>] = <<>>]
  /\ nDisconnects' = nDisconnects + 1
  /\ UNCHANGED <<nodeVars, mapAlreadyAskedFor, fAskedForBlocks>>

\* A block mined on the best one, ProcessBlock without a peer.
NewBlock(n) ==
  /\ \E b \in Block \ {hashGenesisBlock} :
       /\ hashPrevBlock[b] = pindexBest[n]
       /\ \A m \in Node : b \notin AlreadyHave(m)
       /\ AcceptBlock(n, b, pnode)
  /\ UNCHANGED <<mapAlreadyAskedFor, fAskedForBlocks, channel, nDisconnects>>

TickNode(node) ==
  IF node = Null THEN Null
  ELSE [node EXCEPT !.mapAskFor =
          [w \in 0..MaxWait |->
             IF w = 0 THEN @[0] \o @[1] ELSE IF w = MaxWait THEN <<>> ELSE @[w + 1]]]

\* Two minutes pass for every node.
Tick ==
  /\ mapAlreadyAskedFor' =
       [n \in Node |-> [b \in Block |-> Max({mapAlreadyAskedFor[n][b] - 1, 0})]]
  /\ pnode' = [l \in Link |-> TickNode(pnode[l])]
  /\ UNCHANGED <<nodeVars, fAskedForBlocks, channel, nDisconnects>>

Receive(n, m) ==
  \/ ReceiveVersion(n, m) \/ ReceiveInv(n, m) \/ ReceiveGetBlocks(n, m)
  \/ ReceiveGetData(n, m) \/ ReceiveBlock(n, m)

DownloadNext ==
  \/ \E n \in Node, m \in Node :
       n # m /\ (Receive(n, m) \/ SendMessages(n, m) \/ Connect(n, m) \/ Disconnect(n, m))
  \/ \E n \in Node : NewBlock(n)
  \/ Tick

DownloadSpec == DownloadInit /\ [][DownloadNext]_downloadVars

\* ThreadMessageHandler serves every node over and over, ThreadOpenConnections
\* connects, and time goes on.
DownloadFairness ==
  /\ \A l \in Link :
       /\ WF_downloadVars(Receive(l[1], l[2]))
       /\ WF_downloadVars(SendMessages(l[1], l[2]))
       /\ WF_downloadVars(Connect(l[1], l[2]))
  /\ WF_downloadVars(Tick)

FairDownload == DownloadSpec /\ DownloadFairness

-----------------------------------------------------------------------------
Sync == INSTANCE BlockSync
  WITH blocks <- [n \in Node |-> mapBlockIndex[n] \cup mapOrphanBlocks[n]],
       best <- pindexBest

(* Whatever order invs, blocks and orphans come in, every node holds only  *)
(* blocks another one gave it, connects an orphan as soon as the last      *)
(* block before it is there, and follows the longest branch it has whole.  *)
ImplementsSync == Sync!SyncSpec

(* After the last block is mined every node gets to a longest branch: no   *)
(* batch, no request and no broken connection leaves it behind.            *)
DownloadCompletes == Sync!EventuallyInSync

=============================================================================
