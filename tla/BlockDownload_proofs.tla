------------------------ MODULE BlockDownload_proofs ------------------------
(***************************************************************************)
(* Block download implements BlockSync and keeps its types, for all trees, *)
(* nodes and bounds.  The inductive invariant says of each node that its   *)
(* block index is all it holds with every ancestor and that its best block *)
(* is a longest one there, and of each channel that the blocks on the way  *)
(* are in the index of the sender, which is what makes a receipt a copy.   *)
(* The types need one fact more: every locator on its way has the genesis  *)
(* block in it, so the answer to a getblocks starts inside the main chain  *)
(* of the node that answers.                                               *)
(***************************************************************************)
EXTENDS BlockDownload, Sums

SetsOK ==
  /\ mapBlockIndex \in [Node -> SUBSET Block]
  /\ mapOrphanBlocks \in [Node -> SUBSET Block]
  /\ pindexBest \in [Node -> Block]

\* An orphan waits only for blocks that are missing.
IndexIsRooted == \A n \in Node : mapBlockIndex[n] = Rooted(AlreadyHave(n))

BestIsLongest ==
  \A n \in Node :
    /\ pindexBest[n] \in mapBlockIndex[n]
    /\ \A c \in mapBlockIndex[n] : nHeight(c) <= nHeight(pindexBest[n])

\* The blocks in a sequence of messages are all in S.
Carries(messages, S) ==
  /\ messages \in Seq(ToSet(messages))
  /\ \A i \in DOMAIN messages : messages[i].type = "block" => messages[i].block \in S

SentBlocksAreIndexed ==
  /\ channel \in [Link -> {channel[l] : l \in Link}]
  /\ \A l \in Link : Carries(channel[l], mapBlockIndex[l[1]])

DownloadInv == SetsOK /\ IndexIsRooted /\ BestIsLongest /\ SentBlocksAreIndexed

-----------------------------------------------------------------------------
(* Sequences of messages.                                                  *)

LEMMA OverItself ==
  ASSUME NEW T, NEW s \in Seq(T) PROVE s \in Seq(ToSet(s))
<1>1. Len(s) \in Nat /\ s = [i \in 1..Len(s) |-> s[i]]
  OBVIOUS
<1>2. \A i \in 1..Len(s) : s[i] \in ToSet(s)
  BY <1>1 DEF ToSet
<1>3. s \in [1..Len(s) -> ToSet(s)]
  BY <1>1, <1>2
<1> QED
  BY <1>1, <1>3

LEMMA CarriesEmpty == ASSUME NEW S PROVE Carries(<<>>, S)
  BY DEF Carries, ToSet

\* Messages sent after others.
LEMMA CarriesConcat ==
  ASSUME NEW S, NEW s, NEW t, Carries(s, S), Carries(t, S)
  PROVE  Carries(s \o t, S)
<1> DEFINE all == ToSet(s) \cup ToSet(t)
<1>1. s \in Seq(all) /\ t \in Seq(all)
  BY DEF Carries
<1>2. /\ s \o t \in Seq(all)
      /\ Len(s \o t) = Len(s) + Len(t)
      /\ \A i \in 1..Len(s) + Len(t) :
           (s \o t)[i] = IF i <= Len(s) THEN s[i] ELSE t[i - Len(s)]
  BY <1>1
<1>3. s \o t \in Seq(ToSet(s \o t))
  BY <1>2, OverItself
<1>4. ASSUME NEW i \in DOMAIN (s \o t), (s \o t)[i].type = "block"
      PROVE  (s \o t)[i].block \in S
  BY <1>1, <1>2, <1>4 DEF Carries
<1> QED
  BY <1>3, <1>4 DEF Carries

\* A message without a block.
LEMMA CarriesOne ==
  ASSUME NEW S, NEW message, message.type # "block" PROVE Carries(<<message>>, S)
  BY DEF Carries, ToSet

\* Messages left after the first one, which carries a block of S too.
LEMMA CarriesTail ==
  ASSUME NEW S, NEW s, Carries(s, S), s # <<>>
  PROVE  Carries(Tail(s), S) /\ (Head(s).type = "block" => Head(s).block \in S)
<1>1. s \in Seq(ToSet(s)) /\ Len(s) \in Nat \ {0} /\ DOMAIN s = 1..Len(s)
  BY DEF Carries
<1>2. /\ Tail(s) \in Seq(ToSet(s)) /\ Len(Tail(s)) = Len(s) - 1
      /\ \A i \in 1..Len(s) - 1 : Tail(s)[i] = s[i + 1]
  BY <1>1
<1>3. Tail(s) \in Seq(ToSet(Tail(s)))
  BY <1>2, OverItself
<1>4. ASSUME NEW i \in DOMAIN Tail(s), Tail(s)[i].type = "block" PROVE Tail(s)[i].block \in S
  <2>1. i \in 1..Len(s) - 1 /\ i + 1 \in DOMAIN s
    BY <1>1, <1>2, <1>4
  <2> QED
    BY <2>1, <1>2, <1>4 DEF Carries
<1>5. Head(s) = s[1] /\ 1 \in DOMAIN s
  BY <1>1
<1> QED
  BY <1>3, <1>4, <1>5 DEF Carries

\* The sender's index grows.
LEMMA CarriesMore ==
  ASSUME NEW S, NEW T, S \subseteq T, NEW s, Carries(s, S) PROVE Carries(s, T)
  BY DEF Carries

\* What Picked returns is a sequence of members at the places it is given.
LEMMA PickedSequence ==
  ASSUME NEW s, NEW P, NEW t \in Picked(s, P)
  PROVE  /\ t \in Seq({s[p] : p \in P})
         /\ \A i \in DOMAIN t : \E p \in P : t[i] = s[p]
<1>1. PICK k \in 0..Cardinality(P) : \E at \in [1..k -> P] : t = [i \in DOMAIN at |-> s[at[i]]]
  BY DEF Picked
<1>2. PICK at \in [1..k -> P] : t = [i \in 1..k |-> s[at[i]]]
  BY <1>1
<1> QED
  BY <1>1, <1>2

LEMMA CarriesGetBlocks ==
  ASSUME NEW S, NEW node, NEW requests, NEW fresh \in Fresh(node, requests)
  PROVE  Carries(GetBlocksMessages(fresh), S)
<1>1. \E T : fresh \in Seq(T)
  BY PickedSequence DEF Fresh
<1>2. \A i \in DOMAIN fresh : GetBlocksMessages(fresh)[i].type = "getblocks"
  BY DEF GetBlocksMessages
<1>3. DOMAIN GetBlocksMessages(fresh) = 1..Len(fresh) /\ Len(fresh) \in Nat
  BY <1>1 DEF GetBlocksMessages
<1>4. GetBlocksMessages(fresh) \in Seq(ToSet(GetBlocksMessages(fresh)))
  <2>1. GetBlocksMessages(fresh)
          = [i \in 1..Len(fresh) |-> GetBlocksMessages(fresh)[i]]
    BY <1>3 DEF GetBlocksMessages
  <2> QED
    BY <2>1, <1>3 DEF ToSet
<1> QED
  BY <1>2, <1>3, <1>4 DEF Carries

LEMMA PartOf ==
  ASSUME NEW S, NEW s \in Seq(S), NEW i \in 1..Len(s)
  PROVE  SubSeq(s, 1, i) \in Seq(S) /\ SubSeq(s, i + 1, Len(s)) \in Seq(S)
<1>1. Len(s) \in Nat /\ \A k \in 1..Len(s) : s[k] \in S
  OBVIOUS
<1>2. SubSeq(s, 1, i) = [k \in 1..i |-> s[k]]
  BY <1>1
<1>3. SubSeq(s, i + 1, Len(s)) = [k \in 1..Len(s) - i |-> s[k + i]]
  BY <1>1
<1> QED
  BY <1>1, <1>2, <1>3

LEMMA CarriesBlocks ==
  ASSUME NEW S, NEW s \in Seq(S) PROVE Carries(BlockMessages(s), S)
<1>1. DOMAIN BlockMessages(s) = 1..Len(s) /\ Len(s) \in Nat
  BY DEF BlockMessages
<1>2. \A i \in 1..Len(s) : BlockMessages(s)[i] = [type |-> "block", block |-> s[i]] /\ s[i] \in S
  BY DEF BlockMessages
<1>3. BlockMessages(s) \in Seq(ToSet(BlockMessages(s)))
  <2>1. BlockMessages(s) = [i \in 1..Len(s) |-> BlockMessages(s)[i]]
    BY <1>1 DEF BlockMessages
  <2> QED
    BY <2>1, <1>1 DEF ToSet
<1> QED
  BY <1>1, <1>2, <1>3 DEF Carries

-----------------------------------------------------------------------------
(* The blocks of a node.                                                   *)

BlocksInv == SetsOK /\ IndexIsRooted /\ BestIsLongest

LEMMA HeightIsInt == \A b \in Block : nHeight(b) \in Int
  BY AncestorAssumption DEF nHeight

\* The tree of BlockSync is the same one.
LEMMA SameTree ==
  /\ \A S : Sync!Rooted(S) = Rooted(S)
  /\ \A b : Sync!nHeight(b) = nHeight(b)
  /\ \A b : Sync!Ancestors(b) = Ancestors(b)
<1>1. Sync!Branch = Branch
  BY DEF Branch, Sync!Branch
<1> QED
  BY <1>1 DEF Rooted, Sync!Rooted, Ancestors, Sync!Ancestors, nHeight, Sync!nHeight

\* A block whose parent is known: the index grows to all that is rooted now, and the
\* best block is the old one or a longest of the new ones.
LEMMA AcceptStep ==
  ASSUME BlocksInv, NEW n \in Node, NEW b \in Block \ {hashGenesisBlock}, NEW nodes,
         b \notin AlreadyHave(n), hashPrevBlock[b] \in mapBlockIndex[n],
         AcceptBlock(n, b, nodes)
  PROVE  /\ BlocksInv' /\ Sync!Obtain(n, b)
         /\ \A m \in Node : mapBlockIndex[m] \subseteq mapBlockIndex'[m]
<1> DEFINE accepted == Accepted(n, b)
           have == AlreadyHave(n) \cup {b}
<1>1. /\ have \subseteq Block /\ accepted \subseteq Block
      /\ mapBlockIndex[n] \in SUBSET Block /\ mapOrphanBlocks[n] \in SUBSET Block
      /\ pindexBest[n] \in Block
  BY DEF BlocksInv, SetsOK, AlreadyHave, Accepted
<1>2. /\ mapBlockIndex' = [mapBlockIndex EXCEPT ![n] = @ \cup accepted]
      /\ mapOrphanBlocks' = [mapOrphanBlocks EXCEPT ![n] = @ \ accepted]
  BY DEF AcceptBlock, OrphansLeft
<1>3. PICK s \in BestInTurn(n, accepted) :
        pindexBest' = IF s = <<>> THEN pindexBest ELSE [pindexBest EXCEPT ![n] = Last(s)]
  BY DEF AcceptBlock
<1>4. Ancestors(b) \subseteq have
  BY <1>1, AncestorAssumption, TreeAssumption DEF BlocksInv, IndexIsRooted, Rooted
<1>5. /\ mapBlockIndex'[n] = mapBlockIndex[n] \cup accepted
      /\ mapBlockIndex'[n] \cup mapOrphanBlocks'[n] = have
  BY <1>2, <1>4 DEF BlocksInv, SetsOK, AlreadyHave, Accepted
<1>6. mapBlockIndex'[n] = Rooted(have)
  BY <1>5 DEF BlocksInv, IndexIsRooted, Rooted, Accepted, AlreadyHave
<1>7. \A m \in Node \ {n} :
        /\ mapBlockIndex'[m] = mapBlockIndex[m] /\ mapOrphanBlocks'[m] = mapOrphanBlocks[m]
        /\ pindexBest'[m] = pindexBest[m]
  BY <1>2, <1>3 DEF BlocksInv, SetsOK
<1>8. /\ s = <<>> => pindexBest'[n] = pindexBest[n]
                     /\ \A c \in accepted : nHeight(c) <= nHeight(pindexBest[n])
      /\ s # <<>> => /\ pindexBest'[n] \in accepted
                     /\ nHeight(pindexBest'[n]) > nHeight(pindexBest[n])
                     /\ \A c \in accepted : nHeight(c) <= nHeight(pindexBest'[n])
  <2>1. PICK k \in 0..Cardinality(accepted) : s \in [1..k -> accepted]
    BY <1>3 DEF BestInTurn
  <2>2. /\ \A i \in DOMAIN s : nHeight(s[i]) = nHeight(pindexBest[n]) + i
        /\ \A c \in accepted : nHeight(c) <= nHeight(pindexBest[n]) + Len(s)
    BY <1>3 DEF BestInTurn
  <2>3. /\ k \in Nat /\ Len(s) = k /\ DOMAIN s = 1..k
        /\ s = <<>> => k = 0
        /\ s # <<>> => k > 0
    BY <2>1
  <2>4. CASE s = <<>>
    BY <1>1, <1>3, <2>2, <2>3, <2>4, HeightIsInt
  <2>5. CASE s # <<>>
    <3>1. Last(s) = s[k] /\ k \in DOMAIN s /\ Last(s) \in accepted
      BY <2>1, <2>3, <2>5 DEF Last
    <3>2. pindexBest'[n] = Last(s)
      BY <1>3, <2>5 DEF BlocksInv, SetsOK
    <3>3. nHeight(Last(s)) = nHeight(pindexBest[n]) + k
      BY <2>2, <3>1
    <3> QED
      BY <1>1, <2>2, <2>3, <2>5, <3>1, <3>2, <3>3, HeightIsInt
  <2> QED
    BY <2>4, <2>5
<1>9. /\ pindexBest'[n] \in mapBlockIndex'[n]
      /\ \A c \in mapBlockIndex'[n] : nHeight(c) <= nHeight(pindexBest'[n])
  BY <1>1, <1>5, <1>8, HeightIsInt DEF BlocksInv, BestIsLongest
<1>10. SetsOK'
  BY <1>1, <1>2, <1>3, <1>8 DEF BlocksInv, SetsOK
<1>11. IndexIsRooted'
  BY <1>5, <1>6, <1>7 DEF BlocksInv, IndexIsRooted, AlreadyHave
<1>12. BestIsLongest'
  BY <1>7, <1>9 DEF BlocksInv, BestIsLongest
<1>13. Sync!Obtain(n, b)
  <2>1. b \notin mapBlockIndex[n] \cup mapOrphanBlocks[n]
    BY DEF AlreadyHave
  <2>2. [m \in Node |-> mapBlockIndex[m] \cup mapOrphanBlocks[m]]'
          = [[m \in Node |-> mapBlockIndex[m] \cup mapOrphanBlocks[m]] EXCEPT ![n] = @ \cup {b}]
    BY <1>5, <1>7 DEF AlreadyHave
  <2>3. pindexBest' = [pindexBest EXCEPT ![n] = pindexBest'[n]]
    BY <1>3 DEF BlocksInv, SetsOK
  <2>4. pindexBest'[n] \in Sync!BestOf(n, b)
    <3>1. Sync!Rooted(have) = mapBlockIndex'[n]
      BY <1>6, SameTree
    <3>2. CASE s = <<>>
      BY <1>8, <1>9, <3>1, <3>2, SameTree DEF Sync!BestOf, AlreadyHave
    <3>3. CASE s # <<>>
      <4>1. ~ \A c \in mapBlockIndex'[n] : nHeight(c) <= nHeight(pindexBest[n])
        BY <1>1, <1>5, <1>8, <3>3, HeightIsInt
      <4> QED
        BY <1>9, <3>1, <4>1, SameTree DEF Sync!BestOf, AlreadyHave
    <3> QED
      BY <3>2, <3>3
  <2> QED
    BY <2>1, <2>2, <2>3, <2>4 DEF Sync!Obtain
<1> QED
  BY <1>2, <1>5, <1>7, <1>10, <1>11, <1>12, <1>13 DEF BlocksInv

\* A block whose parent is missing: nothing else can be connected either.
LEMMA OrphanStep ==
  ASSUME BlocksInv, NEW n \in Node, NEW b \in Block \ {hashGenesisBlock},
         b \notin AlreadyHave(n), hashPrevBlock[b] \notin mapBlockIndex[n],
         mapOrphanBlocks' = [mapOrphanBlocks EXCEPT ![n] = @ \cup {b}],
         UNCHANGED <<mapBlockIndex, pindexBest>>
  PROVE  BlocksInv' /\ Sync!Obtain(n, b)
<1> DEFINE have == AlreadyHave(n) \cup {b}
<1>1. Rooted(have) = mapBlockIndex[n]
  <2>1. ASSUME NEW c \in Rooted(have) PROVE c \in mapBlockIndex[n]
    <3>1. c \in Block /\ Ancestors(c) \subseteq have /\ c \in have
      BY DEF Rooted, BlocksInv, SetsOK, AlreadyHave
    <3>2. b \notin Ancestors(c)
      <4> SUFFICES ASSUME b \in Ancestors(c) PROVE FALSE
        OBVIOUS
      <4>1. Ancestors(hashPrevBlock[b]) \subseteq AlreadyHave(n)
        BY <3>1, AncestorAssumption
      <4>2. hashPrevBlock[b] \in AlreadyHave(n)
        BY <4>1, AncestorAssumption, TreeAssumption
      <4> QED
        BY <4>1, <4>2 DEF BlocksInv, IndexIsRooted, Rooted
    <3> QED
      BY <3>1, <3>2, AncestorAssumption DEF BlocksInv, IndexIsRooted, Rooted
  <2>2. mapBlockIndex[n] \subseteq Rooted(have)
    BY DEF BlocksInv, IndexIsRooted, Rooted
  <2> QED
    BY <2>1, <2>2
<1>2. /\ mapBlockIndex' = mapBlockIndex /\ pindexBest' = pindexBest
      /\ mapBlockIndex'[n] \cup mapOrphanBlocks'[n] = have
      /\ \A m \in Node \ {n} : mapOrphanBlocks'[m] = mapOrphanBlocks[m]
  BY DEF BlocksInv, SetsOK, AlreadyHave
<1>3. SetsOK'
  BY <1>2 DEF BlocksInv, SetsOK
<1>4. IndexIsRooted' /\ BestIsLongest'
  BY <1>1, <1>2 DEF BlocksInv, IndexIsRooted, BestIsLongest, AlreadyHave
<1>5. Sync!Obtain(n, b)
  <2>1. [m \in Node |-> mapBlockIndex[m] \cup mapOrphanBlocks[m]]'
          = [[m \in Node |-> mapBlockIndex[m] \cup mapOrphanBlocks[m]] EXCEPT ![n] = @ \cup {b}]
    BY <1>2 DEF AlreadyHave
  <2>2. pindexBest[n] \in Sync!BestOf(n, b)
    <3>1. Sync!Rooted(have) = mapBlockIndex[n]
      BY <1>1, SameTree
    <3> QED
      BY <3>1, SameTree DEF Sync!BestOf, AlreadyHave, BlocksInv, BestIsLongest
  <2> QED
    BY <1>2, <2>1, <2>2 DEF Sync!Obtain, AlreadyHave, BlocksInv, SetsOK
<1> QED
  BY <1>3, <1>4, <1>5 DEF BlocksInv

-----------------------------------------------------------------------------
(* The channels.                                                           *)

\* Messages sent when the index of the sender may have grown.
LEMMA AnswerStep ==
  ASSUME SentBlocksAreIndexed, NEW n \in Node, NEW m \in Node, n # m, NEW messages,
         Carries(messages, mapBlockIndex[n]), channel[<<m, n>>] # <<>>,
         \A k \in Node : mapBlockIndex[k] \subseteq mapBlockIndex'[k],
         channel' = Answer(n, m, messages)
  PROVE  SentBlocksAreIndexed'
<1>1. <<n, m>> \in Link /\ <<m, n>> \in Link /\ <<n, m>> # <<m, n>>
  BY DEF Link
<1>2. /\ channel' = [channel EXCEPT ![<<m, n>>] = Tail(@), ![<<n, m>>] = @ \o messages]
      /\ DOMAIN channel = Link
  BY DEF Answer, SentBlocksAreIndexed
<1>3. Carries(channel'[<<m, n>>], mapBlockIndex[m])
  <2>1. Carries(channel[<<m, n>>], mapBlockIndex[m])
    BY <1>1 DEF SentBlocksAreIndexed
  <2>2. channel'[<<m, n>>] = Tail(channel[<<m, n>>])
    BY <1>1, <1>2
  <2> QED
    BY <2>1, <2>2, CarriesTail
<1>4. Carries(channel'[<<n, m>>], mapBlockIndex[n])
  BY <1>1, <1>2, CarriesConcat DEF SentBlocksAreIndexed
<1>5. ASSUME NEW l \in Link PROVE Carries(channel'[l], mapBlockIndex'[l[1]])
  <2>1. Carries(channel'[l], mapBlockIndex[l[1]])
    <3>1. CASE l = <<n, m>>
      BY <1>4, <3>1
    <3>2. CASE l = <<m, n>>
      BY <1>3, <3>2
    <3>3. CASE l # <<n, m>> /\ l # <<m, n>>
      <4>1. channel'[l] = channel[l]
        BY <1>2, <3>3
      <4> QED
        BY <4>1 DEF SentBlocksAreIndexed
    <3> QED
      BY <3>1, <3>2, <3>3
  <2>2. l[1] \in Node
    BY DEF Link
  <2> QED
    BY <2>1, <2>2, CarriesMore
<1>6. channel' \in [Link -> {channel'[l] : l \in Link}]
  BY <1>2
<1> QED
  BY <1>5, <1>6 DEF SentBlocksAreIndexed

\* Messages sent for another reason.
LEMMA SendStep ==
  ASSUME SentBlocksAreIndexed, NEW n \in Node, NEW m \in Node, n # m, NEW messages,
         Carries(messages, mapBlockIndex[n]), UNCHANGED mapBlockIndex,
         channel' = Send(n, m, messages)
  PROVE  SentBlocksAreIndexed'
<1>1. <<n, m>> \in Link
  BY DEF Link
<1>2. /\ channel' = [channel EXCEPT ![<<n, m>>] = @ \o messages]
      /\ DOMAIN channel = Link
  BY DEF Send, SentBlocksAreIndexed
<1>3. Carries(channel'[<<n, m>>], mapBlockIndex[n])
  BY <1>1, <1>2, CarriesConcat DEF SentBlocksAreIndexed
<1>4. \A l \in Link : Carries(channel'[l], mapBlockIndex'[l[1]])
  BY <1>1, <1>2, <1>3 DEF SentBlocksAreIndexed
<1>5. channel' \in [Link -> {channel'[l] : l \in Link}]
  BY <1>2
<1> QED
  BY <1>4, <1>5 DEF SentBlocksAreIndexed

\* Steps that change no blocks.
LEMMA QuietStep ==
  ASSUME BlocksInv, UNCHANGED nodeVars
  PROVE  /\ BlocksInv' /\ UNCHANGED Sync!syncVars
         /\ \A k \in Node : mapBlockIndex[k] \subseteq mapBlockIndex'[k]
  BY DEF BlocksInv, SetsOK, IndexIsRooted, BestIsLongest, AlreadyHave, nodeVars, Sync!syncVars

Implements == DownloadInv' /\ [Sync!SyncNext]_(Sync!syncVars)

LEMMA VersionStep ==
  ASSUME DownloadInv, NEW n \in Node, NEW m \in Node, n # m, ReceiveVersion(n, m)
  PROVE  Implements
<1>1. UNCHANGED nodeVars /\ channel[<<m, n>>] # <<>>
  BY DEF ReceiveVersion, Received
<1>2. PICK hello, node, requests : \E fresh \in Fresh(node, requests) :
        /\ hello = <<[type |-> "version"]>> \/ hello = <<>>
        /\ channel' = Answer(n, m, hello \o GetBlocksMessages(fresh))
  BY DEF ReceiveVersion
<1>3. PICK fresh \in Fresh(node, requests) :
        /\ hello = <<[type |-> "version"]>> \/ hello = <<>>
        /\ channel' = Answer(n, m, hello \o GetBlocksMessages(fresh))
  BY <1>2
<1>4. Carries(hello, mapBlockIndex[n])
  BY <1>3, CarriesEmpty, CarriesOne
<1>5. Carries(hello \o GetBlocksMessages(fresh), mapBlockIndex[n])
  BY <1>4, CarriesGetBlocks, CarriesConcat
<1> QED
  BY <1>1, <1>3, <1>5, QuietStep, AnswerStep DEF DownloadInv, BlocksInv, Implements

LEMMA InvStep ==
  ASSUME DownloadInv, NEW n \in Node, NEW m \in Node, n # m, ReceiveInv(n, m)
  PROVE  Implements
<1>1. UNCHANGED nodeVars /\ channel[<<m, n>>] # <<>>
  BY DEF ReceiveInv, Received
<1>2. PICK node, requests : \E fresh \in Fresh(node, requests) :
        channel' = Answer(n, m, GetBlocksMessages(fresh))
  BY DEF ReceiveInv
<1> QED
  BY <1>1, <1>2, CarriesGetBlocks, QuietStep, AnswerStep DEF DownloadInv, BlocksInv, Implements

LEMMA GetBlocksStep ==
  ASSUME DownloadInv, NEW n \in Node, NEW m \in Node, n # m, ReceiveGetBlocks(n, m)
  PROVE  Implements
<1>1. /\ UNCHANGED nodeVars /\ channel[<<m, n>>] # <<>>
      /\ channel' = Answer(n, m, <<>>)
  BY DEF ReceiveGetBlocks, Received
<1> QED
  BY <1>1, CarriesEmpty, QuietStep, AnswerStep DEF DownloadInv, BlocksInv, Implements

LEMMA GetDataStep ==
  ASSUME DownloadInv, NEW n \in Node, NEW m \in Node, n # m, ReceiveGetData(n, m)
  PROVE  Implements
<1>1. UNCHANGED nodeVars /\ channel[<<m, n>>] # <<>>
  BY DEF ReceiveGetData, Received
<1> DEFINE Answered(found) ==
      \/ channel' = Answer(n, m, BlockMessages(found))
      \/ \E i \in DOMAIN found :
           channel' = Answer(n, m, BlockMessages(SubSeq(found, 1, i))
                        \o <<[type |-> "inv", inv |-> <<pindexBest[n]>>]>>
                        \o BlockMessages(SubSeq(found, i + 1, Len(found))))
           inv == Head(channel[<<m, n>>]).inv
           places == {i \in DOMAIN inv : inv[i] \in mapBlockIndex[n]}
<1>2. PICK found \in Picked(inv, places) : Answered(found)
  BY DEF ReceiveGetData, ContinueAt
<1>3. found \in Seq(mapBlockIndex[n])
  <2>1. found \in Seq({inv[i] : i \in places})
    BY PickedSequence
  <2> QED
    BY <2>1
<1>4. CASE channel' = Answer(n, m, BlockMessages(found))
  BY <1>1, <1>3, <1>4, CarriesBlocks, QuietStep, AnswerStep
  DEF DownloadInv, BlocksInv, Implements
<1>5. ASSUME NEW i \in DOMAIN found,
             channel' = Answer(n, m, BlockMessages(SubSeq(found, 1, i))
                          \o <<[type |-> "inv", inv |-> <<pindexBest[n]>>]>>
                          \o BlockMessages(SubSeq(found, i + 1, Len(found))))
      PROVE  Implements
  <2>1. /\ SubSeq(found, 1, i) \in Seq(mapBlockIndex[n])
        /\ SubSeq(found, i + 1, Len(found)) \in Seq(mapBlockIndex[n])
    <3>1. i \in 1..Len(found)
      BY <1>3
    <3> QED
      BY <1>3, <3>1, PartOf
  <2>2. Carries(<<[type |-> "inv", inv |-> <<pindexBest[n]>>]>>, mapBlockIndex[n])
    BY CarriesOne
  <2>3. Carries(BlockMessages(SubSeq(found, 1, i))
                  \o <<[type |-> "inv", inv |-> <<pindexBest[n]>>]>>, mapBlockIndex[n])
    BY <2>1, <2>2, CarriesBlocks, CarriesConcat
  <2>4. Carries(BlockMessages(SubSeq(found, 1, i))
                  \o <<[type |-> "inv", inv |-> <<pindexBest[n]>>]>>
                  \o BlockMessages(SubSeq(found, i + 1, Len(found))), mapBlockIndex[n])
    BY <2>1, <2>3, CarriesBlocks, CarriesConcat
  <2> QED
    BY <1>1, <1>5, <2>4, QuietStep, AnswerStep DEF DownloadInv, BlocksInv, Implements
<1> QED
  BY <1>2, <1>4, <1>5

LEMMA BlockStep ==
  ASSUME DownloadInv, NEW n \in Node, NEW m \in Node, n # m, ReceiveBlock(n, m)
  PROVE  Implements
<1>0. PICK b : b = Head(channel[<<m, n>>]).block
  OBVIOUS
<1>1. channel[<<m, n>>] # <<>> /\ <<m, n>> \in Link /\ Head(channel[<<m, n>>]).type = "block"
  BY DEF ReceiveBlock, Received, Link
<1>2. b \in mapBlockIndex[m]
  BY <1>0, <1>1, CarriesTail DEF DownloadInv, SentBlocksAreIndexed
<1>3. BlocksInv
  BY DEF DownloadInv, BlocksInv
<1>4. PICK nodes : ProcessBlock(n, m, b, nodes)
  BY <1>0 DEF ReceiveBlock
<1>5. b \in Block /\ (b \notin AlreadyHave(n) => b # hashGenesisBlock)
  <2>1. hashGenesisBlock \in Ancestors(pindexBest[n]) /\ pindexBest[n] \in mapBlockIndex[n]
    BY <1>3, AncestorAssumption DEF BlocksInv, SetsOK, BestIsLongest
  <2> QED
    BY <1>2, <1>3, <2>1 DEF BlocksInv, SetsOK, IndexIsRooted, Rooted
<1>6. b \notin AlreadyHave(n) /\ Sync!Obtain(n, b) => Sync!SyncNext
  <2> SUFFICES ASSUME Sync!Obtain(n, b) PROVE Sync!SyncNext
    OBVIOUS
  <2>1. m \in Node \ {n}
    OBVIOUS
  <2>2. b \in [k \in Node |-> mapBlockIndex[k] \cup mapOrphanBlocks[k]][m]
    BY <1>2
  <2>3. Sync!Copy(n)
    BY <2>1, <2>2 DEF Sync!Copy
  <2> QED
    BY <2>3 DEF Sync!SyncNext
<1>7. CASE UNCHANGED nodeVars /\ channel' = Answer(n, m, <<>>)
  BY <1>1, <1>3, <1>7, CarriesEmpty, QuietStep, AnswerStep DEF DownloadInv, BlocksInv, Implements
<1>8. CASE /\ b \notin AlreadyHave(n) /\ hashPrevBlock[b] \notin mapBlockIndex[n]
           /\ mapOrphanBlocks' = [mapOrphanBlocks EXCEPT ![n] = @ \cup {b}]
           /\ UNCHANGED <<mapBlockIndex, pindexBest>>
           /\ \E node, requests : \E fresh \in Fresh(node, requests) :
                channel' = Answer(n, m, GetBlocksMessages(fresh))
  <2>0. b \in Block \ {hashGenesisBlock}
    BY <1>5, <1>8
  <2>1. BlocksInv' /\ Sync!Obtain(n, b)
    BY <1>3, <1>8, <2>0, OrphanStep
  <2>2. SentBlocksAreIndexed'
    BY <1>1, <1>8, CarriesGetBlocks, AnswerStep DEF DownloadInv
  <2> QED
    BY <1>6, <1>8, <2>1, <2>2 DEF DownloadInv, BlocksInv, Implements
<1>9. CASE /\ b \notin AlreadyHave(n) /\ hashPrevBlock[b] \in mapBlockIndex[n]
           /\ AcceptBlock(n, b, nodes) /\ channel' = Answer(n, m, <<>>)
  <2>0. b \in Block \ {hashGenesisBlock}
    BY <1>5, <1>9
  <2>1. /\ BlocksInv' /\ Sync!Obtain(n, b)
        /\ \A k \in Node : mapBlockIndex[k] \subseteq mapBlockIndex'[k]
    BY <1>3, <1>9, <2>0, AcceptStep
  <2>2. SentBlocksAreIndexed'
    BY <1>1, <1>9, <2>1, CarriesEmpty, AnswerStep DEF DownloadInv
  <2> QED
    BY <1>6, <1>9, <2>1, <2>2 DEF DownloadInv, BlocksInv, Implements
<1> QED
  BY <1>4, <1>7, <1>8, <1>9 DEF ProcessBlock

LEMMA SendMessagesStep ==
  ASSUME DownloadInv, NEW n \in Node, NEW m \in Node, n # m, SendMessages(n, m)
  PROVE  Implements
<1>1. UNCHANGED nodeVars
  BY DEF SendMessages
<1>2. PICK inv, getdata :
        /\ inv = <<>> \/ \E s : inv = <<[type |-> "inv", inv |-> s]>>
        /\ getdata = <<>> \/ \E s : getdata = <<[type |-> "getdata", inv |-> s]>>
        /\ channel' = Send(n, m, inv \o getdata)
  BY DEF SendMessages
<1>3. Carries(inv, mapBlockIndex[n]) /\ Carries(getdata, mapBlockIndex[n])
  BY <1>2, CarriesEmpty, CarriesOne
<1>4. Carries(inv \o getdata, mapBlockIndex[n])
  BY <1>3, CarriesConcat
<1> QED
  BY <1>1, <1>2, <1>4, QuietStep, SendStep DEF nodeVars, DownloadInv, BlocksInv, Implements

LEMMA ConnectionStep ==
  ASSUME DownloadInv, NEW n \in Node, NEW m \in Node, n # m,
         Connect(n, m) \/ Disconnect(n, m)
  PROVE  Implements
<1>1. UNCHANGED nodeVars
  BY DEF Connect, Disconnect
<1>2. CASE Connect(n, m)
  <2>1. Carries(<<[type |-> "version"]>>, mapBlockIndex[n])
    BY CarriesOne
  <2> QED
    BY <1>1, <1>2, <2>1, QuietStep, SendStep
    DEF Connect, nodeVars, DownloadInv, BlocksInv, Implements
<1>3. CASE Disconnect(n, m)
  <2>1. SentBlocksAreIndexed'
    <3>1. channel' = [channel EXCEPT ![<<n, m>>] = <<>>, ![<<m, n>>] = <<>>]
      BY <1>3 DEF Disconnect
    <3> QED
      BY <1>1, <3>1, CarriesEmpty DEF nodeVars, DownloadInv, SentBlocksAreIndexed
  <2> QED
    BY <1>1, <2>1, QuietStep DEF DownloadInv, BlocksInv, Implements
<1> QED
  BY <1>2, <1>3

LEMMA NewBlockStep ==
  ASSUME DownloadInv, NEW n \in Node, NewBlock(n) PROVE Implements
<1>1. BlocksInv
  BY DEF DownloadInv, BlocksInv
<1>2. PICK b \in Block \ {hashGenesisBlock} :
        /\ hashPrevBlock[b] = pindexBest[n]
        /\ \A m \in Node : b \notin AlreadyHave(m)
        /\ AcceptBlock(n, b, pnode)
        /\ UNCHANGED channel
  BY DEF NewBlock
<1>3. hashPrevBlock[b] \in mapBlockIndex[n]
  BY <1>1, <1>2 DEF BlocksInv, BestIsLongest
<1>4. /\ BlocksInv' /\ Sync!Obtain(n, b)
      /\ \A m \in Node : mapBlockIndex[m] \subseteq mapBlockIndex'[m]
  BY <1>1, <1>2, <1>3, AcceptStep
<1>5. Sync!SyncNext
  <2>1. \A m \in Node : b \notin [k \in Node |-> mapBlockIndex[k] \cup mapOrphanBlocks[k]][m]
    BY <1>2 DEF AlreadyHave
  <2> QED
    BY <1>2, <1>4, <2>1 DEF Sync!SyncNext, Sync!Mine
<1>6. SentBlocksAreIndexed'
  <2>1. \A l \in Link : Carries(channel[l], mapBlockIndex'[l[1]])
    BY <1>4, CarriesMore DEF DownloadInv, SentBlocksAreIndexed, Link
  <2> QED
    BY <1>2, <2>1 DEF DownloadInv, SentBlocksAreIndexed
<1> QED
  BY <1>4, <1>5, <1>6 DEF DownloadInv, BlocksInv, Implements

LEMMA TickStep == ASSUME DownloadInv, Tick \/ UNCHANGED downloadVars PROVE Implements
<1>1. UNCHANGED nodeVars /\ UNCHANGED channel
  BY DEF Tick, downloadVars
<1> QED
  BY <1>1, QuietStep DEF nodeVars, DownloadInv, BlocksInv, Implements, SentBlocksAreIndexed

LEMMA DownloadInitOK == DownloadInit => DownloadInv /\ Sync!SyncInit
<1> SUFFICES ASSUME DownloadInit PROVE DownloadInv /\ Sync!SyncInit
  OBVIOUS
<1>1. PICK tip \in [Node -> Block] :
        /\ mapBlockIndex = [n \in Node |-> Ancestors(tip[n])]
        /\ pindexBest = tip
        /\ mapOrphanBlocks = [n \in Node |-> {}]
        /\ channel = [l \in Link |-> <<>>]
  BY DEF DownloadInit
<1>2. \A n \in Node :
        /\ mapBlockIndex[n] = Ancestors(tip[n]) /\ AlreadyHave(n) = Ancestors(tip[n])
        /\ tip[n] \in Ancestors(tip[n]) /\ Ancestors(tip[n]) \subseteq Block
  BY <1>1, AncestorAssumption DEF AlreadyHave, Ancestors
<1>3. SetsOK /\ IndexIsRooted
  BY <1>1, <1>2, AncestorAssumption DEF SetsOK, IndexIsRooted, Rooted
<1>4. BestIsLongest
  BY <1>1, <1>2, AncestorAssumption DEF BestIsLongest
<1>5. SentBlocksAreIndexed
  BY <1>1, CarriesEmpty DEF SentBlocksAreIndexed
<1>6. Sync!SyncInit
  BY <1>1, <1>2, SameTree DEF Sync!SyncInit
<1> QED
  BY <1>3, <1>4, <1>5, <1>6 DEF DownloadInv

-----------------------------------------------------------------------------
(* Whatever order invs, blocks and orphans come in, every node holds only  *)
(* blocks another one gave it, connects an orphan as soon as the last      *)
(* block before it is there, and follows the longest branch it has whole.  *)
THEOREM DownloadImplementsSync == DownloadSpec => ImplementsSync
<1>1. DownloadInv /\ [DownloadNext]_downloadVars => Implements
  BY VersionStep, InvStep, GetBlocksStep, GetDataStep, BlockStep, SendMessagesStep,
     ConnectionStep, NewBlockStep, TickStep
  DEF DownloadNext, Receive
<1> QED
  BY <1>1, DownloadInitOK, PTL DEF DownloadSpec, ImplementsSync, Sync!SyncSpec, Implements

-----------------------------------------------------------------------------
(* Sequences.                                                              *)

LEMMA MinIs ==
  ASSUME NEW S, S \subseteq Nat, S # {}
  PROVE  Min(S) \in S /\ \A y \in S : Min(S) <= y
<1>1. \E x \in S : \A y \in S : x <= y
  BY LeastExists
<1> QED
  BY <1>1 DEF Min

LEMMA PieceIs ==
  ASSUME NEW T, NEW s \in Seq(T), NEW i \in Nat \ {0}, NEW j \in Int, j <= Len(s)
  PROVE  SubSeq(s, i, j) \in Seq(T)
<1>1. Len(s) \in Nat /\ \A k \in 1..Len(s) : s[k] \in T
  OBVIOUS
<1>2. CASE i <= j
  <2>1. PICK l : l = j - i + 1
    OBVIOUS
  <2>2. l \in Nat /\ \A k \in 1..l : i + k - 1 \in 1..Len(s)
    BY <1>1, <1>2, <2>1
  <2>3. SubSeq(s, i, j) = [k \in 1..l |-> s[i + k - 1]]
    BY <1>1, <1>2, <2>1
  <2> QED
    BY <1>1, <2>2, <2>3
<1>3. CASE j < i
  BY <1>1, <1>3
<1> QED
  BY <1>2, <1>3

LEMMA LastIs ==
  ASSUME NEW T, NEW s \in Seq(T), s # <<>>
  PROVE  Last(s) \in T
<1>1. Len(s) \in 1..Len(s)
  OBVIOUS
<1> QED
  BY <1>1 DEF Last

LEMMA ToSetIs ==
  ASSUME NEW T, NEW s \in Seq(T)
  PROVE  ToSet(s) \subseteq T
  BY DEF ToSet

LEMMA PickedIs ==
  ASSUME NEW T, NEW s \in Seq(T), NEW P, P \subseteq DOMAIN s, NEW t \in Picked(s, P)
  PROVE  t \in Seq(T)
<1>1. t \in Seq({s[p] : p \in P})
  BY PickedSequence
<1>2. {s[p] : p \in P} \subseteq T
  OBVIOUS
<1> QED
  BY <1>1, <1>2

\* Within keeps blocks.
LEMMA WithinIs ==
  ASSUME NEW s \in Seq(Block), NEW S
  PROVE  Within(s, S) \in Seq(Block)
<1>1. PICK n, T : n = Len(s) /\ T = Seq(Block)
  OBVIOUS
<1>2. n \in Nat /\ \A k \in 1..n : s[k] \in Block
  BY <1>1
<1>3. <<>> \in T /\ \A x \in T : \A b \in Block : Append(x, b) \in T
  BY <1>1
<1>4. PICK step : step = [k \in 1..n |-> [x \in T |-> IF s[k] \in S THEN Append(x, s[k]) ELSE x]]
  OBVIOUS
<1>5. /\ step \in [1..n -> [T -> T]]
      /\ \A k \in 1..n : \A x \in T :
           step[k][x] = IF s[k] \in S THEN Append(x, s[k]) ELSE x
  BY <1>2, <1>3, <1>4
<1>6. PICK g : Loop(g, T, <<>>, step, n)
  BY <1>2, <1>3, <1>5, LoopExists
<1>7. g = [k \in 0..n |-> IF k = 0 THEN <<>>
                           ELSE IF s[k] \in S THEN Append(g[k - 1], s[k]) ELSE g[k - 1]]
  <2>1. g = [k \in 0..n |-> g[k]] /\ g[0] = <<>>
    BY <1>6 DEF Loop
  <2>2. ASSUME NEW k \in 0..n
        PROVE  g[k] = IF k = 0 THEN <<>>
                      ELSE IF s[k] \in S THEN Append(g[k - 1], s[k]) ELSE g[k - 1]
    <3>1. k # 0 => k \in 1..n /\ k - 1 \in 0..n
      BY <1>2
    <3>2. k # 0 => g[k] = step[k][g[k - 1]] /\ g[k - 1] \in T
      BY <1>6, <3>1 DEF Loop
    <3> QED
      BY <1>5, <2>1, <3>1, <3>2
  <2> QED
    BY <2>1, <2>2, Zenon
<1>8. PICK f : f = CHOOSE h :
        h = [k \in 0..n |-> IF k = 0 THEN <<>>
                            ELSE IF s[k] \in S THEN Append(h[k - 1], s[k]) ELSE h[k - 1]]
  OBVIOUS
<1>9. f = [k \in 0..n |-> IF k = 0 THEN <<>>
                          ELSE IF s[k] \in S THEN Append(f[k - 1], s[k]) ELSE f[k - 1]]
  BY <1>7, <1>8
<1>10. /\ f[0] = <<>> /\ f = [k \in 0..n |-> f[k]]
       /\ \A k \in 1..n : f[k] = IF s[k] \in S THEN Append(f[k - 1], s[k]) ELSE f[k - 1]
  <2>1. 0 \in 0..n /\ \A k \in 1..n : k \in 0..n /\ k # 0
    BY <1>2
  <2> QED
    BY <1>9, <2>1
<1>11. f \in [0..n -> T]
  <2>1. f = [k \in 0..n |-> f[k]] /\ f[0] \in T
    BY <1>3, <1>10
  <2>2. \A k \in 1..n : f[k - 1] \in T => f[k] \in T
    BY <1>2, <1>3, <1>10
  <2> QED
    BY <1>2, <2>1, <2>2, LoopInvariant
<1>12. Within(s, S) = f[n]
  BY <1>1, <1>8 DEF Within
<1>13. n \in 0..n
  BY <1>2
<1> QED
  BY <1>1, <1>11, <1>12, <1>13

-----------------------------------------------------------------------------
(* Locators.                                                               *)

LEMMA BackIs ==
  ASSUME NEW n \in Nat
  PROVE  /\ Back(n)[0].nBack = 0
         /\ \A k \in 0..n : Back(n)[k].nBack \in Nat
         /\ \A k \in 1..n : Back(n)[k - 1].nBack <= Back(n)[k].nBack
<1>1. PICK T, a : T = [nBack : Nat, nStep : Nat] /\ a = [nBack |-> 0, nStep |-> 1]
  OBVIOUS
<1>2. a \in T /\ \A k \in 1..n : \A x \in T : Further(k, x) \in T /\ x.nBack <= Further(k, x).nBack
  BY <1>1 DEF Further
<1>3. PICK step : step = [k \in 1..n |-> [x \in T |-> Further(k, x)]]
  OBVIOUS
<1>4. /\ step \in [1..n -> [T -> T]]
      /\ \A k \in 1..n : \A x \in T : step[k][x] = Further(k, x)
  BY <1>2, <1>3
<1>5. PICK g : Loop(g, T, a, step, n)
  BY <1>2, <1>4, LoopExists
<1>6. g = [k \in 0..n |-> IF k = 0 THEN a ELSE Further(k, g[k - 1])]
  <2>1. g = [k \in 0..n |-> g[k]] /\ g[0] = a
    BY <1>5 DEF Loop
  <2>2. ASSUME NEW k \in 0..n PROVE g[k] = IF k = 0 THEN a ELSE Further(k, g[k - 1])
    <3>1. k # 0 => k \in 1..n /\ k - 1 \in 0..n
      OBVIOUS
    <3>2. k # 0 => g[k] = step[k][g[k - 1]] /\ g[k - 1] \in T
      BY <1>5, <3>1 DEF Loop
    <3> QED
      BY <1>4, <2>1, <3>1, <3>2
  <2> QED
    BY <2>1, <2>2, Zenon
<1>7. PICK f : f = CHOOSE h : h = [k \in 0..n |-> IF k = 0 THEN a ELSE Further(k, h[k - 1])]
  OBVIOUS
<1>8. f = [k \in 0..n |-> IF k = 0 THEN a ELSE Further(k, f[k - 1])]
  BY <1>6, <1>7
<1>9. f[0] = a /\ f = [k \in 0..n |-> f[k]] /\ \A k \in 1..n : f[k] = Further(k, f[k - 1])
  <2>1. 0 \in 0..n /\ \A k \in 1..n : k \in 0..n /\ k # 0
    OBVIOUS
  <2> QED
    BY <1>8, <2>1
<1>10. f \in [0..n -> T]
  <2>1. f = [k \in 0..n |-> f[k]] /\ f[0] \in T
    BY <1>2, <1>9
  <2>2. \A k \in 1..n : f[k - 1] \in T => f[k] \in T
    BY <1>2, <1>9
  <2> QED
    BY <2>1, <2>2, LoopInvariant
<1>11. Back(n) = f
  BY <1>1, <1>7 DEF Back
<1>12. ASSUME NEW k \in 1..n PROVE f[k - 1].nBack <= f[k].nBack
  <2>1. k - 1 \in 0..n
    OBVIOUS
  <2> QED
    BY <1>2, <1>9, <1>10, <2>1
<1>13. \A k \in 0..n : f[k].nBack \in Nat
  BY <1>1, <1>10
<1>14. f[0].nBack = 0
  BY <1>1, <1>9
<1> QED
  BY <1>11, <1>12, <1>13, <1>14

\* A locator is a sequence that ends with the first block of the branch.
LEMMA LocatorIs ==
  ASSUME NEW c \in Seq(Block), c # <<>>
  PROVE  vHave(c) \in Seq(Block) /\ \E k \in DOMAIN vHave(c) : vHave(c)[k] = c[1]
<1>1. PICK l, f : l = Len(c) /\ f = Back(l)
  OBVIOUS
<1>2. l \in Nat \ {0} /\ \A i \in 1..l : c[i] \in Block
  BY <1>1
<1>3. PICK t : t = [k \in 0..l |-> f[k].nBack]
  OBVIOUS
<1>4. t[0] = 0 /\ t \in [0..l -> Nat] /\ \A k \in 1..l : t[k - 1] <= t[k]
  <2>1. \A k \in 1..l : k \in 0..l /\ k - 1 \in 0..l
    BY <1>2
  <2>2. 0 \in 0..l /\ l \in Nat
    BY <1>2
  <2>3. /\ f[0].nBack = 0
        /\ \A k \in 0..l : f[k].nBack \in Nat
        /\ \A k \in 1..l : f[k - 1].nBack <= f[k].nBack
    BY <1>1, <2>2, BackIs
  <2> QED
    BY <1>3, <2>1, <2>2, <2>3
<1> DEFINE entries == {k \in 1..l : t[k - 1] < l}
<1>5. PICK m \in entries : \A k \in entries : k <= m
  <2>1. 1 \in entries
    <3>1. 1 \in 1..l /\ 1 - 1 = 0
      BY <1>2
    <3> QED
      BY <1>2, <1>4, <3>1
  <2>2. entries \subseteq 0..l
    BY <1>2
  <2> HIDE DEF entries
  <2> QED
    BY <1>2, <2>1, <2>2, GreatestExists
<1>6. m \in 1..l /\ m - 1 \in 0..l /\ t[m - 1] < l
  BY <1>2, <1>5
<1>7. ASSUME NEW k \in 1..m PROVE k \in 1..l /\ k - 1 \in 0..l /\ t[k - 1] < l
  <2>1. k - 1 \in 0..l /\ m - 1 \in (k - 1)..l /\ k \in 1..l
    BY <1>2, <1>6
  <2>2. t[k - 1] <= t[m - 1]
    <3>1. \A i \in 0..l : t[i] \in Nat
      BY <1>4
    <3>2. \A i \in 0 + 1..l : t[i - 1] <= t[i]
      BY <1>4
    <3> QED
      BY <1>2, <2>1, <3>1, <3>2, StepsUp
  <2>3. PICK x, y : x = t[k - 1] /\ y = t[m - 1]
    OBVIOUS
  <2>4. x \in Nat /\ y \in Nat /\ x <= y /\ y < l
    BY <1>4, <1>6, <2>1, <2>2, <2>3
  <2> QED
    BY <1>2, <2>1, <2>3, <2>4
<1>8. entries = 1..m
  <2>1. \A k \in entries : k \in 1..m
    BY <1>2, <1>5
  <2> QED
    BY <1>7, <2>1
<1>9. {k \in 1..l : f[k - 1].nBack < l} = entries
  <2>1. \A k \in 1..l : t[k - 1] = f[k - 1].nBack
    BY <1>2, <1>3
  <2> QED
    BY <2>1
<1>10. PICK g : g = [k \in 1..m |-> c[l - f[k - 1].nBack]]
  OBVIOUS
<1>11. vHave(c) = Append(g, c[1])
  <2> HIDE DEF entries
  <2> QED
    BY <1>1, <1>8, <1>9, <1>10 DEF vHave
<1>12. g \in Seq(Block)
  <2>1. ASSUME NEW k \in 1..m PROVE c[l - f[k - 1].nBack] \in Block
    <3>1. PICK x : x = t[k - 1]
      OBVIOUS
    <3>2. x \in Nat /\ x < l /\ x = f[k - 1].nBack
      BY <1>3, <1>4, <1>7, <3>1
    <3>3. l - x \in 1..l
      BY <1>2, <3>2
    <3> QED
      BY <1>2, <3>2, <3>3
  <2>2. g \in [1..m -> Block]
    BY <1>10, <2>1
  <2>3. m \in Nat
    BY <1>2, <1>6
  <2> QED
    BY <2>2, <2>3
<1>13. c[1] \in Block
  BY <1>2
<1>14. PICK h : h = Append(g, c[1])
  OBVIOUS
<1>15. h \in Seq(Block) /\ Len(g) + 1 \in DOMAIN h /\ h[Len(g) + 1] = c[1]
  BY <1>12, <1>13, <1>14
<1> QED
  BY <1>11, <1>14, <1>15

-----------------------------------------------------------------------------
(* Messages.                                                               *)

\* The messages with a locator have the genesis block in it, which every node has in
\* its main chain.
Good ==
  {x \in Message : x.type = "getblocks" =>
     \E k \in DOMAIN x.locator : x.locator[k] = hashGenesisBlock}

LEMMA GoodMessages ==
  /\ [type |-> "version"] \in Good
  /\ \A s \in Seq(Block) :
       [type |-> "inv", inv |-> s] \in Good /\ [type |-> "getdata", inv |-> s] \in Good
  /\ \A b \in Block : [type |-> "block", block |-> b] \in Good
<1>1. [type |-> "version"] \in Good
  BY DEF Good, Message
<1>2. ASSUME NEW s \in Seq(Block)
      PROVE  [type |-> "inv", inv |-> s] \in Good /\ [type |-> "getdata", inv |-> s] \in Good
  BY DEF Good, Message
<1>3. ASSUME NEW b \in Block PROVE [type |-> "block", block |-> b] \in Good
  BY DEF Good, Message
<1> QED
  BY <1>1, <1>2, <1>3

LEMMA GoodLocators ==
  ASSUME NEW r \in Request
  PROVE  [type |-> "getblocks", locator |-> vHave(Branch[r.pindexBegin]),
          hashStop |-> r.hashEnd] \in Good
<1>1. r.pindexBegin \in Block /\ r.hashEnd \in Block \cup {Null}
  BY DEF Request
<1>2. PICK c : c = Branch[r.pindexBegin]
  OBVIOUS
<1>3. c \in Seq(Block) /\ c # <<>> /\ c[1] = hashGenesisBlock
  BY <1>1, <1>2, AncestorAssumption
<1>4. vHave(c) \in Seq(Block) /\ \E k \in DOMAIN vHave(c) : vHave(c)[k] = c[1]
  BY <1>3, LocatorIs
<1>5. PICK v : v = vHave(c)
  OBVIOUS
<1>6. PICK x : x = [type |-> "getblocks", locator |-> v, hashStop |-> r.hashEnd]
  OBVIOUS
<1>7. x \in Message /\ x.locator = v
  BY <1>1, <1>4, <1>5, <1>6 DEF Message
<1>8. x \in Good
  BY <1>3, <1>4, <1>5, <1>7 DEF Good
<1> QED
  BY <1>2, <1>5, <1>6, <1>8

\* What a message of each type has in it.
LEMMA GoodParts ==
  ASSUME NEW x \in Good
  PROVE  /\ x.type \in {"inv", "getdata"} => x.inv \in Seq(Block)
         /\ x.type = "block" => x.block \in Block
         /\ x.type = "getblocks" =>
              /\ x.locator \in Seq(Block)
              /\ \E k \in DOMAIN x.locator : x.locator[k] = hashGenesisBlock
<1>1. x \in Message
  BY DEF Good
<1>2. x.type \in {"inv", "getdata"} => x.inv \in Seq(Block)
  BY <1>1 DEF Message
<1>3. x.type = "block" => x.block \in Block
  BY <1>1 DEF Message
<1>4. x.type = "getblocks" => x.locator \in Seq(Block)
  BY <1>1 DEF Message
<1> QED
  BY <1>2, <1>3, <1>4 DEF Good

LEMMA GoodGetBlocks ==
  ASSUME NEW requests \in Seq(Request)
  PROVE  GetBlocksMessages(requests) \in Seq(Good)
<1>1. DOMAIN requests = 1..Len(requests) /\ Len(requests) \in Nat
  OBVIOUS
<1>2. ASSUME NEW i \in DOMAIN requests PROVE GetBlocksMessages(requests)[i] \in Good
  <2>1. requests[i] \in Request
    OBVIOUS
  <2> QED
    BY <2>1, GoodLocators DEF GetBlocksMessages
<1>3. GetBlocksMessages(requests)
        = [i \in 1..Len(requests) |-> GetBlocksMessages(requests)[i]]
  BY <1>1 DEF GetBlocksMessages
<1> QED
  BY <1>1, <1>2, <1>3

LEMMA GoodBlocks ==
  ASSUME NEW s \in Seq(Block)
  PROVE  BlockMessages(s) \in Seq(Good)
<1>1. DOMAIN s = 1..Len(s) /\ Len(s) \in Nat
  OBVIOUS
<1>2. ASSUME NEW i \in DOMAIN s PROVE BlockMessages(s)[i] \in Good
  BY GoodMessages DEF BlockMessages
<1>3. BlockMessages(s) = [i \in 1..Len(s) |-> BlockMessages(s)[i]]
  BY <1>1 DEF BlockMessages
<1> QED
  BY <1>1, <1>2, <1>3

-----------------------------------------------------------------------------
(* The state of the connections.                                           *)

Peers == [Link -> CNode \cup {Null}]
Channels == [Link -> Seq(Good)]

\* What DownloadTypeOK needs of the connections, with the genesis block in locators.
WireInv ==
  /\ mapAlreadyAskedFor \in [Node -> [Block -> 0..MaxWait]]
  /\ fAskedForBlocks \in [Node -> BOOLEAN]
  /\ pnode \in Peers /\ channel \in Channels
  /\ nDisconnects \in 0..MaxDisconnects
  /\ \A n \in Node : mapOrphanBlocks[n] \cap mapBlockIndex[n] = {}

LEMMA AnswerTyped ==
  ASSUME NEW n \in Node, NEW m \in Node, n # m, channel \in Channels,
         channel[<<m, n>>] # <<>>, NEW messages \in Seq(Good)
  PROVE  Answer(n, m, messages) \in Channels
<1>1. <<n, m>> \in Link /\ <<m, n>> \in Link /\ <<n, m>> # <<m, n>>
  BY DEF Link
<1>2. Tail(channel[<<m, n>>]) \in Seq(Good) /\ channel[<<n, m>>] \o messages \in Seq(Good)
  BY <1>1 DEF Channels
<1> QED
  BY <1>1, <1>2 DEF Answer, Channels

LEMMA SendTyped ==
  ASSUME NEW n \in Node, NEW m \in Node, n # m, channel \in Channels,
         NEW messages \in Seq(Good)
  PROVE  Send(n, m, messages) \in Channels
<1>1. <<n, m>> \in Link
  BY DEF Link
<1>2. channel[<<n, m>>] \o messages \in Seq(Good)
  BY <1>1 DEF Channels
<1> QED
  BY <1>1, <1>2 DEF Send, Channels

LEMMA PeerChanged ==
  ASSUME NEW n \in Node, NEW m \in Node, n # m, NEW nodes \in Peers,
         NEW node \in CNode \cup {Null}
  PROVE  [nodes EXCEPT ![<<n, m>>] = node] \in Peers
  BY DEF Peers, Link

\* A message that a node takes, and what it keeps of the sender.
LEMMA TakenMessage ==
  ASSUME WireInv, NEW n \in Node, NEW m \in Node, n # m, NEW type, Received(n, m, type)
  PROVE  /\ pnode[<<n, m>>] \in CNode
         /\ Head(channel[<<m, n>>]) \in Good
         /\ Head(channel[<<m, n>>]).type = type
         /\ channel[<<m, n>>] # <<>>
<1>1. <<n, m>> \in Link /\ <<m, n>> \in Link
  BY DEF Link
<1>2. pnode[<<n, m>>] # Null
  BY DEF Received, vNodes
<1>3. channel[<<m, n>>] \in Seq(Good) /\ channel[<<m, n>>] # <<>>
  BY <1>1 DEF WireInv, Channels, Received
<1> QED
  BY <1>1, <1>2, <1>3 DEF WireInv, Peers, Received

LEMMA UnknownIs ==
  ASSUME NEW node, NEW s \in Seq(Block)
  PROVE  Unknown(node, s) \in Seq(Block)
  BY WithinIs DEF Unknown

LEMMA PushedTyped ==
  ASSUME NEW node \in CNode, NEW s \in Seq(Block)
  PROVE  PushInventory(node, s) \in CNode
<1>1. node.vInventoryToSend \in Seq(Block)
  BY DEF CNode
<1>2. PICK t : t = node.vInventoryToSend \o Unknown(node, s)
  OBVIOUS
<1>3. t \in Seq(Block)
  BY <1>1, <1>2, UnknownIs
<1> QED
  BY <1>2, <1>3 DEF PushInventory, CNode

LEMMA KnownTyped ==
  ASSUME NEW node \in CNode, NEW s \in Seq(Block)
  PROVE  AddInventoryKnown(node, s) \in CNode
<1>1. node.setInventoryKnown \cup ToSet(s) \in SUBSET Block
  BY ToSetIs DEF CNode
<1> QED
  BY <1>1 DEF AddInventoryKnown, CNode

LEMMA AskedTyped ==
  ASSUME NEW n, NEW node \in CNode, NEW s \in Seq(Block)
  PROVE  AskFor(n, node, s) \in CNode
<1>1. node.mapAskFor \in [0..MaxWait -> Seq(Block)]
  BY DEF CNode
<1>2. PICK f : f = [w \in 0..MaxWait |->
                      node.mapAskFor[w] \o Within(s, {b \in Block : nRequestTime(n, b) = w})]
  OBVIOUS
<1>3. f \in [0..MaxWait -> Seq(Block)]
  <2>1. ASSUME NEW w \in 0..MaxWait
        PROVE  node.mapAskFor[w] \o Within(s, {b \in Block : nRequestTime(n, b) = w}) \in Seq(Block)
    <3>1. PICK t : t = Within(s, {b \in Block : nRequestTime(n, b) = w})
      OBVIOUS
    <3>2. t \in Seq(Block)
      BY <3>1, WithinIs
    <3>3. node.mapAskFor[w] \in Seq(Block)
      BY <1>1
    <3> QED
      BY <3>1, <3>2, <3>3
  <2> QED
    BY <1>2, <2>1
<1>4. AskFor(n, node, s) = [node EXCEPT !.mapAskFor = f]
  BY <1>2 DEF AskFor
<1> QED
  BY <1>3, <1>4 DEF CNode

LEMMA RequestedTyped ==
  ASSUME NEW node \in CNode, NEW requests \in Seq(Request)
  PROVE  PushGetBlocks(node, requests) \in CNode
<1>1. requests # <<>> => Last(requests) \in Request
  BY LastIs
<1>2. (IF requests = <<>> THEN node.lastGetBlocks ELSE Last(requests)) \in Request \cup {Null}
  BY <1>1 DEF CNode
<1> QED
  BY <1>2 DEF PushGetBlocks, CNode

LEMMA RelayTyped ==
  ASSUME NEW n, NEW l, NEW node \in CNode \cup {Null}, NEW s \in Seq(Block)
  PROVE  Relay(n, l, node, s) \in CNode \cup {Null}
  BY PushedTyped DEF Relay

LEMMA NewTyped ==
  ASSUME NEW inbound \in BOOLEAN
  PROVE  NewNode(inbound) \in CNode
<1>1. [w \in 0..MaxWait |-> <<>>] \in [0..MaxWait -> Seq(Block)]
  OBVIOUS
<1> QED
  BY <1>1 DEF NewNode, CNode

LEMMA TickedTyped ==
  ASSUME NEW node \in CNode \cup {Null}
  PROVE  TickNode(node) \in CNode \cup {Null}
<1>1. CASE node = Null
  BY <1>1 DEF TickNode
<1>2. CASE node # Null
  <2>1. node \in CNode
    BY <1>2
  <2>2. PICK f : f = node.mapAskFor
    OBVIOUS
  <2>3. f \in [0..MaxWait -> Seq(Block)]
    BY <2>1, <2>2 DEF CNode
  <2>4. PICK g : g = [w \in 0..MaxWait |->
             IF w = 0 THEN f[0] \o f[1] ELSE IF w = MaxWait THEN <<>> ELSE f[w + 1]]
    OBVIOUS
  <2>5. g \in [0..MaxWait -> Seq(Block)]
    <3>1. MaxWait \in Nat \ {0}
      BY DownloadAssumption
    <3>2. 0 \in 0..MaxWait /\ 1 \in 0..MaxWait
      BY <3>1
    <3>3. f[0] \o f[1] \in Seq(Block)
      BY <2>3, <3>2
    <3>4. \A w \in 0..MaxWait : w # MaxWait => w + 1 \in 0..MaxWait
      BY <3>1
    <3>5. <<>> \in Seq(Block)
      OBVIOUS
    <3> QED
      BY <2>3, <2>4, <3>3, <3>4, <3>5
  <2>6. TickNode(node) = [node EXCEPT !.mapAskFor = g]
    BY <1>2, <2>2, <2>4 DEF TickNode
  <2> QED
    BY <2>1, <2>5, <2>6 DEF CNode
<1> QED
  BY <1>1, <1>2

-----------------------------------------------------------------------------
(* What the handlers put together.                                         *)

LEMMA AskTime ==
  ASSUME WireInv, NEW n \in Node, NEW b \in Block
  PROVE  nRequestTime(n, b) + nRetry \in 0..MaxWait
<1>1. PICK t : t = mapAlreadyAskedFor[n][b]
  OBVIOUS
<1>2. t \in 0..MaxWait /\ MaxWait \in Nat \ {0}
  BY <1>1, DownloadAssumption DEF WireInv
<1>3. PICK S : S = {t, MaxWait - 1}
  OBVIOUS
<1>4. Min(S) \in S
  <2>1. S \subseteq Nat /\ S # {}
    BY <1>2, <1>3
  <2> QED
    BY <2>1, MinIs
<1>5. PICK r : r = Min(S)
  OBVIOUS
<1>6. \A y \in S : r <= y
  <2>1. S \subseteq Nat /\ S # {}
    BY <1>2, <1>3
  <2> QED
    BY <2>1, <1>5, MinIs
<1>7. r \in Nat /\ r <= MaxWait - 1
  BY <1>2, <1>3, <1>4, <1>5, <1>6
<1>8. nRequestTime(n, b) = r
  BY <1>1, <1>3, <1>5 DEF nRequestTime, nRetry
<1> QED
  BY <1>2, <1>7, <1>8 DEF nRetry

LEMMA FillInTyped ==
  ASSUME SetsOK, NEW n \in Node, NEW b \in Block
  PROVE  FillIn(n, b) \in Request
<1>1. PICK c : c = Branch[b]
  OBVIOUS
<1>2. c \in Seq(Block) /\ c # <<>>
  BY <1>1, AncestorAssumption
<1>3. PICK S : S = {i \in DOMAIN c : \A j \in i..Len(c) - 1 : c[j] \in mapOrphanBlocks[n]}
  OBVIOUS
<1>4. Len(c) \in S /\ S \subseteq Nat
  <2>1. Len(c) \in Nat \ {0} /\ DOMAIN c = 1..Len(c)
    BY <1>2
  <2>2. \A j \in Len(c)..Len(c) - 1 : c[j] \in mapOrphanBlocks[n]
    BY <2>1
  <2> QED
    BY <1>3, <2>1, <2>2
<1>5. Min(S) \in DOMAIN c
  <2>1. S # {}
    BY <1>4
  <2>2. Min(S) \in S
    BY <1>4, <2>1, MinIs
  <2> QED
    BY <1>3, <2>2
<1>6. c[Min(S)] \in Block
  BY <1>2, <1>5
<1>7. GetOrphanRoot(n, b) = c[Min(S)]
  BY <1>1, <1>3 DEF GetOrphanRoot
<1>8. pindexBest[n] \in Block
  BY DEF SetsOK
<1> QED
  BY <1>6, <1>7, <1>8 DEF FillIn, Request

LEMMA ContinuationsTyped ==
  ASSUME SetsOK, NEW n \in Node, NEW inv \in Seq(Block)
  PROVE  Continuations(n, inv) \in Seq(Request)
<1>1. PICK orphans : orphans = Within(inv, mapOrphanBlocks[n])
  OBVIOUS
<1>2. orphans \in Seq(Block)
  BY <1>1, WithinIs
<1>3. PICK s : s = [i \in DOMAIN orphans |-> FillIn(n, orphans[i])]
  OBVIOUS
<1>4. s \in Seq(Request)
  <2>1. DOMAIN orphans = 1..Len(orphans) /\ Len(orphans) \in Nat
    BY <1>2
  <2>2. \A i \in DOMAIN orphans : FillIn(n, orphans[i]) \in Request
    BY <1>2, FillInTyped
  <2> QED
    BY <1>3, <2>1, <2>2
<1>5. PICK t : t = IF Last(inv) \in mapBlockIndex[n]
                   THEN <<[pindexBegin |-> Last(inv), hashEnd |-> Null]>> ELSE <<>>
  OBVIOUS
<1>6. t \in Seq(Request)
  <2>1. mapBlockIndex[n] \subseteq Block
    BY DEF SetsOK
  <2>2. Last(inv) \in Block => [pindexBegin |-> Last(inv), hashEnd |-> Null] \in Request
    BY DEF Request
  <2> QED
    BY <1>5, <2>1, <2>2
<1>7. Continuations(n, inv) = s \o t
  BY <1>1, <1>3, <1>5 DEF Continuations
<1> QED
  BY <1>4, <1>6, <1>7

LEMMA FreshTyped ==
  ASSUME NEW node, NEW requests \in Seq(Request), NEW fresh \in Fresh(node, requests)
  PROVE  GetBlocksMessages(fresh) \in Seq(Good)
<1>1. PICK P : P = {i \in DOMAIN requests :
            requests[i] # IF i = 1 THEN node.lastGetBlocks ELSE requests[i - 1]}
  OBVIOUS
<1>2. fresh \in Picked(requests, P) /\ P \subseteq DOMAIN requests
  BY <1>1 DEF Fresh
<1>3. fresh \in Seq(Request)
  BY <1>2, PickedIs
<1> QED
  BY <1>3, GoodGetBlocks

\* The locator of a getblocks leads to a block of the main chain of the node that
\* answers, so the answer is a part of that chain.
LEMMA RestTyped ==
  ASSUME SetsOK, NEW n \in Node, NEW x \in Good, x.type = "getblocks"
  PROVE  RestOfChain(n, x) \in Seq(Block)
<1>1. PICK main, have : main = Branch[pindexBest[n]] /\ have = x.locator
  OBVIOUS
<1>2. pindexBest[n] \in Block
  BY DEF SetsOK
<1>3. main \in Seq(Block) /\ main # <<>> /\ main[1] = hashGenesisBlock
  BY <1>1, <1>2, AncestorAssumption
<1>4. have \in Seq(Block) /\ \E k \in DOMAIN have : have[k] = hashGenesisBlock
  BY <1>1, GoodParts
<1>5. Len(main) \in Nat \ {0} /\ DOMAIN main = 1..Len(main) /\ 1 \in DOMAIN main
  BY <1>3
<1>6. PICK S : S = {k \in DOMAIN have : \E i \in DOMAIN main : main[i] = have[k]}
  OBVIOUS
<1>7. Min(S) \in S
  <2>1. S # {}
    BY <1>3, <1>4, <1>5, <1>6
  <2>2. S \subseteq Nat
    BY <1>4, <1>6
  <2> QED
    BY <2>1, <2>2, MinIs
<1>8. PICK c : c = GetBlockIndex(have, main)
  OBVIOUS
<1>9. PICK i \in DOMAIN main : main[i] = c
  BY <1>6, <1>7, <1>8 DEF GetBlockIndex, FirstInMain
<1>10. nHeight(c) \in Nat /\ nHeight(c) <= Len(main) - 1
  <2>1. c \in Ancestors(pindexBest[n]) /\ c \in Block
    BY <1>1, <1>3, <1>9 DEF Ancestors
  <2>2. nHeight(c) <= nHeight(pindexBest[n])
    BY <1>2, <2>1, AncestorAssumption
  <2>3. nHeight(c) \in Nat
    <3>1. Branch[c] \in Seq(Block) /\ Branch[c] # <<>>
      BY <2>1, AncestorAssumption
    <3>2. Len(Branch[c]) \in Nat \ {0}
      BY <3>1
    <3> QED
      BY <3>2 DEF nHeight
  <2> QED
    BY <1>1, <2>2, <2>3 DEF nHeight
<1>11. PICK first : first = nHeight(c) + 2
  OBVIOUS
<1>12. first \in Nat \ {0} /\ first > 1
  BY <1>10, <1>11
<1>13. PICK E : E = {Len(main)} \cup {j - 1 : j \in {k \in first..Len(main) : main[k] = x.hashStop}}
  OBVIOUS
<1>14. E \subseteq Nat /\ E # {}
  <2>1. ASSUME NEW j \in first..Len(main) PROVE j - 1 \in Nat
    BY <1>5, <1>12
  <2> QED
    BY <1>5, <1>13, <2>1
<1>15. Min(E) \in Nat /\ Min(E) <= Len(main)
  <2>1. Min(E) \in E /\ \A y \in E : Min(E) <= y
    BY <1>14, MinIs
  <2>2. Len(main) \in E
    BY <1>13
  <2> QED
    BY <1>14, <2>1, <2>2
<1>16. PICK e : e = Min(E)
  OBVIOUS
<1>17. e \in Int /\ e <= Len(main)
  BY <1>15, <1>16
<1>18. SubSeq(main, first, e) \in Seq(Block)
  BY <1>3, <1>12, <1>17, PieceIs
<1>19. RestOfChain(n, x) = SubSeq(main, first, e)
  BY <1>1, <1>8, <1>11, <1>13, <1>16 DEF RestOfChain
<1> QED
  BY <1>18, <1>19

LEMMA AcceptTyped ==
  ASSUME SetsOK, WireInv, NEW n \in Node, NEW b \in Block, NEW nodes \in Peers,
         b \notin AlreadyHave(n), AcceptBlock(n, b, nodes)
  PROVE  /\ pnode' \in Peers
         /\ \A k \in Node : mapOrphanBlocks'[k] \cap mapBlockIndex'[k] = {}
<1>1. PICK accepted : accepted = Accepted(n, b)
  OBVIOUS
<1>2. /\ mapBlockIndex' = [mapBlockIndex EXCEPT ![n] = @ \cup accepted]
      /\ mapOrphanBlocks' = [mapOrphanBlocks EXCEPT ![n] = @ \ accepted]
  BY <1>1 DEF AcceptBlock, OrphansLeft
<1>3. PICK s \in BestInTurn(n, accepted) : pnode' = [l \in Link |-> Relay(n, l, nodes[l], s)]
  BY <1>1 DEF AcceptBlock
<1>4. accepted \subseteq Block
  BY <1>1 DEF Accepted, SetsOK
<1>5. s \in Seq(Block)
  <2>1. PICK k \in 0..Cardinality(accepted) : s \in [1..k -> accepted]
    BY <1>3 DEF BestInTurn
  <2>2. k \in Nat /\ s \in [1..k -> Block]
    BY <1>4, <2>1
  <2> QED
    BY <2>2
<1>6. pnode' \in Peers
  <2>1. ASSUME NEW l \in Link PROVE Relay(n, l, nodes[l], s) \in CNode \cup {Null}
    <3>1. nodes[l] \in CNode \cup {Null}
      BY DEF Peers
    <3> QED
      BY <1>5, <3>1, RelayTyped
  <2> QED
    BY <1>3, <2>1 DEF Peers
<1>7. ASSUME NEW k \in Node PROVE mapOrphanBlocks'[k] \cap mapBlockIndex'[k] = {}
  <2>1. mapOrphanBlocks[k] \cap mapBlockIndex[k] = {}
    BY DEF WireInv
  <2> QED
    BY <1>2, <2>1 DEF SetsOK
<1> QED
  BY <1>6, <1>7

-----------------------------------------------------------------------------
(* Every step keeps the state of the connections well typed.               *)

Typed == SetsOK /\ WireInv

LEMMA VersionTyped ==
  ASSUME Typed, NEW n \in Node, NEW m \in Node, n # m, ReceiveVersion(n, m)
  PROVE  WireInv'
<1>0. SetsOK /\ WireInv
  BY DEF Typed
<1>1. PICK node : node = [pnode[<<n, m>>] EXCEPT !.nVersion = TRUE]
  OBVIOUS
<1>2. PICK requests : requests = IF AsksForBlocks(n)
                     THEN <<[pindexBegin |-> pindexBest[n], hashEnd |-> Null]>> ELSE <<>>
  OBVIOUS
<1>3. PICK hello : hello = IF node.fInbound THEN <<[type |-> "version"]>> ELSE <<>>
  OBVIOUS
<1>4. /\ pnode' = [pnode EXCEPT ![<<n, m>>] = PushGetBlocks(node, requests)]
      /\ \E fresh \in Fresh(node, requests) :
           channel' = Answer(n, m, hello \o GetBlocksMessages(fresh))
      /\ fAskedForBlocks' = [fAskedForBlocks EXCEPT ![n] = @ \/ AsksForBlocks(n)]
      /\ UNCHANGED <<nodeVars, mapAlreadyAskedFor, nDisconnects>>
  BY <1>1, <1>2, <1>3 DEF ReceiveVersion
<1>5. /\ pnode[<<n, m>>] \in CNode /\ channel[<<m, n>>] # <<>>
  BY <1>0, TakenMessage DEF ReceiveVersion
<1>6. node \in CNode
  BY <1>1, <1>5 DEF CNode
<1>7. requests \in Seq(Request)
  <2>1. [pindexBegin |-> pindexBest[n], hashEnd |-> Null] \in Request
    BY <1>0 DEF SetsOK, Request
  <2> QED
    BY <1>2, <2>1
<1>8. hello \in Seq(Good)
  BY <1>3, GoodMessages
<1>9. pnode' \in Peers
  <2>1. PushGetBlocks(node, requests) \in CNode
    BY <1>6, <1>7, RequestedTyped
  <2>2. pnode \in Peers
    BY <1>0 DEF WireInv
  <2> QED
    BY <1>4, <2>1, <2>2, PeerChanged
<1>10. channel' \in Channels
  <2>1. PICK fresh \in Fresh(node, requests) :
          channel' = Answer(n, m, hello \o GetBlocksMessages(fresh))
    BY <1>4
  <2>2. PICK s, t : s = GetBlocksMessages(fresh) /\ t = hello \o s
    OBVIOUS
  <2>3. t \in Seq(Good)
    BY <1>7, <1>8, <2>2, FreshTyped
  <2>4. channel \in Channels
    BY <1>0 DEF WireInv
  <2> QED
    BY <1>5, <2>1, <2>2, <2>3, <2>4, AnswerTyped
<1>11. fAskedForBlocks' \in [Node -> BOOLEAN]
  <2>1. PICK asks \in BOOLEAN : asks = (fAskedForBlocks[n] \/ AsksForBlocks(n))
    OBVIOUS
  <2>2. fAskedForBlocks' = [fAskedForBlocks EXCEPT ![n] = asks]
    BY <1>4, <2>1, Zenon
  <2> QED
    BY <1>0, <2>2 DEF WireInv
<1> QED
  BY <1>0, <1>4, <1>9, <1>10, <1>11 DEF WireInv, nodeVars

\* The times of requests: some blocks get a new one.
LEMMA TimesTyped ==
  ASSUME WireInv, NEW n \in Node, NEW S, NEW time, \A b \in Block : time[b] \in 0..MaxWait,
         mapAlreadyAskedFor' =
           [mapAlreadyAskedFor EXCEPT ![n] = [b \in Block |-> IF b \in S THEN time[b] ELSE @[b]]]
  PROVE  mapAlreadyAskedFor' \in [Node -> [Block -> 0..MaxWait]]
<1>1. PICK f : f = mapAlreadyAskedFor[n]
  OBVIOUS
<1>2. PICK g : g = [b \in Block |-> IF b \in S THEN time[b] ELSE f[b]]
  OBVIOUS
<1>3. g \in [Block -> 0..MaxWait]
  BY <1>1, <1>2 DEF WireInv
<1>4. mapAlreadyAskedFor' = [mapAlreadyAskedFor EXCEPT ![n] = g]
  BY <1>1, <1>2
<1> QED
  BY <1>3, <1>4 DEF WireInv

LEMMA InvTyped ==
  ASSUME Typed, NEW n \in Node, NEW m \in Node, n # m, ReceiveInv(n, m)
  PROVE  WireInv'
<1>0. SetsOK /\ WireInv
  BY DEF Typed
<1>1. PICK x : x = Head(channel[<<m, n>>])
  OBVIOUS
<1>2. PICK inv : inv = x.inv
  OBVIOUS
<1>3. PICK new : new = Within(inv, Block \ AlreadyHave(n))
  OBVIOUS
<1>4. PICK known : known = AddInventoryKnown(pnode[<<n, m>>], inv)
  OBVIOUS
<1>5. PICK node : node = AskFor(n, known, new)
  OBVIOUS
<1>6. PICK requests : requests = Continuations(n, inv)
  OBVIOUS
<1>7. /\ pnode' = [pnode EXCEPT ![<<n, m>>] = PushGetBlocks(node, requests)]
      /\ \E fresh \in Fresh(node, requests) :
           channel' = Answer(n, m, GetBlocksMessages(fresh))
      /\ mapAlreadyAskedFor' =
           [mapAlreadyAskedFor EXCEPT ![n] =
              [b \in Block |-> IF b \in ToSet(new) THEN nRequestTime(n, b) + nRetry ELSE @[b]]]
      /\ UNCHANGED <<nodeVars, fAskedForBlocks, nDisconnects>>
  BY <1>1, <1>2, <1>3, <1>4, <1>5, <1>6 DEF ReceiveInv
<1>8. pnode[<<n, m>>] \in CNode /\ channel[<<m, n>>] # <<>> /\ x \in Good /\ x.type = "inv"
  BY <1>0, <1>1, TakenMessage DEF ReceiveInv
<1>9. inv \in Seq(Block)
  BY <1>2, <1>8, GoodParts
<1>10. new \in Seq(Block)
  BY <1>3, <1>9, WithinIs
<1>11. node \in CNode
  BY <1>4, <1>5, <1>8, <1>9, <1>10, KnownTyped, AskedTyped
<1>12. requests \in Seq(Request)
  BY <1>0, <1>6, <1>9, ContinuationsTyped
<1>13. pnode' \in Peers
  <2>1. PushGetBlocks(node, requests) \in CNode
    BY <1>11, <1>12, RequestedTyped
  <2>2. pnode \in Peers
    BY <1>0 DEF WireInv
  <2> QED
    BY <1>7, <2>1, <2>2, PeerChanged
<1>14. channel' \in Channels
  <2>1. PICK fresh \in Fresh(node, requests) : channel' = Answer(n, m, GetBlocksMessages(fresh))
    BY <1>7
  <2>2. GetBlocksMessages(fresh) \in Seq(Good)
    BY <1>12, FreshTyped
  <2>3. channel \in Channels
    BY <1>0 DEF WireInv
  <2> QED
    BY <1>8, <2>1, <2>2, <2>3, AnswerTyped
<1>15. mapAlreadyAskedFor' \in [Node -> [Block -> 0..MaxWait]]
  <2>1. PICK time : time = [b \in Block |-> nRequestTime(n, b) + nRetry]
    OBVIOUS
  <2>2. \A b \in Block : time[b] \in 0..MaxWait
    BY <1>0, <2>1, AskTime
  <2>3. mapAlreadyAskedFor' =
          [mapAlreadyAskedFor EXCEPT ![n] =
             [b \in Block |-> IF b \in ToSet(new) THEN time[b] ELSE @[b]]]
    BY <1>7, <2>1
  <2> QED
    BY <1>0, <2>2, <2>3, TimesTyped
<1> QED
  BY <1>0, <1>7, <1>13, <1>14, <1>15 DEF WireInv, nodeVars

LEMMA GetBlocksTyped ==
  ASSUME Typed, NEW n \in Node, NEW m \in Node, n # m, ReceiveGetBlocks(n, m)
  PROVE  WireInv'
<1>0. SetsOK /\ WireInv
  BY DEF Typed
<1>1. PICK x : x = Head(channel[<<m, n>>])
  OBVIOUS
<1>2. PICK rest : rest = RestOfChain(n, x)
  OBVIOUS
<1>3. PICK sent : sent = SubSeq(rest, 1, Min({nLimit, Len(rest)}))
  OBVIOUS
<1>4. PICK node : node = PushInventory(pnode[<<n, m>>], sent)
  OBVIOUS
<1>5. /\ pnode' = [pnode EXCEPT ![<<n, m>>] =
            IF Len(sent) = nLimit THEN [node EXCEPT !.hashContinue = Last(sent)] ELSE node]
      /\ channel' = Answer(n, m, <<>>)
      /\ UNCHANGED <<nodeVars, mapAlreadyAskedFor, fAskedForBlocks, nDisconnects>>
  BY <1>1, <1>2, <1>3, <1>4 DEF ReceiveGetBlocks
<1>6. pnode[<<n, m>>] \in CNode /\ channel[<<m, n>>] # <<>> /\ x \in Good /\ x.type = "getblocks"
  BY <1>0, <1>1, TakenMessage DEF ReceiveGetBlocks
<1>7. rest \in Seq(Block)
  BY <1>0, <1>2, <1>6, RestTyped
<1>8. sent \in Seq(Block)
  <2>1. PICK S, e : S = {nLimit, Len(rest)} /\ e = Min(S)
    OBVIOUS
  <2>2. S \subseteq Nat /\ S # {} /\ Len(rest) \in S
    BY <1>7, <2>1, DownloadAssumption
  <2>3. e \in S /\ \A y \in S : e <= y
    BY <2>1, <2>2, MinIs
  <2>4. e \in Int /\ e <= Len(rest)
    BY <2>2, <2>3
  <2>5. SubSeq(rest, 1, e) \in Seq(Block)
    BY <1>7, <2>4, PieceIs
  <2> QED
    BY <1>3, <2>1, <2>5
<1>9. node \in CNode
  BY <1>4, <1>6, <1>8, PushedTyped
<1>10. PICK after : after = IF Len(sent) = nLimit
                            THEN [node EXCEPT !.hashContinue = Last(sent)] ELSE node
  OBVIOUS
<1>11. after \in CNode
  <2>1. CASE Len(sent) = nLimit
    <3>1. sent # <<>>
      BY <2>1, DownloadAssumption
    <3>2. Last(sent) \in Block
      BY <1>8, <3>1, LastIs
    <3> QED
      BY <1>9, <1>10, <2>1, <3>2 DEF CNode
  <2>2. CASE Len(sent) # nLimit
    BY <1>9, <1>10, <2>2
  <2> QED
    BY <2>1, <2>2
<1>12. pnode' \in Peers /\ channel' \in Channels
  <2>1. pnode \in Peers /\ channel \in Channels
    BY <1>0 DEF WireInv
  <2>2. pnode' \in Peers
    BY <1>5, <1>10, <1>11, <2>1, PeerChanged
  <2>3. <<>> \in Seq(Good)
    OBVIOUS
  <2>4. channel' \in Channels
    BY <1>5, <1>6, <2>1, <2>3, AnswerTyped
  <2> QED
    BY <2>2, <2>4
<1> QED
  BY <1>0, <1>5, <1>12 DEF WireInv, nodeVars

LEMMA GetDataTyped ==
  ASSUME Typed, NEW n \in Node, NEW m \in Node, n # m, ReceiveGetData(n, m)
  PROVE  WireInv'
<1>0. SetsOK /\ WireInv
  BY DEF Typed
<1>1. PICK x, inv : x = Head(channel[<<m, n>>]) /\ inv = x.inv
  OBVIOUS
<1>2. PICK P : P = {i \in DOMAIN inv : inv[i] \in mapBlockIndex[n]}
  OBVIOUS
<1>3. PICK best : best = <<[type |-> "inv", inv |-> <<pindexBest[n]>>]>>
  OBVIOUS
<1>4. \E found \in Picked(inv, P) :
        \/ channel' = Answer(n, m, BlockMessages(found)) /\ pnode' = pnode
        \/ \E i \in ContinueAt(pnode[<<n, m>>], found) :
             /\ channel' = Answer(n, m, BlockMessages(SubSeq(found, 1, i)) \o best
                             \o BlockMessages(SubSeq(found, i + 1, Len(found))))
             /\ pnode' = [pnode EXCEPT ![<<n, m>>].hashContinue = Null]
  BY <1>1, <1>2, <1>3 DEF ReceiveGetData
<1>5. UNCHANGED <<nodeVars, mapAlreadyAskedFor, fAskedForBlocks, nDisconnects>>
  BY DEF ReceiveGetData
<1>6. pnode[<<n, m>>] \in CNode /\ channel[<<m, n>>] # <<>> /\ x \in Good /\ x.type = "getdata"
  BY <1>0, <1>1, TakenMessage DEF ReceiveGetData
<1>7. inv \in Seq(Block)
  BY <1>1, <1>6, GoodParts
<1>8. PICK found \in Picked(inv, P) :
        \/ channel' = Answer(n, m, BlockMessages(found)) /\ pnode' = pnode
        \/ \E i \in ContinueAt(pnode[<<n, m>>], found) :
             /\ channel' = Answer(n, m, BlockMessages(SubSeq(found, 1, i)) \o best
                             \o BlockMessages(SubSeq(found, i + 1, Len(found))))
             /\ pnode' = [pnode EXCEPT ![<<n, m>>].hashContinue = Null]
  BY <1>4
<1>9. found \in Seq(Block)
  BY <1>2, <1>7, PickedIs
<1>10. best \in Seq(Good)
  <2>1. <<pindexBest[n]>> \in Seq(Block)
    BY <1>0 DEF SetsOK
  <2>2. PICK y : y = [type |-> "inv", inv |-> <<pindexBest[n]>>]
    OBVIOUS
  <2>3. y \in Good
    BY <2>1, <2>2, GoodMessages
  <2> QED
    BY <1>3, <2>2, <2>3
<1>11. pnode \in Peers /\ channel \in Channels
  BY <1>0 DEF WireInv
<1>12. CASE channel' = Answer(n, m, BlockMessages(found)) /\ pnode' = pnode
  <2>1. BlockMessages(found) \in Seq(Good)
    BY <1>9, GoodBlocks
  <2>2. channel' \in Channels
    BY <1>6, <1>11, <1>12, <2>1, AnswerTyped
  <2> QED
    BY <1>0, <1>5, <1>12, <2>2 DEF WireInv, nodeVars
<1>13. CASE \E i \in ContinueAt(pnode[<<n, m>>], found) :
             /\ channel' = Answer(n, m, BlockMessages(SubSeq(found, 1, i)) \o best
                             \o BlockMessages(SubSeq(found, i + 1, Len(found))))
             /\ pnode' = [pnode EXCEPT ![<<n, m>>].hashContinue = Null]
  <2>1. PICK i \in ContinueAt(pnode[<<n, m>>], found) :
             /\ channel' = Answer(n, m, BlockMessages(SubSeq(found, 1, i)) \o best
                             \o BlockMessages(SubSeq(found, i + 1, Len(found))))
             /\ pnode' = [pnode EXCEPT ![<<n, m>>].hashContinue = Null]
    BY <1>13
  <2>2. i \in 1..Len(found)
    BY <1>9, <2>1 DEF ContinueAt
  <2>3. SubSeq(found, 1, i) \in Seq(Block) /\ SubSeq(found, i + 1, Len(found)) \in Seq(Block)
    BY <1>9, <2>2, PartOf
  <2>4. PICK s, t : /\ s = BlockMessages(SubSeq(found, 1, i))
                    /\ t = BlockMessages(SubSeq(found, i + 1, Len(found)))
    OBVIOUS
  <2>5. s \in Seq(Good) /\ t \in Seq(Good)
    BY <2>3, <2>4, GoodBlocks
  <2>6. s \o best \o t \in Seq(Good)
    BY <1>10, <2>5
  <2>7. channel' \in Channels
    BY <1>6, <1>11, <2>1, <2>4, <2>6, AnswerTyped
  <2>8. pnode' \in Peers
    <3>1. [pnode[<<n, m>>] EXCEPT !.hashContinue = Null] \in CNode
      BY <1>6 DEF CNode
    <3>2. pnode' = [pnode EXCEPT ![<<n, m>>] = [pnode[<<n, m>>] EXCEPT !.hashContinue = Null]]
      BY <2>1
    <3> QED
      BY <1>11, <3>1, <3>2, PeerChanged
  <2> QED
    BY <1>0, <1>5, <2>7, <2>8 DEF WireInv, nodeVars
<1> QED
  BY <1>8, <1>12, <1>13

\* A block that has come may be asked for again at once.
LEMMA ForgetTime ==
  ASSUME WireInv, NEW n \in Node, NEW b \in Block,
         mapAlreadyAskedFor' = [mapAlreadyAskedFor EXCEPT ![n][b] = 0]
  PROVE  mapAlreadyAskedFor' \in [Node -> [Block -> 0..MaxWait]]
<1>1. PICK f : f = mapAlreadyAskedFor[n]
  OBVIOUS
<1>2. PICK g : g = [f EXCEPT ![b] = 0]
  OBVIOUS
<1>3. g \in [Block -> 0..MaxWait]
  <2>1. 0 \in 0..MaxWait
    BY DownloadAssumption
  <2>2. f \in [Block -> 0..MaxWait]
    BY <1>1 DEF WireInv
  <2> QED
    BY <1>2, <2>1, <2>2
<1>4. mapAlreadyAskedFor' = [mapAlreadyAskedFor EXCEPT ![n] = g]
  BY <1>1, <1>2
<1> QED
  BY <1>3, <1>4 DEF WireInv

LEMMA BlockTyped ==
  ASSUME Typed, NEW n \in Node, NEW m \in Node, n # m, ReceiveBlock(n, m)
  PROVE  WireInv'
<1>0. SetsOK /\ WireInv
  BY DEF Typed
<1>1. PICK x, b : x = Head(channel[<<m, n>>]) /\ b = x.block
  OBVIOUS
<1>2. PICK nodes : nodes = [pnode EXCEPT ![<<n, m>>] = AddInventoryKnown(@, <<b>>)]
  OBVIOUS
<1>3. ProcessBlock(n, m, b, nodes) /\ UNCHANGED <<fAskedForBlocks, nDisconnects>>
  BY <1>1, <1>2 DEF ReceiveBlock
<1>4. pnode[<<n, m>>] \in CNode /\ channel[<<m, n>>] # <<>> /\ x \in Good /\ x.type = "block"
  BY <1>0, <1>1, TakenMessage DEF ReceiveBlock
<1>5. b \in Block
  BY <1>1, <1>4, GoodParts
<1>6. pnode \in Peers /\ channel \in Channels
  BY <1>0 DEF WireInv
<1>7. nodes \in Peers /\ nodes[<<n, m>>] \in CNode
  <2>1. PICK node : node = AddInventoryKnown(pnode[<<n, m>>], <<b>>)
    OBVIOUS
  <2>2. <<b>> \in Seq(Block)
    BY <1>5
  <2>3. node \in CNode
    BY <1>4, <2>1, <2>2, KnownTyped
  <2>4. <<n, m>> \in Link
    BY DEF Link
  <2>5. nodes = [pnode EXCEPT ![<<n, m>>] = node]
    BY <1>2, <2>1
  <2>6. nodes[<<n, m>>] = node
    BY <1>6, <2>4, <2>5 DEF Peers
  <2> QED
    BY <1>6, <2>3, <2>5, <2>6, PeerChanged
<1>8. <<>> \in Seq(Good)
  OBVIOUS
<1>9. CASE /\ pnode' = nodes /\ channel' = Answer(n, m, <<>>)
           /\ UNCHANGED <<nodeVars, mapAlreadyAskedFor>>
  <2>1. channel' \in Channels
    BY <1>4, <1>6, <1>8, <1>9, AnswerTyped
  <2> QED
    BY <1>0, <1>3, <1>7, <1>9, <2>1 DEF WireInv, nodeVars
<1>10. CASE /\ b \notin AlreadyHave(n)
            /\ mapOrphanBlocks' = [mapOrphanBlocks EXCEPT ![n] = @ \cup {b}]
            /\ LET requests == <<FillIn(n, b)>> IN
               /\ pnode' = [nodes EXCEPT ![<<n, m>>] = PushGetBlocks(@, requests)]
               /\ \E fresh \in Fresh(nodes[<<n, m>>], requests) :
                    channel' = Answer(n, m, GetBlocksMessages(fresh))
            /\ mapAlreadyAskedFor' = [mapAlreadyAskedFor EXCEPT ![n][b] = 0]
            /\ UNCHANGED <<mapBlockIndex, pindexBest>>
  <2>1. PICK requests : requests = <<FillIn(n, b)>>
    OBVIOUS
  <2>2. requests \in Seq(Request)
    <3>1. FillIn(n, b) \in Request
      BY <1>0, <1>5, FillInTyped
    <3> QED
      BY <2>1, <3>1
  <2>3. pnode' \in Peers
    <3>1. PICK node : node = PushGetBlocks(nodes[<<n, m>>], requests)
      OBVIOUS
    <3>2. node \in CNode
      BY <1>7, <2>2, <3>1, RequestedTyped
    <3>3. pnode' = [nodes EXCEPT ![<<n, m>>] = node]
      BY <1>10, <2>1, <3>1
    <3> QED
      BY <1>7, <3>2, <3>3, PeerChanged
  <2>4. channel' \in Channels
    <3>1. PICK fresh \in Fresh(nodes[<<n, m>>], requests) :
            channel' = Answer(n, m, GetBlocksMessages(fresh))
      BY <1>10, <2>1
    <3>2. GetBlocksMessages(fresh) \in Seq(Good)
      BY <2>2, FreshTyped
    <3> QED
      BY <1>4, <1>6, <3>1, <3>2, AnswerTyped
  <2>5. mapAlreadyAskedFor' \in [Node -> [Block -> 0..MaxWait]]
    BY <1>0, <1>5, <1>10, ForgetTime
  <2>6. \A k \in Node : mapOrphanBlocks'[k] \cap mapBlockIndex'[k] = {}
    BY <1>0, <1>10 DEF WireInv, SetsOK, AlreadyHave
  <2> QED
    BY <1>0, <1>3, <2>3, <2>4, <2>5, <2>6 DEF WireInv
<1>11. CASE /\ b \notin AlreadyHave(n) /\ AcceptBlock(n, b, nodes)
            /\ channel' = Answer(n, m, <<>>)
            /\ mapAlreadyAskedFor' = [mapAlreadyAskedFor EXCEPT ![n][b] = 0]
  <2>1. channel' \in Channels
    BY <1>4, <1>6, <1>8, <1>11, AnswerTyped
  <2>2. mapAlreadyAskedFor' \in [Node -> [Block -> 0..MaxWait]]
    BY <1>0, <1>5, <1>11, ForgetTime
  <2>3. pnode' \in Peers /\ \A k \in Node : mapOrphanBlocks'[k] \cap mapBlockIndex'[k] = {}
    BY <1>0, <1>5, <1>7, <1>11, AcceptTyped
  <2> QED
    BY <1>0, <1>3, <2>1, <2>2, <2>3 DEF WireInv
<1> QED
  BY <1>3, <1>9, <1>10, <1>11 DEF ProcessBlock

LEMMA SendMessagesTyped ==
  ASSUME Typed, NEW n \in Node, NEW m \in Node, n # m, SendMessages(n, m)
  PROVE  WireInv'
<1>0. SetsOK /\ WireInv
  BY DEF Typed
<1> DEFINE say(type, s) == IF s = <<>> THEN <<>> ELSE <<[type |-> type, inv |-> s]>>
<1>1. PICK node : node = pnode[<<n, m>>]
  OBVIOUS
<1>2. PICK get : get = Within(node.mapAskFor[0], Block \ AlreadyHave(n))
  OBVIOUS
<1>3. /\ m \in vNodes(n)
      /\ \E inv \in FirstOfEach(Unknown(node, node.vInventoryToSend)) :
             /\ pnode' = [pnode EXCEPT ![<<n, m>>] =
                  [AddInventoryKnown(node, inv) EXCEPT
                     !.vInventoryToSend = <<>>, !.mapAskFor[0] = <<>>]]
             /\ channel' = Send(n, m, say("inv", inv) \o say("getdata", get))
      /\ mapAlreadyAskedFor' =
             [mapAlreadyAskedFor EXCEPT ![n] =
                [b \in Block |-> IF b \in ToSet(get) THEN nRetry ELSE @[b]]]
      /\ UNCHANGED <<nodeVars, fAskedForBlocks, nDisconnects>>
  BY <1>1, <1>2 DEF SendMessages
<1>4. node \in CNode
  <2>1. <<n, m>> \in Link
    BY DEF Link
  <2> QED
    BY <1>0, <1>1, <1>3, <2>1 DEF WireInv, Peers, vNodes
<1>5. /\ node.vInventoryToSend \in Seq(Block) /\ node.mapAskFor \in [0..MaxWait -> Seq(Block)]
      /\ 0 \in 0..MaxWait /\ node.mapAskFor[0] \in Seq(Block)
  <2>1. 0 \in 0..MaxWait
    BY DownloadAssumption
  <2>2. node.vInventoryToSend \in Seq(Block) /\ node.mapAskFor \in [0..MaxWait -> Seq(Block)]
    BY <1>4 DEF CNode
  <2> QED
    BY <2>1, <2>2
<1>6. get \in Seq(Block)
  BY <1>2, <1>5, WithinIs
<1>7. PICK inv \in FirstOfEach(Unknown(node, node.vInventoryToSend)) :
             /\ pnode' = [pnode EXCEPT ![<<n, m>>] =
                  [AddInventoryKnown(node, inv) EXCEPT
                     !.vInventoryToSend = <<>>, !.mapAskFor[0] = <<>>]]
             /\ channel' = Send(n, m, say("inv", inv) \o say("getdata", get))
  BY <1>3
<1>8. inv \in Seq(Block)
  <2>1. PICK s : s = Unknown(node, node.vInventoryToSend)
    OBVIOUS
  <2>2. s \in Seq(Block)
    BY <1>5, <2>1, UnknownIs
  <2>3. PICK P : P = {i \in DOMAIN s : \A j \in 1..i - 1 : s[j] # s[i]}
    OBVIOUS
  <2>4. inv \in Picked(s, P) /\ P \subseteq DOMAIN s
    BY <1>7, <2>1, <2>3 DEF FirstOfEach
  <2> QED
    BY <2>2, <2>4, PickedIs
<1>9. pnode' \in Peers
  <2>1. PICK known : known = AddInventoryKnown(node, inv)
    OBVIOUS
  <2>2. known \in CNode
    BY <1>4, <1>8, <2>1, KnownTyped
  <2>3. PICK f : f = [known.mapAskFor EXCEPT ![0] = <<>>]
    OBVIOUS
  <2>4. <<>> \in Seq(Block) /\ f \in [0..MaxWait -> Seq(Block)]
    <3>1. PICK g : g = known.mapAskFor
      OBVIOUS
    <3>2. g \in [0..MaxWait -> Seq(Block)]
      BY <2>2, <3>1 DEF CNode
    <3>3. <<>> \in Seq(Block) /\ f = [g EXCEPT ![0] = <<>>]
      BY <2>3, <3>1
    <3> QED
      BY <3>2, <3>3
  <2>5. PICK after : after = [known EXCEPT !.vInventoryToSend = <<>>, !.mapAskFor = f]
    OBVIOUS
  <2>6. after \in CNode
    <3>1. PICK e : e = <<>>
      OBVIOUS
    <3>2. e \in Seq(Block) /\ after = [known EXCEPT !.vInventoryToSend = e, !.mapAskFor = f]
      BY <2>4, <2>5, <3>1
    <3> QED
      BY <2>2, <2>4, <3>2 DEF CNode
  <2>7. pnode' = [pnode EXCEPT ![<<n, m>>] = after]
    BY <1>7, <2>1, <2>2, <2>3, <2>5 DEF CNode
  <2>8. pnode \in Peers
    BY <1>0 DEF WireInv
  <2> QED
    BY <2>6, <2>7, <2>8, PeerChanged
<1>10. channel' \in Channels
  <2>1. PICK x, y : x = [type |-> "inv", inv |-> inv] /\ y = [type |-> "getdata", inv |-> get]
    OBVIOUS
  <2>2. x \in Good /\ y \in Good
    BY <1>6, <1>8, <2>1, GoodMessages
  <2>3. say("inv", inv) \in Seq(Good) /\ say("getdata", get) \in Seq(Good)
    BY <2>1, <2>2
  <2>4. PICK s : s = say("inv", inv) \o say("getdata", get)
    OBVIOUS
  <2>5. s \in Seq(Good)
    BY <2>3, <2>4
  <2>6. channel \in Channels
    BY <1>0 DEF WireInv
  <2> QED
    BY <1>7, <2>4, <2>5, <2>6, SendTyped
<1>11. mapAlreadyAskedFor' \in [Node -> [Block -> 0..MaxWait]]
  <2>1. PICK time : time = [b \in Block |-> nRetry]
    OBVIOUS
  <2>2. \A b \in Block : time[b] \in 0..MaxWait
    BY <2>1, DownloadAssumption DEF nRetry
  <2>3. mapAlreadyAskedFor' =
          [mapAlreadyAskedFor EXCEPT ![n] =
             [b \in Block |-> IF b \in ToSet(get) THEN time[b] ELSE @[b]]]
    BY <1>3, <2>1
  <2> QED
    BY <1>0, <2>2, <2>3, TimesTyped
<1> QED
  BY <1>0, <1>3, <1>9, <1>10, <1>11 DEF WireInv, nodeVars

LEMMA ConnectTyped ==
  ASSUME Typed, NEW n \in Node, NEW m \in Node, n # m, Connect(n, m)
  PROVE  WireInv'
<1>0. pnode \in Peers /\ channel \in Channels
  BY DEF Typed, WireInv
<1>1. pnode' = [pnode EXCEPT ![<<n, m>>] = NewNode(FALSE), ![<<m, n>>] = NewNode(TRUE)]
  BY DEF Connect
<1>2. NewNode(FALSE) \in CNode /\ NewNode(TRUE) \in CNode
  BY NewTyped
<1>3. pnode' \in Peers
  BY <1>0, <1>1, <1>2 DEF Peers
<1>4. channel' \in Channels
  <2>1. PICK x : x = [type |-> "version"]
    OBVIOUS
  <2>2. <<x>> \in Seq(Good)
    BY <2>1, GoodMessages
  <2>3. channel' = Send(n, m, <<x>>)
    BY <2>1 DEF Connect
  <2> QED
    BY <1>0, <2>2, <2>3, SendTyped
<1>5. UNCHANGED <<nodeVars, mapAlreadyAskedFor, fAskedForBlocks, nDisconnects>>
  BY DEF Connect
<1> QED
  BY <1>3, <1>4, <1>5 DEF Typed, WireInv, nodeVars

LEMMA DisconnectTyped ==
  ASSUME Typed, NEW n \in Node, NEW m \in Node, n # m, Disconnect(n, m)
  PROVE  WireInv'
<1>0. pnode \in Peers /\ channel \in Channels /\ nDisconnects \in 0..MaxDisconnects
  BY DEF Typed, WireInv
<1>1. pnode' \in Peers
  BY <1>0 DEF Disconnect, Peers
<1>2. channel' \in Channels
  <2>1. <<>> \in Seq(Good)
    OBVIOUS
  <2> QED
    BY <1>0, <2>1 DEF Disconnect, Channels
<1>3. nDisconnects' \in 0..MaxDisconnects
  BY <1>0, DownloadAssumption DEF Disconnect
<1>4. UNCHANGED <<nodeVars, mapAlreadyAskedFor, fAskedForBlocks>>
  BY DEF Disconnect
<1> QED
  BY <1>1, <1>2, <1>3, <1>4 DEF Typed, WireInv, nodeVars

LEMMA NewBlockTyped ==
  ASSUME Typed, NEW n \in Node, NewBlock(n)
  PROVE  WireInv'
<1>0. SetsOK /\ WireInv
  BY DEF Typed
<1>1. PICK b \in Block : b \notin AlreadyHave(n) /\ AcceptBlock(n, b, pnode)
  BY DEF NewBlock
<1>2. pnode \in Peers
  BY <1>0 DEF WireInv
<1>3. pnode' \in Peers /\ \A k \in Node : mapOrphanBlocks'[k] \cap mapBlockIndex'[k] = {}
  BY <1>0, <1>1, <1>2, AcceptTyped
<1>4. UNCHANGED <<mapAlreadyAskedFor, fAskedForBlocks, channel, nDisconnects>>
  BY DEF NewBlock
<1> QED
  BY <1>0, <1>3, <1>4 DEF WireInv

LEMMA TickTyped ==
  ASSUME Typed, Tick
  PROVE  WireInv'
<1>0. WireInv
  BY DEF Typed
<1>1. mapAlreadyAskedFor' \in [Node -> [Block -> 0..MaxWait]]
  <2>1. ASSUME NEW n \in Node, NEW b \in Block
        PROVE  Max({mapAlreadyAskedFor[n][b] - 1, 0}) \in 0..MaxWait
    <3>1. PICK t : t = mapAlreadyAskedFor[n][b]
      OBVIOUS
    <3>2. t \in 0..MaxWait /\ MaxWait \in Nat
      BY <1>0, <3>1, DownloadAssumption DEF WireInv
    <3>3. PICK S : S = {t - 1, 0}
      OBVIOUS
    <3>4. \E y \in S : \A z \in S : y >= z
      <4>1. CASE t = 0
        BY <3>2, <3>3, <4>1
      <4>2. CASE t > 0
        BY <3>2, <3>3, <4>2
      <4> QED
        BY <3>2, <4>1, <4>2
    <3>5. Max(S) \in S /\ \A z \in S : Max(S) >= z
      BY <3>4 DEF Max
    <3> QED
      BY <3>1, <3>2, <3>3, <3>5
  <2> QED
    BY <2>1 DEF Tick
<1>2. pnode' \in Peers
  <2>1. \A l \in Link : pnode[l] \in CNode \cup {Null}
    BY <1>0 DEF WireInv, Peers
  <2>2. \A l \in Link : TickNode(pnode[l]) \in CNode \cup {Null}
    BY <2>1, TickedTyped
  <2> QED
    BY <2>2 DEF Tick, Peers
<1>3. UNCHANGED <<nodeVars, fAskedForBlocks, channel, nDisconnects>>
  BY DEF Tick
<1> QED
  BY <1>0, <1>1, <1>2, <1>3 DEF WireInv, nodeVars

LEMMA WireInitOK == DownloadInit => WireInv
<1> SUFFICES ASSUME DownloadInit PROVE WireInv
  OBVIOUS
<1>1. /\ mapOrphanBlocks = [n \in Node |-> {}]
      /\ mapAlreadyAskedFor = [n \in Node |-> [b \in Block |-> 0]]
      /\ fAskedForBlocks = [n \in Node |-> FALSE]
      /\ pnode = [l \in Link |-> Null]
      /\ channel = [l \in Link |-> <<>>]
      /\ nDisconnects = 0
  BY DEF DownloadInit
<1>2. 0 \in 0..MaxWait /\ 0 \in 0..MaxDisconnects /\ <<>> \in Seq(Good)
  BY DownloadAssumption
<1> QED
  BY <1>1, <1>2 DEF WireInv, Peers, Channels

\* Each action and the stuttering step.
LEMMA WireStep ==
  ASSUME Typed, [DownloadNext]_downloadVars
  PROVE  WireInv'
<1>1. CASE UNCHANGED downloadVars
  BY <1>1 DEF Typed, WireInv, downloadVars, nodeVars
<1> QED
  BY <1>1, VersionTyped, InvTyped, GetBlocksTyped, GetDataTyped, BlockTyped, SendMessagesTyped,
     ConnectTyped, DisconnectTyped, NewBlockTyped, TickTyped
  DEF DownloadNext, Receive

\* The invariant of the refinement, for the types of the index and the best blocks.
LEMMA DownloadInvariant == DownloadSpec => []DownloadInv
<1>1. DownloadInv /\ [DownloadNext]_downloadVars => DownloadInv'
  BY VersionStep, InvStep, GetBlocksStep, GetDataStep, BlockStep, SendMessagesStep,
     ConnectionStep, NewBlockStep, TickStep
  DEF DownloadNext, Receive, Implements
<1> QED
  BY <1>1, DownloadInitOK, PTL DEF DownloadSpec

-----------------------------------------------------------------------------
(* The wire and what a node keeps of its peers stay well typed: every      *)
(* message on its way, whatever was lost, asked for twice or put off,      *)
(* names blocks only, a request lies on a list for a tick that exists, no  *)
(* time or counter leaves its bounds, and a block is an orphan or indexed. *)
THEOREM DownloadTyped == DownloadSpec => []DownloadTypeOK
<1>1. DownloadInv => SetsOK
  BY DEF DownloadInv
<1>2. WireInv /\ SetsOK /\ [DownloadNext]_downloadVars => WireInv'
  BY WireStep DEF Typed
<1>3. WireInv /\ DownloadInv => DownloadTypeOK
  <2> SUFFICES ASSUME WireInv, DownloadInv PROVE DownloadTypeOK
    OBVIOUS
  <2>1. channel \in [Link -> Seq(Message)]
    <3>1. Good \subseteq Message
      BY DEF Good
    <3>2. Seq(Good) \subseteq Seq(Message)
      BY <3>1
    <3> QED
      BY <3>2 DEF WireInv, Channels
  <2>2. \A n \in Node : mapOrphanBlocks[n] \subseteq Block \ mapBlockIndex[n]
    BY DEF WireInv, DownloadInv, SetsOK
  <2> QED
    BY <2>1, <2>2 DEF WireInv, Peers, DownloadInv, SetsOK, BestIsLongest, DownloadTypeOK
<1> QED
  BY <1>1, <1>2, <1>3, WireInitOK, DownloadInvariant, PTL DEF DownloadSpec

=============================================================================
