---------------------------- MODULE RaftChainProofs ----------------------------
(***************************************************************************)
(* Proofs about RaftChain for every set of orderers, every limit on blocks *)
(* in flight and all bounds: the ledgers of the orderers agree, committed  *)
(* blocks are written, config blocks are barriers, and the batch timer     *)
(* runs exactly while messages are pending.                                *)
(***************************************************************************)
EXTENDS RaftChain, FiniteSetTheorems, WellFoundedInduction, TLAPS

-----------------------------------------------------------------------------
(* The inductive invariant: Raft.                                          *)

Block == Seq([term : Nat, config : BOOLEAN])
Entry == [term : Nat, block : Block]

RaftTyped ==
  /\ term \in [Node -> 0..MaxTerm]
  /\ leads \in SUBSET Node
  /\ log \in [Node -> Seq(Entry)]
  /\ commit \in [Node -> Nat]
  /\ match \in [Node -> [Node -> Nat]]

\* Two logs are the same up to index i.
Same(x, y, i) == i =< Len(x) /\ i =< Len(y) /\ \A k \in 1..i : x[k] = y[k]

\* The terms in a log do not decrease, and none is beyond the term of the node.
TermsOrdered ==
  \A n \in Node :
    /\ \A i \in 1..Len(log[n]) : 1 =< log[n][i].term /\ log[n][i].term =< term[n]
    /\ \A i, j \in 1..Len(log[n]) : i =< j => log[n][i].term =< log[n][j].term

\* The log of a leader ends with an entry of its term.
LeaderLast == \A l \in leads : Len(log[l]) >= 1 /\ log[l][Len(log[l])].term = term[l]

OneLeader == \A l, m \in leads : term[l] = term[m] => l = m

\* All entries of its term come from the leader,
LeaderHasAll ==
  \A l \in leads, m \in Node : \A i \in 1..Len(log[m]) :
    log[m][i].term = term[l] => Same(log[m], log[l], i)

\* and a log that reaches an entry of some term has all that any log has before it.
LogMatching ==
  \A a, b \in Node : \A i \in 1..Len(log[a]), j \in 1..Len(log[b]) :
    i =< j /\ log[a][i].term = log[b][j].term => Same(log[a], log[b], i)

\* A quorum takes part in every election.
Voted == \A n \in Node : term[n] > 0 => \E Q \in Quorum : \A m \in Q : term[m] >= term[n]

\* The log has been taken over from a later leader.
Newer(m, t) == LastTerm(log[m]) > t

\* What a leader knows to be acknowledged is there, unless a later leader removed it.
Acknowledged ==
  \A l \in leads, m \in Node :
    /\ match[l][m] =< Len(log[l])
    /\ \A i \in 1..match[l][m] :
         log[l][i].term = term[l] => Same(log[l], log[m], i) \/ Newer(m, term[l])

\* A quorum has gone on to later terms without entry i of leader l.
Closed(l, i) == \E Q \in Quorum : \A m \in Q : term[m] > term[l] /\ match[l][m] < i

\* Later leaders have an entry of this leader, or it can no longer be committed.
Electable ==
  \A l \in leads : \A i \in 1..Len(log[l]) :
    log[l][i].term = term[l] =>
      \A w \in Node : Newer(w, term[l]) => Same(log[l], log[w], i) \/ Closed(l, i)

\* A committed entry is on a quorum and in every log with a later term.
CommitSafe(n, c) ==
  /\ \E Q \in Quorum : \A m \in Q : Same(log[n], log[m], c)
  /\ \A m \in Node : Newer(m, log[n][c].term) => Same(log[n], log[m], c)

CommitsSafe ==
  \A n \in Node : commit[n] =< Len(log[n]) /\ (commit[n] > 0 => CommitSafe(n, commit[n]))

\* No step takes back what is committed.
Kept == \A n \in Node : commit[n] =< commit'[n] /\ Same(log[n], log'[n], commit[n])

RaftInv ==
  /\ RaftTyped
  /\ TermsOrdered
  /\ LeaderLast
  /\ OneLeader
  /\ LeaderHasAll
  /\ LogMatching
  /\ Voted
  /\ Acknowledged
  /\ Electable
  /\ CommitsSafe

-----------------------------------------------------------------------------
(* The inductive invariant: the chains.                                    *)

Written == [block : Block, index : Nat]

Chain ==
  [leading : BOOLEAN, justElected : BOOLEAN, configInflight : BOOLEAN, blockInflight : Int,
   accepting : BOOLEAN, bc : Seq(Block), epoch : Nat, propC : Seq(Block),
   proposing : BOOLEAN, cancelled : SUBSET (Seq(Block) \ {<< >>}),
   cutter : [batch : Seq(Message), bytes : Int], ticking : BOOLEAN,
   blocks : Seq(Written), applied : Nat, next : Nat, panicked : BOOLEAN]

\* The blocks of a log have increasing numbers, each but the first after its predecessor.
Chained(lg) ==
  /\ \A j, k \in 1..Len(lg) :
       j < k /\ lg[j].block # NoBlock /\ lg[k].block # NoBlock =>
         Len(lg[j].block) < Len(lg[k].block)
  /\ \A k \in 1..Len(lg) :
       Len(lg[k].block) > 1 => \E j \in 1..(k - 1) : lg[j].block = Prefix(lg[k].block)

\* The ledger of chain s holds exactly the blocks of the log lg up to the applied index,
\* which is at most c.
Ledger(s, lg, c) ==
  /\ s.applied =< c /\ 1 =< s.next /\ s.next =< s.applied + 1
  /\ \A j \in 1..Len(s.blocks) :
       /\ s.blocks[j].index \in 1..s.applied
       /\ lg[s.blocks[j].index].block = s.blocks[j].block
       /\ Len(s.blocks[j].block) = j
  /\ \A k \in 1..s.applied :
       lg[k].block # NoBlock =>
         /\ Len(lg[k].block) =< Len(s.blocks)
         /\ s.blocks[Len(lg[k].block)].index = k

\* What a chain may be doing, by its role.
Idle(s) ==
  /\ s.propC = << >> /\ ~s.ticking
  /\ s.bc # << >> => Len(s.bc[1]) =< Len(s.blocks)

RoleOK(s) ==
  /\ ~s.leading => Idle(s)
  /\ s.leading /\ s.justElected => Idle(s) /\ ~s.accepting
  /\ s.leading /\ ~s.justElected =>
       /\ Len(s.bc) = 1
       /\ s.configInflight => ~s.accepting /\ ~s.ticking
  /\ s.ticking <=> s.cutter.batch # << >>

\* The only config block that is created and not written is the last block created.
BarrierOK(s) ==
  s.leading /\ ~s.justElected =>
    \A i \in 1..Len(s.bc[1]) :
      s.bc[1][i].config /\ i > Len(s.blocks) => i = Len(s.bc[1]) /\ s.configInflight

FirstBlocks(b, i) == SubSeq(b, 1, i)

\* Block b is the last one in the log lg.
Tip(lg, b) ==
  /\ b = NoBlock \/ \E k \in 1..Len(lg) : lg[k].block = b
  /\ \A k \in 1..Len(lg) : Len(lg[k].block) =< Len(b)

\* The blocks created up to b are in the ledger, in the log behind it, or in propC on the
\* way to the proposing goroutine.
Pipeline(s, lg, b) ==
  LET sent == Len(b) - Len(s.propC) IN
  /\ 0 =< sent
  /\ \A i \in 1..Len(s.propC) : s.propC[i] = FirstBlocks(b, sent + i)
  /\ \A k \in 1..Len(lg) :
       k > s.applied /\ lg[k].block # NoBlock =>
         /\ Len(lg[k].block) =< Len(b)
         /\ lg[k].block = FirstBlocks(b, Len(lg[k].block))
  /\ s.proposing => Tip(lg, FirstBlocks(b, sent))

\* All this of a chain whose Raft node has log lg, has committed c of it, and leads or not.
ChainOK(s, lg, c, lead) ==
  /\ Ledger(s, lg, c)
  /\ RoleOK(s)
  /\ BarrierOK(s)
  /\ lead /\ s.leading /\ ~s.justElected => Pipeline(s, lg, s.bc[1])

\* While no block is proposed late:
ChainInv ==
  /\ chain \in [Node -> Chain]
  /\ \A n \in Node : Chained(log[n])
  /\ \A n \in Node : ChainOK(chain[n], log[n], commit[n], n \in leads)

\* Whatever is proposed: block j of the ledger is the first one in the log with number j or
\* more, and a chain that runs has passed no block with a number beyond its ledger.
First(s, lg, c) ==
  /\ s.applied =< c /\ 1 =< s.next /\ s.next =< s.applied + 1
  /\ \A j \in 1..Len(s.blocks) :
       /\ s.blocks[j].index \in 1..s.applied
       /\ lg[s.blocks[j].index].block = s.blocks[j].block
       /\ Len(s.blocks[j].block) = j
       /\ \A k \in 1..(s.blocks[j].index - 1) : Len(lg[k].block) < j
  /\ ~s.panicked => \A k \in 1..s.applied : Len(lg[k].block) =< Len(s.blocks)

TimerOK(s) == (s.ticking <=> s.cutter.batch # << >>) /\ (s.ticking => s.leading)

AnyOK(s, lg, c) == First(s, lg, c) /\ TimerOK(s)

AnyInv ==
  /\ chain \in [Node -> Chain]
  /\ \A n \in Node : AnyOK(chain[n], log[n], commit[n])

IInv == RaftInv /\ AnyInv /\ (late \/ ChainInv)

-----------------------------------------------------------------------------
(* Quorums and logs.                                                       *)

\* Two quorums have a node in common.
LEMMA QuorumsMeet ==
  ASSUME NEW P \in Quorum, NEW Q \in Quorum
  PROVE  \E m \in Node : m \in P /\ m \in Q
<1> USE RaftChainAssumption
<1>1. P \in SUBSET Node /\ Q \in SUBSET Node
      /\ 2 * Cardinality(P) > Cardinality(Node) /\ 2 * Cardinality(Q) > Cardinality(Node)
  BY DEF Quorum
<1>2. IsFiniteSet(P) /\ IsFiniteSet(Q) /\ IsFiniteSet(P \cup Q)
  BY <1>1, FS_Subset, FS_Union
<1>3. /\ Cardinality(P) \in Nat /\ Cardinality(Q) \in Nat /\ Cardinality(Node) \in Nat
      /\ Cardinality(P \cap Q) \in Nat
  <2>1. IsFiniteSet(P \cap Q)
    BY <1>2, FS_Subset
  <2> QED
    BY <1>2, <2>1, FS_CardinalityType
<1>4. Cardinality(P \cup Q) =< Cardinality(Node)
  BY <1>1, FS_Subset
<1>5. Cardinality(P \cup Q) = Cardinality(P) + Cardinality(Q) - Cardinality(P \cap Q)
  BY <1>2, FS_Union
<1>6. Cardinality(P \cap Q) # 0
  BY <1>1, <1>3, <1>4, <1>5
<1>7. P \cap Q # {}
  BY <1>6, FS_EmptySet, Zenon
<1> QED
  BY <1>1, <1>7

\* A nonempty set of naturals with an upper bound has a greatest element.
LEMMA GreatestExists ==
  ASSUME NEW N \in Nat, NEW S \in SUBSET (0..N), S # {}
  PROVE  \E m \in S : \A n \in S : m >= n
<1> DEFINE T == {N - x : x \in S}
           R == {ss \in Nat \X Nat : ss[1] < ss[2]}
<1>1. T \in SUBSET Nat /\ T # {}
  <2>1. \A x \in S : N - x \in Nat
    OBVIOUS
  <2>2. PICK x \in S : TRUE
    OBVIOUS
  <2>3. N - x \in T
    BY <2>2
  <2> QED
    BY <2>1, <2>3
<1>2. IsWellFoundedOn(R, Nat)
  BY NatLessThanWellFounded DEF OpToRel
<1> HIDE DEF R
<1>3. PICK t \in T : \A u \in T : ~ (<<u, t>> \in R)
  <2> HIDE DEF T
  <2> QED
    BY <1>1, <1>2, WFMin, Zenon
<1>4. PICK m \in S : t = N - m
  BY <1>3
<1>5. \A n \in S : m >= n
  <2> SUFFICES ASSUME NEW n \in S, m < n PROVE FALSE
    OBVIOUS
  <2>1. N - n \in T /\ N - n \in Nat /\ t \in Nat /\ N - n < t
    BY <1>4
  <2> QED
    BY <1>3, <2>1 DEF R
<1> QED
  BY <1>5

\* Logs that agree with the same log, or longer than needed.
LEMMA SameFacts ==
  ASSUME NEW x \in Seq(Entry), NEW y \in Seq(Entry), NEW i \in Nat, Same(x, y, i)
  PROVE  /\ Same(y, x, i)
         /\ \A j \in Nat : j =< i => Same(x, y, j)
         /\ \A z \in Seq(Entry) : Same(y, z, i) => Same(x, z, i)
         /\ \A e \in Entry : Same(x, Append(y, e), i) /\ Same(Append(x, e), y, i)
<1>1. Len(x) \in Nat /\ Len(y) \in Nat /\ i =< Len(x) /\ i =< Len(y)
  BY DEF Same
<1>2. Same(y, x, i) /\ (\A z \in Seq(Entry) : Same(y, z, i) => Same(x, z, i))
  BY DEF Same
<1>3. ASSUME NEW j \in Nat, j =< i PROVE Same(x, y, j)
  BY <1>1, <1>3 DEF Same
<1>4. ASSUME NEW e \in Entry PROVE Same(x, Append(y, e), i) /\ Same(Append(x, e), y, i)
  <2>1. /\ Len(Append(y, e)) = Len(y) + 1 /\ Len(Append(x, e)) = Len(x) + 1
        /\ \A k \in 1..Len(y) : Append(y, e)[k] = y[k]
        /\ \A k \in 1..Len(x) : Append(x, e)[k] = x[k]
    OBVIOUS
  <2> QED
    BY <1>1, <2>1 DEF Same
<1> QED
  BY <1>2, <1>3, <1>4

\* A log agrees with itself.
LEMMA SameRefl ==
  ASSUME NEW x \in Seq(Entry), NEW i \in Nat, i =< Len(x)
  PROVE  Same(x, x, i)
BY DEF Same

\* The last term of a log.
LEMMA LastTermFacts ==
  ASSUME RaftTyped, TermsOrdered, NEW n \in Node
  PROVE  /\ LastTerm(log[n]) \in Nat /\ LastTerm(log[n]) =< term[n]
         /\ \A i \in 1..Len(log[n]) : log[n][i].term =< LastTerm(log[n])
         /\ Len(log[n]) >= 1 => LastTerm(log[n]) = log[n][Len(log[n])].term
<1>1. log[n] \in Seq(Entry) /\ term[n] \in Nat /\ Len(log[n]) \in Nat
  BY DEF RaftTyped
<1>2. CASE log[n] = << >>
  BY <1>1, <1>2 DEF LastTerm
<1>3. CASE log[n] # << >>
  <2>1. Len(log[n]) \in 1..Len(log[n])
    BY <1>1, <1>3
  <2>2. LastTerm(log[n]) = log[n][Len(log[n])].term
    BY <1>3 DEF LastTerm
  <2>3. log[n][Len(log[n])] \in Entry
    BY <1>1, <2>1
  <2>4. LastTerm(log[n]) \in Nat
    BY <2>2, <2>3 DEF Entry
  <2> QED
    BY <2>1, <2>2, <2>4 DEF TermsOrdered
<1> QED
  BY <1>2, <1>3

\* A leader has everything that is committed up to its term.
LEMMA LeaderHasCommitted ==
  ASSUME RaftInv, NEW l \in leads, NEW n \in Node, commit[n] > 0,
         term[l] >= log[n][commit[n]].term
  PROVE  Same(log[n], log[l], commit[n])
<1> USE DEF RaftInv
<1>1. /\ commit[n] \in 1..Len(log[n]) /\ l \in Node /\ log[n] \in Seq(Entry) /\ log[l] \in Seq(Entry)
      /\ term[l] \in Nat
  BY DEF RaftTyped, CommitsSafe
<1>2. log[n][commit[n]].term \in Nat
  <2>1. log[n][commit[n]] \in Entry
    BY <1>1
  <2> QED
    BY <2>1 DEF Entry
<1>3. CASE term[l] = log[n][commit[n]].term
  BY <1>1, <1>3 DEF LeaderHasAll
<1>4. CASE term[l] > log[n][commit[n]].term
  <2>1. LastTerm(log[l]) = term[l]
    BY <1>1, LastTermFacts DEF LeaderLast
  <2> QED
    BY <1>1, <1>4, <2>1 DEF CommitsSafe, CommitSafe, Newer
<1> QED
  BY <1>1, <1>2, <1>3, <1>4

\* Steps after which there are fewer leaders, if anything changed in Raft.
LEMMA RaftShrinks ==
  ASSUME RaftInv, leads' \in SUBSET leads, UNCHANGED <<term, log, commit>>,
         match' \in [Node -> [Node -> Nat]], \A l \in leads' : match'[l] = match[l]
  PROVE  RaftInv'
<1> USE DEF RaftInv
<1>1. RaftTyped'
  BY DEF RaftTyped
<1>2. TermsOrdered' /\ LeaderLast' /\ OneLeader' /\ Voted'
  BY DEF TermsOrdered, LeaderLast, OneLeader, Voted
<1>3. LeaderHasAll' /\ LogMatching' /\ CommitsSafe'
  BY DEF LeaderHasAll, LogMatching, CommitsSafe, CommitSafe, Newer
<1>4. Acknowledged'
  BY DEF Acknowledged, Newer
<1>5. Electable'
  BY DEF Electable, Newer, Closed
<1> QED
  BY <1>1, <1>2, <1>3, <1>4, <1>5

\* The types of a log.
LEMMA LogFacts ==
  ASSUME RaftTyped, NEW m \in Node
  PROVE  /\ term[m] \in Nat /\ log[m] \in Seq(Entry) /\ Len(log[m]) \in Nat
         /\ \A i \in 1..Len(log[m]) :
              log[m][i] \in Entry /\ log[m][i].term \in Nat /\ log[m][i].block \in Block
<1>1. term[m] \in 0..MaxTerm /\ log[m] \in Seq(Entry)
  BY DEF RaftTyped
<1>2. \A i \in 1..Len(log[m]) : log[m][i] \in Entry
  BY <1>1
<1>3. term[m] \in Nat
  BY <1>1, RaftChainAssumption
<1> QED
  BY <1>1, <1>2, <1>3 DEF Entry

\* An election: the term of the new leader is beyond every term there is, and its log has
\* all that was committed.
LEMMA ElectRaft ==
  ASSUME RaftInv, NEW n \in Node, NEW Q \in Quorum, Elect(n, Q)
  PROVE  RaftInv' /\ \E e \in Entry : e.block = NoBlock /\ log' = [log EXCEPT ![n] = Append(log[n], e)]
<1> USE RaftChainAssumption DEF RaftInv
<1> DEFINE top == CHOOSE m \in Q : \A o \in Q : term[m] >= term[o]
<1>1. /\ Q \in SUBSET Node /\ n \in Q /\ n \notin leads /\ leads \in SUBSET Node
      /\ \A m \in Node : term[m] \in Nat /\ log[m] \in Seq(Entry) /\ Len(log[m]) \in Nat
  <2>1. Q \in SUBSET Node /\ n \in Q /\ n \notin leads /\ leads \in SUBSET Node
    BY DEF Elect, Quorum, RaftTyped
  <2> QED
    BY <2>1, LogFacts
<1>2. top \in Q /\ \A o \in Q : term[top] >= term[o]
  <2> DEFINE S == {term[m] : m \in Q}
  <2>1. S \in SUBSET (0..MaxTerm) /\ S # {}
    BY <1>1 DEF RaftTyped
  <2>2. PICK t \in S : \A u \in S : t >= u
    <3> HIDE DEF S
    <3> QED
      BY <2>1, GreatestExists
  <2>3. \E m \in Q : \A o \in Q : term[m] >= term[o]
    BY <2>2
  <2> QED
    BY <2>3
<1> HIDE DEF top
<1>3. PICK T \in Nat : T = 1 + term[top]
  BY <1>1, <1>2
<1> DEFINE e == [term |-> T, block |-> NoBlock]
<1>4. /\ T =< MaxTerm
      /\ term' = [m \in Node |-> IF m \in Q THEN T ELSE term[m]]
      /\ leads' = (leads \ Q) \cup {n}
      /\ log' = [log EXCEPT ![n] = Append(log[n], e)]
      /\ match' = [m \in Node |-> IF m \in Q THEN NoMatch ELSE match[m]]
      /\ commit' = commit
      /\ \A m \in Q : UpToDate(log[n], log[m])
  BY <1>3 DEF Elect, top
<1>5. e \in Entry /\ e.term = T /\ e.block = NoBlock
  BY DEF Entry, Block, NoBlock
<1> HIDE DEF e
\* No node has reached the new term.
<1>6. \A m \in Node : term[m] < T
  <2> SUFFICES ASSUME NEW m \in Node, term[m] >= T PROVE FALSE
    BY <1>1
  <2>1. term[m] > 0
    BY <1>1, <1>2, <1>3
  <2>2. PICK P \in Quorum : \A o \in P : term[o] >= term[m]
    BY <2>1 DEF Voted
  <2>3. PICK o \in Node : o \in P /\ o \in Q
    BY <2>2, QuorumsMeet
  <2> QED
    BY <1>1, <1>2, <1>3, <2>2, <2>3
<1>7. /\ \A m \in Node : m # n => log'[m] = log[m]
      /\ log'[n] = Append(log[n], e) /\ log'[n] \in Seq(Entry)
      /\ Len(log'[n]) = Len(log[n]) + 1 /\ log'[n][Len(log[n]) + 1] = e
      /\ \A k \in 1..Len(log[n]) : log'[n][k] = log[n][k]
      /\ Len(log[n]) \in Nat /\ Len(log'[n]) \in Nat /\ Len(log'[n]) >= Len(log[n])
  <2>1. log'[n] = Append(log[n], e) /\ \A m \in Node : m # n => log'[m] = log[m]
    BY <1>4 DEF RaftTyped
  <2>2. log[n] \in Seq(Entry) /\ Len(log[n]) \in Nat
    BY <1>1
  <2>3. /\ log'[n] \in Seq(Entry) /\ Len(log'[n]) = Len(log[n]) + 1
        /\ log'[n][Len(log[n]) + 1] = e
        /\ \A k \in 1..Len(log[n]) : log'[n][k] = log[n][k]
    BY <1>5, <2>1, <2>2
  <2>4. Len(log'[n]) \in Nat /\ Len(log'[n]) >= Len(log[n])
    BY <2>2, <2>3
  <2> QED
    BY <2>1, <2>2, <2>3, <2>4
<1>8. \A m \in Node : /\ term'[m] \in Nat /\ term'[m] >= term[m] /\ (m \in Q => term'[m] = T)
                      /\ (m \notin Q => term'[m] = term[m])
  BY <1>1, <1>4, <1>6
<1>9. \A a, b \in Node, i \in Nat : Same(log[a], log[b], i) => Same(log'[a], log'[b], i)
  <2> SUFFICES ASSUME NEW a \in Node, NEW b \in Node, NEW i \in Nat, Same(log[a], log[b], i)
               PROVE  Same(log'[a], log'[b], i)
    OBVIOUS
  <2>1. \A m \in Node : Len(log'[m]) >= Len(log[m]) /\ Len(log'[m]) \in Nat
                        /\ \A k \in 1..Len(log[m]) : log'[m][k] = log[m][k]
    <3> SUFFICES ASSUME NEW m \in Node
                 PROVE  Len(log'[m]) >= Len(log[m]) /\ Len(log'[m]) \in Nat
                        /\ \A k \in 1..Len(log[m]) : log'[m][k] = log[m][k]
      OBVIOUS
    <3>1. CASE m = n
      BY <1>7, <3>1, Zenon
    <3>2. CASE m # n
      BY <1>1, <1>7, <3>2
    <3> QED
      BY <3>1, <3>2
  <2> QED
    BY <1>1, <2>1, SMTT(30) DEF Same
<1>10. RaftTyped'
  <2>1. log' \in [Node -> Seq(Entry)]
    BY <1>1, <1>4, <1>5 DEF RaftTyped
  <2>2. match' \in [Node -> [Node -> Nat]]
    BY <1>4 DEF RaftTyped, NoMatch
  <2>3. term' \in [Node -> 0..MaxTerm]
    BY <1>3, <1>4 DEF RaftTyped
  <2> QED
    BY <1>1, <1>4, <2>1, <2>2, <2>3 DEF RaftTyped
<1>11. TermsOrdered'
  <2> SUFFICES ASSUME NEW m \in Node
               PROVE  /\ \A i \in 1..Len(log'[m]) : 1 =< log'[m][i].term /\ log'[m][i].term =< term'[m]
                      /\ \A i, j \in 1..Len(log'[m]) : i =< j => log'[m][i].term =< log'[m][j].term
    BY DEF TermsOrdered
  <2>1. \A i \in 1..Len(log[m]) : log[m][i].term \in Nat /\ term[m] \in Nat
    BY LogFacts
  <2>2. /\ \A i \in 1..Len(log[m]) : 1 =< log[m][i].term /\ log[m][i].term =< term[m]
        /\ \A i, j \in 1..Len(log[m]) : i =< j => log[m][i].term =< log[m][j].term
    BY DEF TermsOrdered
  <2>3. \A i \in 1..Len(log[m]) : log[m][i].term =< term'[m] /\ log[m][i].term =< T
    <3>1. term[m] =< term'[m] /\ term[m] < T /\ term'[m] \in Nat
      BY <1>6, <1>8
    <3> QED
      BY <2>1, <2>2, <3>1
  <2>4. CASE m # n
    <3>1. log'[m] = log[m]
      BY <1>7, <2>4
    <3> QED
      BY <2>2, <2>3, <3>1
  <2>5. CASE m = n
    <3>1. \A i \in 1..Len(log'[n]) : i \in 1..Len(log[n]) \/ i = Len(log[n]) + 1
      BY <1>1, <1>7
    <3>2. T >= 1 /\ term'[n] = T
      BY <1>1, <1>2, <1>3, <1>8
    <3>3. \A i \in 1..Len(log'[n]) : 1 =< log'[n][i].term /\ log'[n][i].term =< T
      BY <1>5, <1>7, <2>2, <2>3, <2>5, <3>1, <3>2
    <3>4. ASSUME NEW i \in 1..Len(log'[n]), NEW j \in 1..Len(log'[n]), i =< j
          PROVE  log'[n][i].term =< log'[n][j].term
      <4>1. CASE j \in 1..Len(log[n])
        <5>1. i \in 1..Len(log[n])
          BY <1>1, <3>4, <4>1
        <5> QED
          BY <1>7, <2>2, <2>5, <3>4, <4>1, <5>1
      <4>2. CASE j = Len(log[n]) + 1
        BY <1>5, <1>7, <3>3, <4>2
      <4> QED
        BY <3>1, <4>1, <4>2
    <3> QED
      BY <2>5, <3>2, <3>3, <3>4
  <2> QED
    BY <2>4, <2>5
<1>12. LeaderLast' /\ OneLeader'
  <2>1. \A l \in leads' : l = n \/ (l \in leads /\ l \notin Q /\ l # n /\ l \in Node)
    BY <1>1, <1>4
  <2>2. LeaderLast'
    BY <1>1, <1>5, <1>7, <1>8, <2>1 DEF LeaderLast
  <2>3. OneLeader'
    BY <1>1, <1>6, <1>8, <2>1 DEF OneLeader
  <2> QED
    BY <2>2, <2>3
<1>13. LeaderHasAll'
  <2> SUFFICES ASSUME NEW l \in leads', NEW m \in Node, NEW i \in 1..Len(log'[m]),
                      log'[m][i].term = term'[l]
               PROVE  Same(log'[m], log'[l], i)
    BY DEF LeaderHasAll
  <2>1. l = n \/ (l \in leads /\ l \notin Q /\ l # n /\ l \in Node)
    BY <1>1, <1>4
  <2>2. CASE m = l
    BY <1>1, <1>10, <2>1, <2>2, SameRefl DEF RaftTyped
  <2>3. CASE l = n /\ m # n
    <3>1. log[m][i].term =< term[m] /\ term[m] < T /\ log[m][i].term \in Nat /\ term[m] \in Nat
          /\ log[m][i].term = T
      <4>1. log'[m] = log[m] /\ term'[l] = T
        BY <1>1, <1>7, <1>8, <2>3
      <4>2. i \in 1..Len(log[m]) /\ log[m][i].term = T
        BY <4>1
      <4> QED
        BY <1>6, <4>2, LogFacts DEF TermsOrdered
    <3> QED
      BY <3>1
  <2>4. CASE l # n /\ m # l
    <3>1. term'[l] = term[l] /\ term[l] < T /\ term[l] \in Nat
      BY <1>1, <1>6, <1>8, <2>1, <2>4
    <3>2. i \in 1..Len(log[m]) /\ log[m][i].term = term[l]
      <4>1. CASE m # n
        BY <1>7, <3>1, <4>1
      <4>2. CASE m = n
        <5>1. i \in 1..Len(log[n]) \/ i = Len(log[n]) + 1
          BY <1>1, <1>7, <4>2
        <5>2. i # Len(log[n]) + 1
          <6> SUFFICES ASSUME i = Len(log[n]) + 1 PROVE FALSE
            OBVIOUS
          <6>1. log'[m][i].term = T
            BY <1>5, <1>7, <4>2
          <6> QED
            BY <3>1, <6>1
        <5> QED
          BY <1>7, <3>1, <4>2, <5>1, <5>2
      <4> QED
        BY <4>1, <4>2
    <3>3. Same(log[m], log[l], i) /\ i \in Nat
      BY <2>1, <2>4, <3>2 DEF LeaderHasAll
    <3> QED
      BY <1>9, <2>1, <2>4, <3>3
  <2> QED
    BY <2>2, <2>3, <2>4
<1>14. LogMatching'
  <2> SUFFICES ASSUME NEW a \in Node, NEW b \in Node,
                      NEW i \in 1..Len(log'[a]), NEW j \in 1..Len(log'[b]),
                      i =< j, log'[a][i].term = log'[b][j].term
               PROVE  Same(log'[a], log'[b], i)
    BY DEF LogMatching
  <2>1. \A m \in Node, k \in Nat :
          k \in 1..Len(log'[m]) =>
            \/ k \in 1..Len(log[m]) /\ log'[m][k] = log[m][k] /\ log[m][k].term < T
            \/ m = n /\ k = Len(log[n]) + 1 /\ log'[m][k].term = T
    <3> SUFFICES ASSUME NEW m \in Node, NEW k \in 1..Len(log'[m])
                 PROVE  \/ k \in 1..Len(log[m]) /\ log'[m][k] = log[m][k] /\ log[m][k].term < T
                        \/ m = n /\ k = Len(log[n]) + 1 /\ log'[m][k].term = T
      OBVIOUS
    <3>1. k \in 1..Len(log[m]) => log[m][k].term < T
      <4> SUFFICES ASSUME k \in 1..Len(log[m]) PROVE log[m][k].term < T
        OBVIOUS
      <4>1. log[m][k].term =< term[m] /\ term[m] < T /\ log[m][k].term \in Nat /\ term[m] \in Nat
        BY <1>6, LogFacts DEF TermsOrdered
      <4> QED
        BY <4>1
    <3>2. CASE m # n
      BY <1>7, <3>1, <3>2
    <3>3. CASE m = n
      <4>1. k \in 1..Len(log[n]) \/ k = Len(log[n]) + 1
        BY <1>1, <1>7, <3>3
      <4> QED
        BY <1>5, <1>7, <3>1, <3>3, <4>1
    <3> QED
      BY <3>2, <3>3
  <2>2. CASE a = b
    BY <1>10, <2>2, SameRefl DEF RaftTyped
  <2>3. CASE a # b
    <3>1. i \in Nat /\ j \in Nat /\ Len(log[n]) \in Nat
      BY <1>1
    <3>2. i \in 1..Len(log[a]) /\ j \in 1..Len(log[b]) /\ log[a][i].term = log[b][j].term
      <4>1. \/ i \in 1..Len(log[a]) /\ log'[a][i] = log[a][i] /\ log[a][i].term < T
            \/ a = n /\ i = Len(log[n]) + 1 /\ log'[a][i].term = T
        BY <2>1, <3>1
      <4>2. \/ j \in 1..Len(log[b]) /\ log'[b][j] = log[b][j] /\ log[b][j].term < T
            \/ b = n /\ j = Len(log[n]) + 1 /\ log'[b][j].term = T
        BY <2>1, <3>1
      <4>3. ~ (T < T)
        BY <1>3
      <4> QED
        BY <2>3, <4>1, <4>2, <4>3
    <3>3. Same(log[a], log[b], i)
      BY <3>2 DEF LogMatching
    <3> QED
      BY <1>9, <3>1, <3>3
  <2> QED
    BY <2>2, <2>3
<1>15. Voted'
  <2> SUFFICES ASSUME NEW m \in Node, term'[m] > 0
               PROVE  \E P \in Quorum : \A o \in P : term'[o] >= term'[m]
    BY DEF Voted
  <2>1. CASE m \in Q
    <3>1. \A o \in Q : term'[o] = T /\ term'[m] = T
      BY <1>1, <1>8, <2>1
    <3> QED
      BY <3>1
  <2>2. CASE m \notin Q
    <3>1. PICK P \in Quorum : \A o \in P : term[o] >= term[m]
      BY <1>8, <2>2 DEF Voted
    <3>2. \A o \in P : o \in Node
      BY DEF Quorum
    <3>3. \A o \in P : term'[o] >= term'[m]
      BY <1>1, <1>8, <2>2, <3>1, <3>2
    <3> QED
      BY <3>3
  <2> QED
    BY <2>1, <2>2
<1>16. /\ LastTerm(log'[n]) = T
       /\ \A m \in Node : LastTerm(log'[m]) >= LastTerm(log[m]) /\ LastTerm(log[m]) \in Nat
       /\ \A m \in Node : m # n => LastTerm(log'[m]) = LastTerm(log[m])
  <2>1. log'[n] # << >>
    <3>1. Len(log'[n]) # 0
      BY <1>7
    <3> QED
      BY <3>1
  <2>2. LastTerm(log'[n]) = T
    BY <1>5, <1>7, <2>1 DEF LastTerm
  <2>3. \A m \in Node : m # n => LastTerm(log'[m]) = LastTerm(log[m])
    BY <1>7
  <2>4. \A m \in Node : LastTerm(log[m]) \in Nat /\ LastTerm(log[m]) < T
    <3> SUFFICES ASSUME NEW m \in Node PROVE LastTerm(log[m]) \in Nat /\ LastTerm(log[m]) < T
      OBVIOUS
    <3>1. LastTerm(log[m]) \in Nat /\ LastTerm(log[m]) =< term[m] /\ term[m] < T /\ term[m] \in Nat
      BY <1>1, <1>6, LastTermFacts
    <3> QED
      BY <3>1
  <2>5. \A m \in Node : LastTerm(log'[m]) >= LastTerm(log[m])
    <3> SUFFICES ASSUME NEW m \in Node PROVE LastTerm(log'[m]) >= LastTerm(log[m])
      OBVIOUS
    <3>1. CASE m = n
      BY <2>2, <2>4, <3>1
    <3>2. CASE m # n
      BY <2>3, <2>4, <3>2
    <3> QED
      BY <3>1, <3>2
  <2> QED
    BY <2>2, <2>3, <2>4, <2>5
\* The other leaders that remain.
<1>17. ASSUME NEW l \in leads', l # n
       PROVE  /\ l \in leads /\ l \in Node /\ l \notin Q /\ log'[l] = log[l] /\ term'[l] = term[l]
              /\ match'[l] = match[l] /\ term[l] \in Nat
  <2>1. l \in leads /\ l \in Node /\ l \notin Q
    BY <1>1, <1>4, <1>17
  <2> QED
    BY <1>1, <1>4, <1>7, <1>8, <1>17, <2>1
<1>18. Acknowledged'
  <2> SUFFICES ASSUME NEW l \in leads', NEW m \in Node
               PROVE  /\ match'[l][m] =< Len(log'[l])
                      /\ \A i \in 1..match'[l][m] : log'[l][i].term = term'[l] =>
                           Same(log'[l], log'[m], i) \/ LastTerm(log'[m]) > term'[l]
    BY DEF Acknowledged, Newer
  <2>1. CASE l = n
    <3>1. match'[l][m] = 0
      BY <1>1, <1>4, <2>1 DEF NoMatch
    <3> QED
      BY <1>7, <2>1, <3>1
  <2>2. CASE l # n
    <3>1. l \in leads /\ l \in Node /\ log'[l] = log[l] /\ term'[l] = term[l] /\ match'[l] = match[l]
          /\ term[l] \in Nat
      BY <1>17, <2>2
    <3>2. match'[l][m] =< Len(log'[l])
      BY <3>1 DEF Acknowledged
    <3>3. ASSUME NEW i \in 1..match[l][m], log[l][i].term = term[l],
                 ~ Same(log'[l], log'[m], i)
          PROVE  LastTerm(log'[m]) > term[l]
      <4>1. i \in Nat
        BY <3>1 DEF RaftTyped
      <4>2. ~ Same(log[l], log[m], i)
        BY <1>9, <3>1, <3>3, <4>1
      <4>3. LastTerm(log[m]) > term[l]
        BY <3>1, <3>3, <4>2 DEF Acknowledged, Newer
      <4>4. LastTerm(log'[m]) >= LastTerm(log[m]) /\ LastTerm(log[m]) \in Nat /\ LastTerm(log'[m]) \in Nat
        BY <1>3, <1>16
      <4> QED
        BY <3>1, <4>3, <4>4
    <3> QED
      BY <3>1, <3>2, <3>3
  <2> QED
    BY <2>1, <2>2
<1>19. Electable'
  <2> SUFFICES ASSUME NEW l \in leads', NEW i \in 1..Len(log'[l]), log'[l][i].term = term'[l],
                      NEW w \in Node, LastTerm(log'[w]) > term'[l],
                      ~ Same(log'[l], log'[w], i)
               PROVE  Closed(l, i)'
    BY DEF Electable, Newer
  <2>1. l # n
    <3> SUFFICES ASSUME l = n PROVE FALSE
      OBVIOUS
    <3>1. term'[l] = T
      BY <1>1, <1>8
    <3>2. LastTerm(log'[w]) =< T /\ LastTerm(log'[w]) \in Nat
      <4>1. CASE w = n
        BY <1>16, <4>1
      <4>2. CASE w # n
        <5>1. LastTerm(log'[w]) = LastTerm(log[w]) /\ LastTerm(log[w]) \in Nat
              /\ LastTerm(log[w]) =< term[w] /\ term[w] < T /\ term[w] \in Nat
          BY <1>1, <1>6, <1>16, <4>2, LastTermFacts
        <5> QED
          BY <5>1
      <4> QED
        BY <4>1, <4>2
    <3> QED
      BY <3>1, <3>2
  <2>2. /\ l \in leads /\ l \in Node /\ l \notin Q /\ log'[l] = log[l] /\ term'[l] = term[l]
        /\ match'[l] = match[l] /\ term[l] \in Nat
    BY <1>17, <2>1
  <2>3. i \in Nat /\ i \in 1..Len(log[l]) /\ log[l][i].term = term[l]
    BY <2>2
  <2>4. ASSUME Closed(l, i) PROVE Closed(l, i)'
    <3>1. PICK P \in Quorum : \A m \in P : term[m] > term[l] /\ match[l][m] < i
      BY <2>4 DEF Closed
    <3>2. \A m \in P : term'[m] > term'[l] /\ match'[l][m] < i
      <4> SUFFICES ASSUME NEW m \in P PROVE term'[m] > term'[l] /\ match'[l][m] < i
        OBVIOUS
      <4>1. m \in Node
        BY DEF Quorum
      <4>2. term'[m] >= term[m] /\ term'[m] \in Nat /\ term[m] \in Nat /\ term[m] > term[l]
        BY <1>1, <1>8, <3>1, <4>1
      <4> QED
        BY <2>2, <3>1, <4>2
    <3> QED
      BY <3>2 DEF Closed
  <2>5. ~ Same(log[l], log[w], i)
    BY <1>9, <2>2, <2>3
  <2>6. CASE LastTerm(log[w]) > term[l]
    BY <2>2, <2>3, <2>4, <2>5, <2>6 DEF Electable, Newer
  <2>7. CASE w = n /\ \A m \in Q : match[l][m] < i
    <3>1. \A m \in Q : term'[m] > term'[l]
      <4>1. \A m \in Q : term'[m] = T
        BY <1>1, <1>8
      <4>2. T > term'[l]
        BY <1>6, <2>2
      <4> QED
        BY <4>1, <4>2
    <3> QED
      BY <2>2, <2>7, <3>1 DEF Closed
  \* A voter has acknowledged the entry: then the new leader has it, or a later term.
  <2>8. CASE w = n /\ ~ (LastTerm(log[w]) > term[l]) /\ ~ (\A m \in Q : match[l][m] < i)
    <3>1. PICK m \in Q : ~ (match[l][m] < i)
      BY <2>8
    <3>2. m \in Node /\ match[l][m] \in Nat /\ i \in 1..match[l][m]
      <4>1. m \in Node
        BY <1>1
      <4>2. match[l][m] \in Nat
        BY <2>2, <4>1 DEF RaftTyped
      <4> QED
        BY <2>3, <3>1, <4>1, <4>2
    <3>3. Same(log[l], log[m], i) \/ LastTerm(log[m]) > term[l]
      BY <2>2, <2>3, <3>2 DEF Acknowledged, Newer
    <3>4. UpToDate(log[n], log[m])
      BY <1>4
    <3>5. /\ LastTerm(log[n]) \in Nat /\ LastTerm(log[m]) \in Nat
          /\ LastTerm(log[n]) >= LastTerm(log[m])
      BY <1>16, <3>2, <3>4 DEF UpToDate
    <3>6. Same(log[l], log[m], i)
      BY <2>2, <2>8, <3>3, <3>5
    <3>7. i \in 1..Len(log[m]) /\ log[m][i].term = term[l]
      BY <2>3, <3>6 DEF Same
    <3>8. LastTerm(log[m]) >= term[l]
      BY <2>2, <3>2, <3>5, <3>7, LastTermFacts
    <3>9. LastTerm(log[n]) = term[l] /\ LastTerm(log[m]) = term[l]
      BY <2>2, <2>8, <3>5, <3>8
    <3>10. Len(log[n]) >= Len(log[m]) /\ Len(log[m]) >= i /\ Len(log[m]) \in Nat /\ Len(log[n]) \in Nat
      BY <1>1, <3>2, <3>4, <3>5, <3>7, <3>9 DEF UpToDate
    <3>11. PICK j \in Nat : j = Len(log[n])
      BY <3>10
    <3>12. j \in 1..Len(log[n]) /\ i =< j /\ log[n][j].term = term[l]
      <4>1. Len(log[n]) >= 1 /\ i =< j
        BY <2>3, <3>10, <3>11
      <4> QED
        BY <3>9, <3>11, <4>1, LastTermFacts
    <3>13. Same(log[l], log[n], i)
      BY <2>2, <2>3, <3>12 DEF LogMatching
    <3> QED
      BY <2>5, <2>8, <3>13
  <2>9. w # n => LastTerm(log[w]) > term[l]
    BY <1>16, <2>2
  <2> QED
    BY <2>6, <2>7, <2>8, <2>9
<1>20. CommitsSafe'
  <2> SUFFICES ASSUME NEW a \in Node
               PROVE  commit[a] =< Len(log'[a]) /\ (commit[a] > 0 => CommitSafe(a, commit[a])')
    BY <1>4 DEF CommitsSafe
  <2>1. commit[a] =< Len(log[a]) /\ commit[a] \in Nat /\ Len(log[a]) \in Nat
    BY <1>1 DEF CommitsSafe, RaftTyped
  <2>2. commit[a] =< Len(log'[a])
    <3>1. CASE a = n
      BY <1>7, <2>1, <3>1
    <3>2. CASE a # n
      BY <1>7, <2>1, <3>2
    <3> QED
      BY <3>1, <3>2
  <2> SUFFICES ASSUME commit[a] > 0 PROVE CommitSafe(a, commit[a])'
    BY <2>2
  <2>3. PICK c \in 1..Len(log[a]) : c = commit[a] /\ c \in Nat
    BY <2>1
  <2>4. PICK P \in Quorum : \A m \in P : Same(log[a], log[m], c)
    BY <2>3 DEF CommitsSafe, CommitSafe
  <2>5. \A m \in P : Same(log'[a], log'[m], c)
    BY <1>9, <2>3, <2>4 DEF Quorum
  <2>6. PICK u \in Nat : u = log[a][c].term
    BY <2>3, LogFacts
  <2>7. log'[a][c].term = u
    <3>1. CASE a = n
      BY <1>7, <2>3, <2>6, <3>1
    <3>2. CASE a # n
      BY <1>7, <2>6, <3>2
    <3> QED
      BY <3>1, <3>2
  <2>8. \A m \in Node : LastTerm(log[m]) > u => Same(log[a], log[m], c)
    BY <2>3, <2>6 DEF CommitsSafe, CommitSafe, Newer
  \* The new leader: a voter has the committed entry.
  <2>9. Same(log[a], log[n], c)
    <3>1. PICK m \in Node : m \in P /\ m \in Q
      BY <2>4, QuorumsMeet
    <3>2. Same(log[a], log[m], c) /\ UpToDate(log[n], log[m])
      BY <1>4, <2>4, <3>1
    <3>3. c \in 1..Len(log[m]) /\ log[m][c].term = u
      BY <2>3, <2>6, <3>2 DEF Same
    <3>4. LastTerm(log[m]) >= u /\ LastTerm(log[m]) \in Nat /\ LastTerm(log[n]) \in Nat
      BY <1>16, <3>1, <3>3, LastTermFacts
    <3>5. CASE LastTerm(log[n]) > u
      BY <2>8, <3>5
    <3>6. CASE ~ (LastTerm(log[n]) > u)
      <4>1. LastTerm(log[n]) = u /\ Len(log[n]) >= Len(log[m])
        BY <2>6, <3>2, <3>4, <3>6 DEF UpToDate
      <4>2. Len(log[m]) \in Nat /\ Len(log[n]) \in Nat /\ c =< Len(log[m])
        BY <1>1, <3>1, <3>3
      <4>3. PICK j \in Nat : j = Len(log[n])
        BY <4>2
      <4>4. j \in 1..Len(log[n]) /\ c =< j
        BY <2>3, <4>1, <4>2, <4>3
      <4>5. log[n][j].term = u
        BY <4>1, <4>3, <4>4, LastTermFacts
      <4> QED
        BY <2>3, <2>6, <4>4, <4>5 DEF LogMatching
    <3> QED
      BY <3>5, <3>6
  <2>10. \A m \in Node : LastTerm(log'[m]) > u => Same(log'[a], log'[m], c)
    <3> SUFFICES ASSUME NEW m \in Node, LastTerm(log'[m]) > u PROVE Same(log'[a], log'[m], c)
      OBVIOUS
    <3>1. Same(log[a], log[m], c)
      <4>1. CASE m = n
        BY <2>9, <4>1
      <4>2. CASE m # n
        BY <1>16, <2>8, <4>2
      <4> QED
        BY <4>1, <4>2
    <3> QED
      BY <1>9, <2>3, <3>1
  <2>11. commit'[a] = c
    BY <1>4, <2>3
  <2> QED
    BY <2>5, <2>7, <2>10, <2>11 DEF CommitSafe, Newer
<1> QED
  BY <1>4, <1>5, <1>10, <1>11, <1>12, <1>13, <1>14, <1>15, <1>18, <1>19, <1>20

\* Replication: the follower loses nothing that is committed, and what a quorum has
\* acknowledged is in every later log.
LEMMA ReplicateRaft ==
  ASSUME RaftInv, NEW l \in Node, NEW m \in Node, Replicate(l, m)
  PROVE  RaftInv' /\ Kept
<1> USE RaftChainAssumption DEF RaftInv
<1> DEFINE Acked(i) == {o \in Node : o \in {l, m} \/ match[l][o] >= i}
           committable == {i \in 1..Len(log[l]) : log[l][i].term = term[l] /\ Acked(i) \in Quorum}
           newCommit == IF committable = {} THEN commit[l]
                        ELSE MaxOf(commit[l], CHOOSE i \in committable : \A j \in committable : i >= j)
<1>1. /\ l \in leads /\ l # m /\ term[m] =< term[l]
      /\ log' = [log EXCEPT ![m] = log[l]]
      /\ term' = [term EXCEPT ![m] = term[l]]
      /\ leads' = leads \ {m}
      /\ match' = [match EXCEPT ![l] = [@ EXCEPT ![m] = Len(log[l])], ![m] = NoMatch]
      /\ commit' = [commit EXCEPT ![l] = newCommit, ![m] = MaxOf(@, newCommit)]
  BY DEF Replicate
<1>2. /\ leads \in SUBSET Node /\ l \in leads'
      /\ \A o \in Node : /\ term[o] \in Nat /\ log[o] \in Seq(Entry) /\ Len(log[o]) \in Nat
                         /\ commit[o] \in Nat
  <2>1. leads \in SUBSET Node /\ l \in leads' /\ \A o \in Node : commit[o] \in Nat
    BY <1>1 DEF RaftTyped
  <2> QED
    BY <2>1, LogFacts
<1>3. /\ log'[m] = log[l] /\ term'[m] = term[l] /\ log'[l] = log[l] /\ term'[l] = term[l]
      /\ \A o \in Node : o # m => log'[o] = log[o] /\ term'[o] = term[o]
      /\ \A o \in Node : term'[o] \in Nat /\ term'[o] >= term[o]
  <2>1. /\ log'[m] = log[l] /\ term'[m] = term[l]
        /\ \A o \in Node : o # m => log'[o] = log[o] /\ term'[o] = term[o]
    BY <1>1 DEF RaftTyped
  <2>2. \A o \in Node : term'[o] \in Nat /\ term'[o] >= term[o]
    <3> SUFFICES ASSUME NEW o \in Node PROVE term'[o] \in Nat /\ term'[o] >= term[o]
      OBVIOUS
    <3>1. CASE o = m
      BY <1>1, <1>2, <2>1, <3>1
    <3>2. CASE o # m
      BY <1>2, <2>1, <3>2
    <3> QED
      BY <3>1, <3>2
  <2> QED
    BY <1>1, <2>1, <2>2
<1>4. /\ \A o \in Node : o # m => match'[l][o] = match[l][o]
      /\ match'[l][m] = Len(log[l])
      /\ \A k \in leads' : k # l => match'[k] = match[k]
  <2>1. match \in [Node -> [Node -> Nat]] /\ match[l] \in [Node -> Nat]
    BY DEF RaftTyped
  <2>2. match'[l] = [match[l] EXCEPT ![m] = Len(log[l])]
    BY <1>1, <2>1
  <2>3. \A k \in leads' : k # l => match'[k] = match[k]
    BY <1>1, <1>2, <2>1
  <2> QED
    BY <2>1, <2>2, <2>3
<1>5. newCommit \in Nat /\ newCommit >= commit[l]
      /\ (newCommit = commit[l] \/ newCommit \in committable)
  <2>1. CASE committable = {}
    BY <1>2, <2>1
  <2>2. CASE committable # {}
    <3> DEFINE top == CHOOSE i \in committable : \A j \in committable : i >= j
    <3>1. committable \in SUBSET (0..Len(log[l]))
      BY <1>2
    <3>2. \E i \in committable : \A j \in committable : i >= j
      <4> HIDE DEF committable
      <4> QED
        BY <1>2, <2>2, <3>1, GreatestExists
    <3>3. top \in committable
      <4> HIDE DEF committable
      <4> QED
        BY <3>2
    <3>4. top \in Nat
      <4> HIDE DEF top
      <4> QED
        BY <1>2, <3>1, <3>3
    <3>5. newCommit = MaxOf(commit[l], top)
      BY <2>2
    <3> HIDE DEF top, committable, newCommit
    <3> QED
      BY <1>2, <3>3, <3>4, <3>5 DEF MaxOf
  <2> QED
    BY <2>1, <2>2
<1>6. /\ commit'[l] = newCommit
      /\ commit'[m] = commit[m] \/ commit'[m] = newCommit
      /\ commit'[m] >= commit[m]
      /\ \A o \in Node : o # l /\ o # m => commit'[o] = commit[o]
      /\ commit' \in [Node -> Nat]
  <2> HIDE DEF newCommit
  <2>1. commit \in [Node -> Nat]
    BY DEF RaftTyped
  <2>2. commit'[l] = newCommit /\ commit'[m] = MaxOf(commit[m], newCommit)
        /\ \A o \in Node : o # l /\ o # m => commit'[o] = commit[o]
    BY <1>1, <2>1
  <2>3. /\ MaxOf(commit[m], newCommit) \in {commit[m], newCommit}
        /\ MaxOf(commit[m], newCommit) >= commit[m]
    BY <1>2, <1>5 DEF MaxOf
  <2>4. MaxOf(commit[m], newCommit) \in Nat
    BY <1>2, <1>5, <2>3
  <2>5. commit' \in [Node -> Nat]
    BY <1>1, <1>5, <2>1, <2>4
  <2> QED
    BY <2>2, <2>3, <2>5
<1> HIDE DEF newCommit
<1>7. PICK new \in Nat : new = newCommit
  BY <1>5
<1>8. new = commit[l] \/ (new \in 1..Len(log[l]) /\ log[l][new].term = term[l] /\ Acked(new) \in Quorum)
  BY <1>5, <1>7
<1> HIDE DEF committable
<1>9. RaftTyped'
  <2>1. log' \in [Node -> Seq(Entry)]
    BY <1>1, <1>2 DEF RaftTyped
  <2>2. term' \in [Node -> 0..MaxTerm]
    BY <1>1 DEF RaftTyped
  <2>3. match' \in [Node -> [Node -> Nat]]
    <3>1. match \in [Node -> [Node -> Nat]] /\ Len(log[l]) \in Nat /\ NoMatch \in [Node -> Nat]
      BY <1>2 DEF RaftTyped, NoMatch
    <3>2. [match[l] EXCEPT ![m] = Len(log[l])] \in [Node -> Nat]
      BY <3>1
    <3> QED
      BY <1>1, <3>1, <3>2
  <2> QED
    BY <1>1, <1>2, <1>6, <2>1, <2>2, <2>3 DEF RaftTyped
\* Every log is a log there was before.
<1>10. \A o \in Node : \E p \in Node : log'[o] = log[p] /\ (o # m => p = o) /\ (o = m => p = l)
  BY <1>3
<1>11. TermsOrdered'
  <2> SUFFICES ASSUME NEW o \in Node
               PROVE  /\ \A i \in 1..Len(log'[o]) : 1 =< log'[o][i].term /\ log'[o][i].term =< term'[o]
                      /\ \A i, j \in 1..Len(log'[o]) : i =< j => log'[o][i].term =< log'[o][j].term
    BY DEF TermsOrdered
  <2>1. CASE o = m
    BY <1>3, <2>1 DEF TermsOrdered
  <2>2. CASE o # m
    BY <1>3, <2>2 DEF TermsOrdered
  <2> QED
    BY <2>1, <2>2
<1>12. LeaderLast' /\ OneLeader'
  <2>1. \A k \in leads' : k \in leads /\ k # m /\ k \in Node
    BY <1>1, <1>2
  <2> QED
    BY <1>3, <2>1 DEF LeaderLast, OneLeader
<1>13. LeaderHasAll'
  <2> SUFFICES ASSUME NEW k \in leads', NEW o \in Node, NEW i \in 1..Len(log'[o]),
                      log'[o][i].term = term'[k]
               PROVE  Same(log'[o], log'[k], i)
    BY DEF LeaderHasAll
  <2>1. k \in leads /\ log'[k] = log[k] /\ term'[k] = term[k]
    BY <1>1, <1>2, <1>3
  <2>2. PICK p \in Node : log'[o] = log[p]
    BY <1>10
  <2> QED
    BY <2>1, <2>2 DEF LeaderHasAll
<1>14. LogMatching'
  <2> SUFFICES ASSUME NEW a \in Node, NEW b \in Node,
                      NEW i \in 1..Len(log'[a]), NEW j \in 1..Len(log'[b]),
                      i =< j, log'[a][i].term = log'[b][j].term
               PROVE  Same(log'[a], log'[b], i)
    BY DEF LogMatching
  <2>1. PICK p \in Node : log'[a] = log[p]
    BY <1>10
  <2>2. PICK q \in Node : log'[b] = log[q]
    BY <1>10
  <2> QED
    BY <2>1, <2>2 DEF LogMatching
<1>15. Voted'
  <2> SUFFICES ASSUME NEW o \in Node, term'[o] > 0
               PROVE  \E P \in Quorum : \A p \in P : term'[p] >= term'[o]
    BY DEF Voted
  <2>1. PICK q \in Node : term'[o] = term[q]
    BY <1>3
  <2>2. PICK P \in Quorum : \A p \in P : term[p] >= term[q]
    BY <2>1 DEF Voted
  <2>3. \A p \in P : term'[p] >= term'[o]
    <3> SUFFICES ASSUME NEW p \in P PROVE term'[p] >= term'[o]
      OBVIOUS
    <3>1. p \in Node
      BY DEF Quorum
    <3>2. term'[p] >= term[p] /\ term'[p] \in Nat /\ term[p] \in Nat /\ term[q] \in Nat
          /\ term[p] >= term[q]
      BY <1>2, <1>3, <2>2, <3>1
    <3> QED
      BY <2>1, <3>2
  <2> QED
    BY <2>3
<1>16. Acknowledged'
  <2> SUFFICES ASSUME NEW k \in leads', NEW o \in Node
               PROVE  /\ match'[k][o] =< Len(log'[k])
                      /\ \A i \in 1..match'[k][o] : log'[k][i].term = term'[k] =>
                           Same(log'[k], log'[o], i) \/ LastTerm(log'[o]) > term'[k]
    BY DEF Acknowledged, Newer
  <2>1. k \in leads /\ k \in Node /\ k # m /\ log'[k] = log[k] /\ term'[k] = term[k]
        /\ term[k] \in Nat
    BY <1>1, <1>2, <1>3
  <2>2. CASE k = l /\ o = m
    <3>1. match'[k][o] = Len(log[l]) /\ log'[o] = log[l] /\ Len(log[l]) \in Nat
      BY <1>2, <1>3, <1>4, <2>2
    <3>2. \A i \in 1..Len(log[l]) : Same(log[l], log[l], i)
      BY <1>2, SameRefl
    <3> QED
      BY <2>1, <2>2, <3>1, <3>2
  <2>3. CASE o # m
    <3>1. match'[k][o] = match[k][o] /\ log'[o] = log[o]
      BY <1>3, <1>4, <2>3
    <3> QED
      BY <2>1, <3>1 DEF Acknowledged, Newer
  <2>4. CASE k # l /\ o = m
    <3>1. match'[k][o] = match[k][m] /\ log'[o] = log[l]
      BY <1>3, <1>4, <2>4
    <3>2. match[k][m] =< Len(log[k])
      BY <2>1 DEF Acknowledged
    <3>3. ASSUME NEW i \in 1..match[k][m], log[k][i].term = term[k]
          PROVE  LastTerm(log[l]) > term[k]
      <4>1. Same(log[k], log[m], i) \/ LastTerm(log[m]) > term[k]
        BY <2>1, <3>3 DEF Acknowledged, Newer
      <4>2. term[m] >= term[k]
        <5>1. CASE Same(log[k], log[m], i)
          <6>1. i \in 1..Len(log[m]) /\ log[m][i].term = term[k]
            BY <3>3, <5>1 DEF Same
          <6> QED
            BY <6>1 DEF TermsOrdered
        <5>2. CASE LastTerm(log[m]) > term[k]
          <6>1. LastTerm(log[m]) \in Nat /\ LastTerm(log[m]) =< term[m] /\ term[m] \in Nat
            BY <1>2, LastTermFacts
          <6> QED
            BY <2>1, <5>2, <6>1
        <5> QED
          BY <4>1, <5>1, <5>2
      <4>3. term[l] # term[k]
        BY <1>1, <2>1, <2>4 DEF OneLeader
      <4>4. LastTerm(log[l]) = term[l]
        BY <1>1, LastTermFacts DEF LeaderLast
      <4>5. term[l] \in Nat /\ term[m] \in Nat
        BY <1>2
      <4> QED
        BY <1>1, <2>1, <4>2, <4>3, <4>4, <4>5
    <3> QED
      BY <2>1, <3>1, <3>2, <3>3
  <2> QED
    BY <2>2, <2>3, <2>4
<1>17. Electable'
  <2> SUFFICES ASSUME NEW k \in leads', NEW i \in 1..Len(log'[k]), log'[k][i].term = term'[k],
                      NEW w \in Node, LastTerm(log'[w]) > term'[k],
                      ~ Same(log'[k], log'[w], i)
               PROVE  Closed(k, i)'
    BY DEF Electable, Newer
  <2>1. k \in leads /\ k \in Node /\ k # m /\ log'[k] = log[k] /\ term'[k] = term[k]
        /\ term[k] \in Nat
    BY <1>1, <1>2, <1>3
  <2>2. PICK p \in Node : log'[w] = log[p]
    BY <1>10
  <2>3. Closed(k, i)
    BY <2>1, <2>2 DEF Electable, Newer
  <2>4. PICK P \in Quorum : \A o \in P : term[o] > term[k] /\ match[k][o] < i
    BY <2>3 DEF Closed
  <2>5. \A o \in P : term'[o] > term'[k] /\ match'[k][o] < i
    <3> SUFFICES ASSUME NEW o \in P PROVE term'[o] > term'[k] /\ match'[k][o] < i
      OBVIOUS
    <3>1. o \in Node /\ term[o] > term[k] /\ match[k][o] < i
      BY <2>4 DEF Quorum
    <3>2. term'[o] >= term[o] /\ term'[o] \in Nat /\ term[o] \in Nat
      BY <1>2, <1>3, <3>1
    <3>3. match'[k][o] = match[k][o]
      <4>1. CASE k = l
        <5>1. o # m
          BY <1>1, <1>2, <3>1, <4>1
        <5> QED
          BY <1>4, <3>1, <4>1, <5>1
      <4>2. CASE k # l
        BY <1>4, <4>2
      <4> QED
        BY <4>1, <4>2
    <3> QED
      BY <2>1, <3>1, <3>2, <3>3
  <2> QED
    BY <2>5 DEF Closed
\* What was committed stays.
<1>18. ASSUME NEW a \in Node, commit[a] > 0
       PROVE  /\ Same(log[a], log'[a], commit[a])
              /\ \E P \in Quorum : \A o \in P : Same(log[a], log'[o], commit[a])
              /\ \A o \in Node : LastTerm(log'[o]) > log[a][commit[a]].term =>
                   Same(log[a], log'[o], commit[a])
  <2>1. PICK c \in 1..Len(log[a]) : c = commit[a] /\ c \in Nat
    BY <1>2, <1>18 DEF CommitsSafe
  <2>2. PICK u \in Nat : u = log[a][c].term
    BY <2>1, LogFacts
  <2>3. ASSUME term[m] >= u PROVE Same(log[a], log[l], c)
    <3>1. term[l] >= u
      BY <1>1, <1>2, <2>2, <2>3, SMTT(30)
    <3> QED
      BY <1>1, <1>18, <2>1, <2>2, <3>1, LeaderHasCommitted
  <2>4. ASSUME Same(log[a], log[m], c) PROVE Same(log[a], log[l], c)
    <3>1. c \in 1..Len(log[m]) /\ log[m][c].term = u
      BY <2>1, <2>2, <2>4 DEF Same
    <3>2. term[m] >= u
      BY <1>2, <2>2, <3>1 DEF TermsOrdered
    <3> QED
      BY <2>3, <3>2
  <2>5. Same(log[a], log'[a], c)
    <3>1. Same(log[a], log[a], c)
      BY <1>2, <2>1, SameRefl
    <3>2. CASE a = m
      BY <1>3, <2>4, <3>1, <3>2
    <3>3. CASE a # m
      BY <1>3, <3>1, <3>3
    <3> QED
      BY <3>2, <3>3
  <2>6. PICK P \in Quorum : \A o \in P : Same(log[a], log[o], c)
    BY <1>18, <2>1 DEF CommitsSafe, CommitSafe
  <2>7. \A o \in P : Same(log[a], log'[o], c)
    <3> SUFFICES ASSUME NEW o \in P PROVE Same(log[a], log'[o], c)
      OBVIOUS
    <3>1. o \in Node
      BY DEF Quorum
    <3>2. CASE o = m
      BY <1>3, <2>4, <2>6, <3>2
    <3>3. CASE o # m
      BY <1>3, <2>6, <3>1, <3>3
    <3> QED
      BY <3>2, <3>3
  <2>8. \A o \in Node : LastTerm(log'[o]) > u => Same(log[a], log'[o], c)
    <3> SUFFICES ASSUME NEW o \in Node, LastTerm(log'[o]) > u PROVE Same(log[a], log'[o], c)
      OBVIOUS
    <3>1. PICK p \in Node : log'[o] = log[p]
      BY <1>10
    <3> QED
      BY <1>18, <2>1, <2>2, <3>1 DEF CommitsSafe, CommitSafe, Newer
  <2> QED
    BY <2>1, <2>2, <2>5, <2>7, <2>8
\* What becomes committed is in every later log.
<1>19. ASSUME new \in 1..Len(log[l]), log[l][new].term = term[l], Acked(new) \in Quorum
       PROVE  /\ \A w \in Node : LastTerm(log'[w]) > term[l] => Same(log[l], log'[w], new)
              /\ \A o \in Acked(new) : Same(log[l], log'[o], new)
  <2>1. /\ \A o \in Acked(new) : o \in Node /\ (o # l /\ o # m => match[l][o] >= new)
        /\ \A o \in Node : match[l][o] \in Nat
    BY <1>2 DEF RaftTyped
  <2>2. PICK A \in Quorum : A = Acked(new)
    BY <1>19
  <2> HIDE DEF Acked
  <2>3. ASSUME NEW w \in Node, LastTerm(log'[w]) > term[l], ~ Same(log[l], log'[w], new)
        PROVE  FALSE
    <3>1. new \in 1..Len(log'[l]) /\ log'[l][new].term = term'[l]
      BY <1>3, <1>19
    <3>2. LastTerm(log'[w]) > term'[l] /\ ~ Same(log'[l], log'[w], new)
      BY <1>3, <2>3
    <3>3. Closed(l, new)'
      BY <1>2, <1>17, <3>1, <3>2 DEF Electable, Newer
    <3>4. PICK P \in Quorum : \A o \in P : term'[o] > term'[l] /\ match'[l][o] < new
      BY <3>3 DEF Closed
    <3>5. PICK o \in Node : o \in P /\ o \in A
      BY <3>4, QuorumsMeet
    <3>6. term'[o] > term[l] /\ match'[l][o] < new
      BY <1>3, <3>4, <3>5
    <3>7. o # l /\ o # m
      BY <1>2, <1>3, <3>6
    <3>8. match[l][o] >= new /\ match'[l][o] = match[l][o] /\ match[l][o] \in Nat
      BY <1>4, <2>1, <2>2, <3>5, <3>7
    <3> QED
      BY <3>6, <3>8
  <2>4. ASSUME NEW o \in Acked(new) PROVE Same(log[l], log'[o], new)
    <3>1. Same(log[l], log[l], new)
      BY <1>2, <1>19, SameRefl
    <3>2. CASE o = l \/ o = m
      BY <1>3, <3>1, <3>2
    <3>3. CASE o # l /\ o # m
      <4>1. o \in Node /\ match[l][o] >= new /\ match[l][o] \in Nat /\ log'[o] = log[o]
        BY <1>3, <2>1, <2>4, <3>3
      <4>2. new \in 1..match[l][o]
        BY <1>19, <4>1
      <4>3. Same(log[l], log[o], new) \/ LastTerm(log[o]) > term[l]
        BY <1>1, <1>19, <4>1, <4>2 DEF Acknowledged, Newer
      <4> QED
        BY <2>3, <4>1, <4>3
    <3> QED
      BY <3>2, <3>3
  <2> QED
    BY <2>3, <2>4
<1>20. new =< Len(log[l]) /\ (new > 0 => CommitSafe(l, new)')
  <2>1. CASE new = commit[l]
    <3>1. new =< Len(log[l])
      BY <2>1 DEF CommitsSafe
    <3>2. ASSUME new > 0 PROVE CommitSafe(l, new)'
      BY <1>3, <1>18, <2>1, <3>2 DEF CommitSafe, Newer
    <3> QED
      BY <3>1, <3>2
  <2>2. CASE new \in 1..Len(log[l]) /\ log[l][new].term = term[l] /\ Acked(new) \in Quorum
    <3>1. PICK A \in Quorum : A = Acked(new)
      BY <2>2
    <3> HIDE DEF Acked
    <3>2. \A o \in A : Same(log'[l], log'[o], new)
      BY <1>3, <1>19, <2>2, <3>1
    <3>3. \A w \in Node : LastTerm(log'[w]) > log'[l][new].term => Same(log'[l], log'[w], new)
      BY <1>3, <1>19, <2>2
    <3>4. CommitSafe(l, new)'
      BY <3>2, <3>3 DEF CommitSafe, Newer
    <3> QED
      BY <1>2, <2>2, <3>4
  <2> QED
    BY <1>8, <2>1, <2>2
<1>21. CommitsSafe'
  <2> SUFFICES ASSUME NEW a \in Node
               PROVE  commit'[a] =< Len(log'[a]) /\ (commit'[a] > 0 => CommitSafe(a, commit[a])')
    BY DEF CommitsSafe
  <2>1. CASE commit'[a] = commit[a]
    <3>1. commit[a] \in Nat /\ commit[a] =< Len(log[a])
      BY <1>2 DEF CommitsSafe
    <3>2. CASE commit[a] = 0
      <4>1. Len(log'[a]) \in Nat
        BY <1>2, <1>3
      <4> QED
        BY <2>1, <3>2, <4>1
    <3>3. CASE commit[a] # 0
      <4>1. PICK c \in Nat : c = commit[a] /\ c > 0 /\ c >= 1
        BY <3>1, <3>3
      <4>2. /\ Same(log[a], log'[a], c)
            /\ \E P \in Quorum : \A o \in P : Same(log[a], log'[o], c)
            /\ \A o \in Node : LastTerm(log'[o]) > log[a][c].term => Same(log[a], log'[o], c)
        BY <1>18, <4>1
      <4>3. c =< Len(log'[a]) /\ log'[a][c] = log[a][c]
        BY <4>1, <4>2 DEF Same
      <4>4. log[a] \in Seq(Entry) /\ \A o \in Node : log'[o] \in Seq(Entry)
        BY <1>2, <1>9 DEF RaftTyped
      <4>5. \A o \in Node : Same(log[a], log'[o], c) => Same(log'[a], log'[o], c)
        BY <4>2 DEF Same
      <4>6. CommitSafe(a, c)'
        BY <4>2, <4>3, <4>5 DEF CommitSafe, Newer, Quorum
      <4> QED
        BY <2>1, <4>1, <4>3, <4>6
    <3> QED
      BY <3>2, <3>3
  <2>2. CASE (a = l \/ a = m) /\ commit'[a] = new
    <3>1. log'[a] = log[l] /\ log'[l] = log[l]
      BY <1>3, <2>2
    <3> QED
      BY <1>20, <2>2, <3>1 DEF CommitSafe, Newer
  <2> QED
    BY <1>6, <1>7, <2>1, <2>2
<1>22. Kept
  <2> SUFFICES ASSUME NEW a \in Node
               PROVE  commit[a] =< commit'[a] /\ Same(log[a], log'[a], commit[a])
    BY DEF Kept
  <2>1. commit[a] =< commit'[a]
    <3>1. CASE a = l
      BY <1>5, <1>6, <3>1
    <3>2. CASE a = m
      BY <1>6, <3>2
    <3>3. CASE a # l /\ a # m
      BY <1>2, <1>6, <3>3
    <3> QED
      BY <3>1, <3>2, <3>3
  <2>2. CASE commit[a] = 0
    <3>1. Len(log[a]) \in Nat /\ Len(log'[a]) \in Nat
      BY <1>2, <1>3
    <3> QED
      BY <2>1, <2>2, <3>1 DEF Same
  <2>3. CASE commit[a] # 0
    <3>1. commit[a] > 0
      BY <1>2, <2>3
    <3> QED
      BY <1>18, <2>1, <3>1
  <2> QED
    BY <2>2, <2>3
<1> QED
  BY <1>9, <1>11, <1>12, <1>13, <1>14, <1>15, <1>16, <1>17, <1>21, <1>22

\* A node that adds an entry to its log: everything that was there stays.
LEMMA LogGrows ==
  ASSUME RaftTyped, NEW n \in Node, NEW e \in Entry, log' = [log EXCEPT ![n] = Append(log[n], e)]
  PROVE  /\ log' \in [Node -> Seq(Entry)]
         /\ \A m \in Node : m # n => log'[m] = log[m]
         /\ Len(log'[n]) = Len(log[n]) + 1 /\ log'[n][Len(log[n]) + 1] = e
         /\ \A m \in Node : /\ Len(log[m]) \in Nat /\ Len(log'[m]) \in Nat
                            /\ Len(log'[m]) >= Len(log[m])
                            /\ \A k \in 1..Len(log[m]) : log'[m][k] = log[m][k]
         /\ \A m \in Node : \A k \in 1..Len(log'[m]) :
              k \in 1..Len(log[m]) \/ (m = n /\ k = Len(log[n]) + 1)
         /\ \A a, b \in Node, i \in Nat : Same(log[a], log[b], i) => Same(log'[a], log'[b], i)
<1>1. \A m \in Node : log[m] \in Seq(Entry) /\ Len(log[m]) \in Nat
  BY LogFacts
<1>2. log'[n] = Append(log[n], e) /\ \A m \in Node : m # n => log'[m] = log[m]
  BY DEF RaftTyped
<1>3. /\ log'[n] \in Seq(Entry) /\ Len(log'[n]) = Len(log[n]) + 1
      /\ log'[n][Len(log[n]) + 1] = e
      /\ \A k \in 1..Len(log[n]) : log'[n][k] = log[n][k]
  BY <1>1, <1>2
<1>4. log' \in [Node -> Seq(Entry)]
  BY <1>1, <1>2, <1>3 DEF RaftTyped
<1>5. ASSUME NEW m \in Node
      PROVE  /\ Len(log[m]) \in Nat /\ Len(log'[m]) \in Nat
             /\ Len(log'[m]) >= Len(log[m])
             /\ \A k \in 1..Len(log[m]) : log'[m][k] = log[m][k]
             /\ \A k \in 1..Len(log'[m]) : k \in 1..Len(log[m]) \/ (m = n /\ k = Len(log[n]) + 1)
  <2>1. CASE m = n
    BY <1>1, <1>3, <2>1
  <2>2. CASE m # n
    BY <1>1, <1>2, <2>2
  <2> QED
    BY <2>1, <2>2
<1>6. \A a, b \in Node, i \in Nat : Same(log[a], log[b], i) => Same(log'[a], log'[b], i)
  BY <1>5 DEF Same
<1> QED
  BY <1>2, <1>3, <1>4, <1>5, <1>6

\* A block that Raft accepts from a leader.
LEMMA ProposeRaft ==
  ASSUME RaftInv, NEW n \in leads, NEW e \in Entry, e.term = term[n],
         log' = [log EXCEPT ![n] = Append(log[n], e)],
         UNCHANGED <<term, leads, commit, match>>
  PROVE  RaftInv'
<1> USE DEF RaftInv
<1>1. /\ n \in Node /\ leads \in SUBSET Node
      /\ \A m \in Node : /\ term[m] \in Nat /\ log[m] \in Seq(Entry) /\ commit[m] \in Nat
                         /\ LastTerm(log[m]) \in Nat
  <2>1. n \in Node /\ leads \in SUBSET Node /\ \A m \in Node : commit[m] \in Nat
    BY DEF RaftTyped
  <2> QED
    BY <2>1, LogFacts, LastTermFacts
<1>2. /\ log' \in [Node -> Seq(Entry)]
      /\ \A m \in Node : m # n => log'[m] = log[m]
      /\ Len(log'[n]) = Len(log[n]) + 1 /\ log'[n][Len(log[n]) + 1] = e
      /\ \A m \in Node : /\ Len(log[m]) \in Nat /\ Len(log'[m]) \in Nat
                         /\ Len(log'[m]) >= Len(log[m])
                         /\ \A k \in 1..Len(log[m]) : log'[m][k] = log[m][k]
      /\ \A m \in Node : \A k \in 1..Len(log'[m]) :
           k \in 1..Len(log[m]) \/ (m = n /\ k = Len(log[n]) + 1)
      /\ \A a, b \in Node, i \in Nat : Same(log[a], log[b], i) => Same(log'[a], log'[b], i)
  BY <1>1, LogGrows
<1>3. \A m \in Node : LastTerm(log'[m]) = LastTerm(log[m])
  <2> SUFFICES ASSUME NEW m \in Node PROVE LastTerm(log'[m]) = LastTerm(log[m])
    OBVIOUS
  <2>1. CASE m = n
    <3>1. Len(log[n]) >= 1 /\ LastTerm(log[n]) = term[n]
      BY <1>1, LastTermFacts DEF LeaderLast
    <3>2. log'[n] # << >>
      BY <1>1, <1>2
    <3>3. LastTerm(log'[n]) = term[n]
      BY <1>2, <3>2 DEF LastTerm
    <3> QED
      BY <2>1, <3>1, <3>3
  <2>2. CASE m # n
    BY <1>2, <2>2
  <2> QED
    BY <2>1, <2>2
<1>4. RaftTyped'
  BY <1>2 DEF RaftTyped
<1>5. TermsOrdered'
  <2> SUFFICES ASSUME NEW m \in Node
               PROVE  /\ \A i \in 1..Len(log'[m]) : 1 =< log'[m][i].term /\ log'[m][i].term =< term[m]
                      /\ \A i, j \in 1..Len(log'[m]) : i =< j => log'[m][i].term =< log'[m][j].term
    BY DEF TermsOrdered
  <2>1. /\ \A i \in 1..Len(log[m]) : 1 =< log[m][i].term /\ log[m][i].term =< term[m]
        /\ \A i, j \in 1..Len(log[m]) : i =< j => log[m][i].term =< log[m][j].term
    BY DEF TermsOrdered
  <2>2. term[n] \in Nat /\ 1 =< term[n]
    <3>1. Len(log[n]) \in 1..Len(log[n]) /\ log[n][Len(log[n])].term = term[n]
      BY <1>1, <1>2 DEF LeaderLast
    <3> QED
      BY <1>1, <3>1 DEF TermsOrdered
  <2>3. \A i \in 1..Len(log'[m]) :
          \/ i \in 1..Len(log[m]) /\ log'[m][i] = log[m][i]
          \/ m = n /\ i = Len(log[m]) + 1 /\ log'[m][i].term = term[m]
    BY <1>2
  <2>4. \A i \in 1..Len(log'[m]) : 1 =< log'[m][i].term /\ log'[m][i].term =< term[m]
    BY <2>1, <2>2, <2>3
  <2>5. ASSUME NEW i \in 1..Len(log'[m]), NEW j \in 1..Len(log'[m]), i =< j
        PROVE  log'[m][i].term =< log'[m][j].term
    <3>1. CASE j \in 1..Len(log[m])
      <4>1. i \in 1..Len(log[m])
        BY <1>2, <2>5, <3>1
      <4> QED
        BY <1>2, <2>1, <2>5, <3>1, <4>1
    <3>2. CASE j = Len(log[m]) + 1 /\ log'[m][j].term = term[m]
      BY <2>4, <3>2
    <3> QED
      BY <2>3, <3>1, <3>2
  <2> QED
    BY <2>4, <2>5
<1>6. LeaderLast' /\ OneLeader' /\ Voted'
  <2>1. LeaderLast'
    <3> SUFFICES ASSUME NEW l \in leads
                 PROVE  Len(log'[l]) >= 1 /\ log'[l][Len(log'[l])].term = term[l]
      BY DEF LeaderLast
    <3>1. CASE l = n
      BY <1>1, <1>2, <3>1
    <3>2. CASE l # n
      BY <1>1, <1>2, <3>2 DEF LeaderLast
    <3> QED
      BY <3>1, <3>2
  <2> QED
    BY <2>1 DEF OneLeader, Voted
<1>7. LeaderHasAll'
  <2> SUFFICES ASSUME NEW l \in leads, NEW m \in Node, NEW i \in 1..Len(log'[m]),
                      log'[m][i].term = term[l]
               PROVE  Same(log'[m], log'[l], i)
    BY DEF LeaderHasAll
  <2>1. l \in Node
    BY <1>1
  <2>2. CASE i \in 1..Len(log[m])
    <3>1. Same(log[m], log[l], i) /\ i \in Nat
      BY <1>2, <2>2 DEF LeaderHasAll
    <3> QED
      BY <1>2, <2>1, <3>1
  <2>3. CASE m = n /\ i = Len(log[n]) + 1
    <3>1. l = n
      BY <1>2, <2>3 DEF OneLeader
    <3>2. log'[n] \in Seq(Entry) /\ i \in Nat /\ i =< Len(log'[n])
      BY <1>1, <1>2, <2>3
    <3> QED
      BY <2>3, <3>1, <3>2, SameRefl
  <2> QED
    BY <1>2, <2>2, <2>3
<1>8. LogMatching'
  <2> SUFFICES ASSUME NEW a \in Node, NEW b \in Node,
                      NEW i \in 1..Len(log'[a]), NEW j \in 1..Len(log'[b]),
                      i =< j, log'[a][i].term = log'[b][j].term
               PROVE  Same(log'[a], log'[b], i)
    BY DEF LogMatching
  <2>1. CASE i \in 1..Len(log[a]) /\ j \in 1..Len(log[b])
    <3>1. Same(log[a], log[b], i) /\ i \in Nat
      BY <1>2, <2>1 DEF LogMatching
    <3> QED
      BY <1>2, <3>1
  <2>2. CASE i \in 1..Len(log[a]) /\ b = n /\ j = Len(log[n]) + 1
    <3>1. log[a][i].term = term[n]
      BY <1>2, <2>2
    <3>2. Same(log[a], log[b], i) /\ i \in Nat
      BY <2>2, <3>1 DEF LeaderHasAll
    <3> QED
      BY <1>2, <3>2
  <2>3. CASE a = n /\ i = Len(log[n]) + 1
    <3>1. CASE b = n
      <4>1. log'[n] \in Seq(Entry) /\ i \in Nat /\ i =< Len(log'[n])
        BY <1>1, <1>2, <2>3
      <4> QED
        BY <2>3, <3>1, <4>1, SameRefl
    <3>2. CASE b # n
      <4>1. j \in 1..Len(log[b]) /\ log[b][j].term = term[n]
        BY <1>2, <2>3, <3>2
      <4>2. Same(log[b], log[n], j)
        BY <4>1 DEF LeaderHasAll
      <4>3. j =< Len(log[n]) /\ j \in Nat /\ Len(log[n]) \in Nat
        BY <1>1, <1>2, <4>1, <4>2 DEF Same
      <4> QED
        BY <2>3, <4>3
    <3> QED
      BY <3>1, <3>2
  <2> QED
    BY <1>2, <2>1, <2>2, <2>3
<1>9. Acknowledged'
  <2> SUFFICES ASSUME NEW l \in leads, NEW m \in Node
               PROVE  /\ match[l][m] =< Len(log'[l])
                      /\ \A i \in 1..match[l][m] : log'[l][i].term = term[l] =>
                           Same(log'[l], log'[m], i) \/ LastTerm(log'[m]) > term[l]
    BY DEF Acknowledged, Newer
  <2>1. l \in Node /\ match[l][m] =< Len(log[l]) /\ match[l][m] \in Nat
    BY <1>1 DEF Acknowledged, RaftTyped
  <2>2. match[l][m] =< Len(log'[l])
    BY <1>2, <2>1
  <2>3. ASSUME NEW i \in 1..match[l][m], log'[l][i].term = term[l]
        PROVE  Same(log'[l], log'[m], i) \/ LastTerm(log'[m]) > term[l]
    <3>1. i \in 1..Len(log[l]) /\ i \in Nat
      BY <1>2, <2>1, <2>3
    <3>2. Same(log[l], log[m], i) \/ LastTerm(log[m]) > term[l]
      BY <1>2, <2>1, <2>3, <3>1 DEF Acknowledged, Newer
    <3> QED
      BY <1>2, <1>3, <2>1, <3>1, <3>2
  <2> QED
    BY <2>2, <2>3
<1>10. Electable'
  <2> SUFFICES ASSUME NEW l \in leads, NEW i \in 1..Len(log'[l]), log'[l][i].term = term[l],
                      NEW w \in Node, LastTerm(log[w]) > term[l],
                      ~ Same(log'[l], log'[w], i)
               PROVE  Closed(l, i)
    BY <1>3 DEF Electable, Newer, Closed
  <2>1. l \in Node
    BY <1>1
  <2>2. CASE i \in 1..Len(log[l])
    <3>1. log[l][i].term = term[l] /\ ~ Same(log[l], log[w], i)
      BY <1>2, <2>1, <2>2
    <3> QED
      BY <2>1, <2>2, <3>1 DEF Electable, Newer
  <2>3. CASE l = n /\ i = Len(log[n]) + 1
    <3>1. term[w] > 0 /\ term[w] > term[n]
      BY <1>1, <2>3, LastTermFacts
    <3>2. PICK P \in Quorum : \A o \in P : term[o] >= term[w]
      BY <3>1 DEF Voted
    <3>3. \A o \in P : term[o] > term[l] /\ match[l][o] < i
      <4> SUFFICES ASSUME NEW o \in P PROVE term[o] > term[l] /\ match[l][o] < i
        OBVIOUS
      <4>1. o \in Node
        BY DEF Quorum
      <4>2. term[o] \in Nat /\ term[w] \in Nat /\ term[n] \in Nat /\ term[o] >= term[w]
        BY <1>1, <3>2, <4>1
      <4>3. match[n][o] =< Len(log[n]) /\ match[n][o] \in Nat /\ Len(log[n]) \in Nat
        BY <1>1, <1>2, <4>1 DEF Acknowledged, RaftTyped
      <4> QED
        BY <2>3, <3>1, <4>2, <4>3
    <3> QED
      BY <3>3 DEF Closed
  <2> QED
    BY <1>2, <2>1, <2>2, <2>3
<1>11. CommitsSafe'
  <2> SUFFICES ASSUME NEW a \in Node
               PROVE  commit[a] =< Len(log'[a]) /\ (commit[a] > 0 => CommitSafe(a, commit[a])')
    BY DEF CommitsSafe
  <2>1. commit[a] =< Len(log[a]) /\ commit[a] \in Nat /\ commit[a] =< Len(log'[a])
    BY <1>1, <1>2 DEF CommitsSafe
  <2>2. ASSUME commit[a] > 0 PROVE CommitSafe(a, commit[a])'
    <3>1. CommitSafe(a, commit[a]) /\ commit[a] \in 1..Len(log[a])
      BY <1>2, <2>1, <2>2 DEF CommitsSafe
    <3>2. log'[a][commit[a]] = log[a][commit[a]]
      BY <1>2, <3>1
    <3>3. \A o \in Node : Same(log[a], log[o], commit[a]) => Same(log'[a], log'[o], commit[a])
      BY <1>2, <2>1
    <3>4. PICK P \in Quorum : \A o \in P : Same(log[a], log[o], commit[a])
      BY <3>1 DEF CommitSafe
    <3>5. \A o \in P : Same(log'[a], log'[o], commit[a])
      BY <3>3, <3>4 DEF Quorum
    <3>6. \A o \in Node : LastTerm(log'[o]) > log'[a][commit[a]].term => Same(log'[a], log'[o], commit[a])
      BY <1>3, <3>1, <3>2, <3>3 DEF CommitSafe, Newer
    <3> QED
      BY <3>5, <3>6 DEF CommitSafe, Newer
  <2> QED
    BY <2>1, <2>2
<1> QED
  BY <1>4, <1>5, <1>6, <1>7, <1>8, <1>9, <1>10, <1>11

-----------------------------------------------------------------------------
(* Blocks, logs and ledgers.                                               *)

\* The block of a log entry is a block, and it is empty exactly for an entry Raft wrote itself.
LEMMA EntryBlock ==
  ASSUME NEW lg \in Seq(Entry), NEW k \in 1..Len(lg)
  PROVE  /\ lg[k].block \in Block /\ Len(lg[k].block) \in Nat
         /\ lg[k].block # NoBlock <=> Len(lg[k].block) >= 1
<1>1. lg[k] \in Entry
  OBVIOUS
<1>2. lg[k].block \in Seq([term : Nat, config : BOOLEAN])
  BY <1>1 DEF Entry, Block
<1> QED
  BY <1>2 DEF Block, NoBlock

\* The types of the fields of a chain.
LEMMA ChainFields ==
  ASSUME NEW s \in Chain
  PROVE  /\ s.leading \in BOOLEAN /\ s.justElected \in BOOLEAN /\ s.configInflight \in BOOLEAN
         /\ s.blockInflight \in Int /\ s.accepting \in BOOLEAN /\ s.bc \in Seq(Block)
         /\ s.epoch \in Nat /\ s.propC \in Seq(Block) /\ s.proposing \in BOOLEAN
         /\ s.cutter \in [batch : Seq(Message), bytes : Int] /\ s.ticking \in BOOLEAN
         /\ s.blocks \in Seq(Written) /\ s.applied \in Nat /\ s.next \in Nat
         /\ s.panicked \in BOOLEAN /\ Len(s.blocks) \in Nat /\ Len(s.propC) \in Nat
         /\ \A j \in 1..Len(s.blocks) : s.blocks[j].index \in Nat /\ s.blocks[j].block \in Block
<1>1. s.blocks \in Seq(Written) /\ s.propC \in Seq(Block)
  BY DEF Chain
<1>2. \A j \in 1..Len(s.blocks) : s.blocks[j].index \in Nat /\ s.blocks[j].block \in Block
  <2> SUFFICES ASSUME NEW j \in 1..Len(s.blocks)
               PROVE  s.blocks[j].index \in Nat /\ s.blocks[j].block \in Block
    OBVIOUS
  <2>1. s.blocks[j] \in Written
    BY <1>1
  <2> QED
    BY <2>1 DEF Written
<1>3. Len(s.blocks) \in Nat /\ Len(s.propC) \in Nat
  BY <1>1
<1> QED
  BY <1>1, <1>2, <1>3 DEF Chain

\* The ledger depends on what was committed only.
LEMMA LedgerKept ==
  ASSUME NEW s \in Chain, NEW x \in Seq(Entry), NEW y \in Seq(Entry), NEW c \in Nat, NEW d \in Nat,
         Ledger(s, x, c), Same(x, y, c), c =< d
  PROVE  Ledger(s, y, d)
<1>1. s.applied \in Nat /\ s.applied =< c /\ s.applied =< d
  BY ChainFields DEF Ledger
<1>2. \A k \in 1..s.applied : x[k] = y[k]
  BY <1>1 DEF Same
<1>3. 1 =< s.next /\ s.next =< s.applied + 1
  BY DEF Ledger
<1>4. ASSUME NEW j \in 1..Len(s.blocks)
      PROVE  /\ s.blocks[j].index \in 1..s.applied
             /\ y[s.blocks[j].index].block = s.blocks[j].block
             /\ Len(s.blocks[j].block) = j
  BY <1>2 DEF Ledger
<1>5. ASSUME NEW k \in 1..s.applied, y[k].block # NoBlock
      PROVE  Len(y[k].block) =< Len(s.blocks) /\ s.blocks[Len(y[k].block)].index = k
  BY <1>2, <1>5 DEF Ledger
<1> QED
  BY <1>1, <1>3, <1>4, <1>5 DEF Ledger

\* The blocks of a ledger have increasing Raft indices.
LEMMA LedgerOrdered ==
  ASSUME NEW s \in Chain, NEW lg \in Seq(Entry), NEW c \in 0..Len(lg),
         Chained(lg), Ledger(s, lg, c),
         NEW i \in 1..Len(s.blocks), NEW j \in 1..Len(s.blocks), i < j
  PROVE  s.blocks[i].index < s.blocks[j].index
<1>1. PICK p \in 1..s.applied : p = s.blocks[i].index /\ Len(lg[p].block) = i
  BY DEF Ledger
<1>2. PICK q \in 1..s.applied : q = s.blocks[j].index /\ Len(lg[q].block) = j
  BY DEF Ledger
<1>3. s.applied \in Nat /\ s.applied =< c /\ Len(s.blocks) \in Nat /\ Len(lg) \in Nat
  BY ChainFields DEF Ledger
<1>4. p \in 1..Len(lg) /\ q \in 1..Len(lg) /\ p \in Nat /\ q \in Nat
  BY <1>3
<1>5. i \in Nat /\ j \in Nat /\ i >= 1 /\ j >= 1
  BY <1>3
<1>6. lg[p].block # NoBlock /\ lg[q].block # NoBlock
  <2>1. Len(lg[p].block) >= 1 /\ Len(lg[q].block) >= 1
    BY <1>1, <1>2, <1>5
  <2> QED
    BY <1>4, <2>1, EntryBlock
<1>7. p # q
  BY <1>1, <1>2
<1>8. ~ (q < p)
  <2> SUFFICES ASSUME q < p PROVE FALSE
    OBVIOUS
  <2>1. Len(lg[q].block) < Len(lg[p].block)
    BY <1>4, <1>6 DEF Chained
  <2> QED
    BY <1>1, <1>2, <1>5, <2>1
<1> QED
  BY <1>1, <1>2, <1>4, <1>7, <1>8

\* A chain that starts from a part of its ledger: blocks up to the applied index again.
LEMMA LedgerRestarts ==
  ASSUME NEW s \in Chain, NEW lg \in Seq(Entry), NEW c \in 0..Len(lg),
         Chained(lg), Ledger(s, lg, c), NEW j \in 0..Len(s.blocks), NEW r \in Chain,
         r.blocks = SubSeq(s.blocks, 1, j), r.next = 1,
         r.applied = IF r.blocks = << >> THEN 0 ELSE r.blocks[Len(r.blocks)].index
  PROVE  Ledger(r, lg, c)
<1>1. /\ s.applied \in Nat /\ s.applied =< c /\ Len(s.blocks) \in Nat /\ Len(lg) \in Nat
      /\ s.blocks \in Seq(Written) /\ r.applied \in Nat /\ j \in Nat
  BY ChainFields DEF Ledger
<1>2. Len(r.blocks) = j /\ \A i \in 1..j : r.blocks[i] = s.blocks[i]
  BY <1>1
<1>3. CASE j = 0
  <2>1. r.applied = 0
    BY <1>2, <1>3, ChainFields
  <2>2. 1..Len(r.blocks) = {} /\ 1..r.applied = {}
    BY <1>2, <1>3, <2>1
  <2>3. r.applied =< c /\ 1 =< r.next /\ r.next =< r.applied + 1
    BY <1>1, <2>1
  <2> QED
    BY <2>2, <2>3 DEF Ledger
<1>4. CASE j # 0
  <2>1. r.blocks # << >>
    BY <1>2, <1>4
  <2>2. j \in 1..j /\ j \in 1..Len(s.blocks) /\ r.blocks # << >>
    <3>1. \A a, b \in Nat : a \in 0..b /\ a # 0 => a \in 1..a /\ a \in 1..b
      OBVIOUS
    <3> QED
      BY <1>1, <1>4, <2>1, <3>1, Zenon
  <2>3. r.applied = s.blocks[j].index
    BY <1>2, <2>2
  <2>4. /\ r.applied \in 1..s.applied /\ lg[r.applied].block = s.blocks[j].block
        /\ Len(s.blocks[j].block) = j
    BY <2>2, <2>3 DEF Ledger
  <2>5. ASSUME NEW i \in 1..j PROVE s.blocks[i].index \in 1..r.applied
    <3>1. i \in 1..Len(s.blocks)
      BY <1>1
    <3>2. PICK k \in 1..s.applied : k = s.blocks[i].index
      BY <3>1 DEF Ledger
    <3>3. CASE i = j
      <4>1. \A a, b \in Nat : a \in 1..b => a \in 1..a
        OBVIOUS
      <4>2. r.applied \in 1..r.applied
        BY <1>1, <2>4, <4>1, Zenon
      <4> QED
        BY <2>3, <3>3, <4>2
    <3>4. CASE i # j
      <4>1. i < j
        BY <1>1, <3>4
      <4>2. k < r.applied
        BY <2>2, <2>3, <3>1, <3>2, <4>1, LedgerOrdered
      <4>3. k \in 1..r.applied
        <5>1. \A a, b \in Nat : \A d \in 1..a : d < b => d \in 1..b
          OBVIOUS
        <5> QED
          BY <1>1, <4>2, <5>1, Zenon
      <4> QED
        BY <3>2, <4>3
    <3> QED
      BY <3>3, <3>4
  <2>6. ASSUME NEW i \in 1..Len(r.blocks)
        PROVE  /\ r.blocks[i].index \in 1..r.applied
               /\ lg[r.blocks[i].index].block = r.blocks[i].block
               /\ Len(r.blocks[i].block) = i
    <3>1. i \in 1..Len(s.blocks) /\ r.blocks[i] = s.blocks[i] /\ i \in 1..j
      BY <1>1, <1>2
    <3> QED
      BY <2>5, <3>1 DEF Ledger
  <2>7. ASSUME NEW k \in 1..r.applied, lg[k].block # NoBlock
        PROVE  Len(lg[k].block) =< Len(r.blocks) /\ r.blocks[Len(lg[k].block)].index = k
    <3>1. k \in 1..s.applied /\ k \in 1..Len(lg) /\ k \in Nat
      BY <1>1, <2>4, SMTT(30)
    <3>2. PICK b \in Nat : b = Len(lg[k].block) /\ b >= 1
      BY <2>7, <3>1, EntryBlock
    <3>3. b \in 1..Len(s.blocks) /\ s.blocks[b].index = k
      BY <1>1, <2>7, <3>1, <3>2 DEF Ledger
    <3>4. ~ (j < b)
      <4> SUFFICES ASSUME j < b PROVE FALSE
        OBVIOUS
      <4>1. s.blocks[j].index < s.blocks[b].index
        BY <2>2, <3>3, LedgerOrdered
      <4> QED
        <5>1. \A x, y \in Nat : y \in 1..x => ~ (x < y)
          OBVIOUS
        <5>2. r.applied < k
          BY <2>3, <3>3, <4>1, Zenon
        <5> QED
          BY <1>1, <3>1, <5>1, <5>2, Zenon
    <3>5. b \in 1..j
      BY <1>1, <3>2, <3>4
    <3> QED
      BY <1>2, <3>2, <3>3, <3>5
  <2>8. r.applied =< c /\ 1 =< r.next /\ r.next =< r.applied + 1
    BY <1>1, <2>4
  <2> QED
    BY <2>6, <2>7, <2>8 DEF Ledger
<1> QED
  BY <1>3, <1>4

\* The next block of the log follows the last block of the ledger.
LEMMA NextBlock ==
  ASSUME NEW s \in Chain, NEW lg \in Seq(Entry), NEW c \in 0..Len(lg),
         Chained(lg), Ledger(s, lg, c), s.applied + 1 =< c,
         lg[s.applied + 1].block # NoBlock
  PROVE  LET b == lg[s.applied + 1].block
         IN  Len(b) = Len(s.blocks) + 1 /\ Prefix(b) = LastBlock(s)
<1>1. PICK p \in 1..Len(lg) : p = s.applied + 1
  BY ChainFields
<1>2. PICK b \in Block : b = lg[p].block
  BY EntryBlock
<1>3. /\ b \in Seq([term : Nat, config : BOOLEAN]) /\ Len(b) \in Nat /\ Len(b) >= 1
      /\ Len(s.blocks) \in Nat /\ s.applied \in Nat /\ p \in Nat
  <2>1. Len(lg[p].block) >= 1
    BY <1>1, EntryBlock
  <2> QED
    BY <1>1, <1>2, <2>1, ChainFields DEF Block
<1>4. Len(s.blocks) < Len(b)
  <2> SUFFICES ASSUME Len(s.blocks) >= Len(b) PROVE FALSE
    BY <1>3
  <2>1. PICK j \in 1..Len(s.blocks) : j = Len(s.blocks)
    BY <1>3
  <2>2. PICK i \in 1..s.applied : i = s.blocks[j].index /\ Len(lg[i].block) = j
    BY DEF Ledger
  <2>3. i \in 1..Len(lg) /\ i < p
    <3>1. PICK a \in Nat : a = s.applied
      BY <1>3
    <3>2. i \in 1..a /\ p = a + 1 /\ p \in 1..Len(lg) /\ Len(lg) \in Nat
      BY <1>1, <2>2, <3>1
    <3> QED
      BY <3>2
  <2>4. lg[i].block # NoBlock
    BY <1>3, <2>1, <2>2, <2>3, EntryBlock
  <2>5. Len(lg[i].block) < Len(b)
    BY <1>1, <1>2, <2>3, <2>4 DEF Chained
  <2> QED
    BY <1>3, <2>1, <2>2, <2>5
<1>5. CASE Len(b) = 1
  <2>1. Len(s.blocks) = 0
    BY <1>3, <1>4, <1>5
  <2>2. s.blocks = << >>
    BY <2>1, ChainFields
  <2>3. Prefix(b) = << >>
    BY <1>3, <1>5 DEF Prefix
  <2> QED
    BY <1>1, <1>2, <1>5, <2>1, <2>2, <2>3 DEF LastBlock, NoBlock
<1>6. CASE Len(b) > 1
  <2>1. PICK i \in 1..(p - 1) : lg[i].block = Prefix(b)
    BY <1>2, <1>6 DEF Chained
  <2>2. i \in 1..s.applied /\ i \in 1..Len(lg)
    BY <1>1, <1>3
  <2>3. Len(Prefix(b)) = Len(b) - 1
    BY <1>3, <1>6 DEF Prefix
  <2>4. lg[i].block # NoBlock
    BY <1>3, <1>6, <2>1, <2>2, <2>3, EntryBlock
  <2>5. Len(b) - 1 =< Len(s.blocks) /\ s.blocks[Len(b) - 1].index = i
    BY <2>1, <2>2, <2>3, <2>4 DEF Ledger
  <2>6. Len(s.blocks) = Len(b) - 1
    BY <1>3, <1>4, <2>5
  <2>7. PICK j \in 1..Len(s.blocks) : j = Len(s.blocks) /\ j = Len(b) - 1
    BY <1>3, <1>6, <2>6
  <2>8. s.blocks[j].block = Prefix(b)
    BY <2>1, <2>5, <2>7 DEF Ledger
  <2>9. s.blocks # << >>
    BY <1>3, <1>6, <2>6
  <2> QED
    BY <1>1, <1>2, <1>3, <2>6, <2>7, <2>8, <2>9 DEF LastBlock
<1>7. Len(b) = 1 \/ Len(b) > 1
  <2>1. \A i \in Nat : i >= 1 => i = 1 \/ i > 1
    OBVIOUS
  <2> QED
    BY <1>3, <2>1, Zenon
<1> QED
  BY <1>5, <1>6, <1>7, Zenon

\* A log that gets an empty entry, or a block that follows the last one.
LEMMA ChainedAppend ==
  ASSUME NEW lg \in Seq(Entry), NEW e \in Entry, Chained(lg),
         \/ e.block = NoBlock
         \/ /\ \A k \in 1..Len(lg) : Len(lg[k].block) < Len(e.block)
            /\ Len(e.block) > 1 => \E j \in 1..Len(lg) : lg[j].block = Prefix(e.block)
  PROVE  Chained(Append(lg, e))
<1> DEFINE new == Append(lg, e)
<1>1. /\ Len(lg) \in Nat /\ Len(new) = Len(lg) + 1 /\ new[Len(lg) + 1] = e
      /\ \A k \in 1..Len(lg) : new[k] = lg[k]
  OBVIOUS
<1> HIDE DEF new
<1>2. \A k \in 1..Len(new) : k \in 1..Len(lg) \/ k = Len(lg) + 1
  BY <1>1
<1>3. ASSUME NEW j \in 1..Len(new), NEW k \in 1..Len(new), j < k,
             new[j].block # NoBlock, new[k].block # NoBlock
      PROVE  Len(new[j].block) < Len(new[k].block)
  <2>1. j \in 1..Len(lg) /\ new[j] = lg[j]
    BY <1>1, <1>2, <1>3
  <2>2. CASE k \in 1..Len(lg)
    BY <1>1, <1>3, <2>1, <2>2 DEF Chained
  <2>3. CASE k = Len(lg) + 1
    BY <1>1, <1>3, <2>1, <2>3
  <2> QED
    BY <1>2, <2>2, <2>3
<1>4. ASSUME NEW k \in 1..Len(new), Len(new[k].block) > 1
      PROVE  \E j \in 1..(k - 1) : new[j].block = Prefix(new[k].block)
  <2>1. CASE k \in 1..Len(lg)
    <3>1. PICK j \in 1..(k - 1) : lg[j].block = Prefix(lg[k].block)
      BY <1>1, <1>4, <2>1 DEF Chained
    <3>2. j \in 1..Len(lg)
      BY <1>1, <2>1
    <3> QED
      BY <1>1, <2>1, <3>1, <3>2
  <2>2. CASE k = Len(lg) + 1
    <3>1. e.block # NoBlock
      BY <1>1, <1>4, <2>2 DEF NoBlock
    <3>2. PICK j \in 1..Len(lg) : lg[j].block = Prefix(e.block)
      BY <1>1, <1>4, <2>2, <3>1
    <3>3. j \in 1..(k - 1)
      BY <1>1, <2>2
    <3> QED
      BY <1>1, <2>2, <3>2, <3>3
  <2> QED
    BY <1>2, <2>1, <2>2
<1> QED
  BY <1>3, <1>4 DEF Chained, new

-----------------------------------------------------------------------------
(* The operations on a chain.                                              *)

\* A chain that has been started, or that has panicked, with these blocks in its ledger.
Fresh(r, blocks) == r = Started(blocks) \/ r = [Started(blocks) EXCEPT !.panicked = TRUE]

\* What a chain holds when run starts it: its ledger, and nothing of the run before.
LEMMA StartedFacts ==
  ASSUME NEW blocks \in Seq(Written), NEW r, Fresh(r, blocks)
  PROVE  /\ r \in Chain /\ r.blocks = blocks /\ r.next = 1
         /\ r.applied = IF blocks = << >> THEN 0 ELSE blocks[Len(blocks)].index
         /\ ~r.leading /\ ~r.justElected /\ ~r.configInflight /\ r.propC = << >> /\ ~r.ticking
         /\ r.bc = << >> /\ r.cutter.batch = << >>
         /\ r.blockInflight = 0 /\ r.accepting
<1>1. blocks # << >> => blocks[Len(blocks)].index \in Nat
  <2> SUFFICES ASSUME blocks # << >> PROVE blocks[Len(blocks)].index \in Nat
    OBVIOUS
  <2>1. blocks[Len(blocks)] \in Written
    OBVIOUS
  <2> QED
    BY <2>1 DEF Written
<1>2. EmptyReceiver \in [batch : Seq(Message), bytes : Int] /\ EmptyReceiver.batch = << >>
  BY DEF EmptyReceiver
<1>3. << >> \in Seq(Block)
  OBVIOUS
<1>4. Started(blocks) \in Chain
  BY <1>1, <1>2, <1>3 DEF Started, Chain
<1>5. [Started(blocks) EXCEPT !.panicked = TRUE] \in Chain
  BY <1>4 DEF Chain
<1>6. CASE r = Started(blocks)
  BY <1>2, <1>4, <1>6 DEF Started
<1>7. CASE r = [Started(blocks) EXCEPT !.panicked = TRUE]
  BY <1>2, <1>5, <1>7 DEF Started
<1> QED
  BY <1>6, <1>7 DEF Fresh

\* Appending to a sequence.
LEMMA AppendSeq ==
  ASSUME NEW S, NEW x \in Seq(S), NEW e \in S
  PROVE  /\ Append(x, e) \in Seq(S) /\ Len(Append(x, e)) = Len(x) + 1
         /\ Append(x, e)[Len(x) + 1] = e
         /\ \A i \in 1..Len(x) : Append(x, e)[i] = x[i]
OBVIOUS

\* A prefix of a sequence.
LEMMA SubSeqFacts ==
  ASSUME NEW S, NEW x \in Seq(S), NEW j \in 0..Len(x)
  PROVE  /\ SubSeq(x, 1, j) \in Seq(S) /\ Len(SubSeq(x, 1, j)) = j
         /\ \A i \in 1..j : SubSeq(x, 1, j)[i] = x[i]
OBVIOUS

\* Such a chain is in order, whatever its Raft node does.
LEMMA StartedOK ==
  ASSUME NEW s \in Chain, NEW lg \in Seq(Entry), NEW c \in 0..Len(lg), NEW lead \in BOOLEAN,
         Chained(lg), Ledger(s, lg, c), NEW j \in 0..Len(s.blocks),
         NEW r, Fresh(r, SubSeq(s.blocks, 1, j))
  PROVE  r \in Chain /\ ChainOK(r, lg, c, lead)
<1>1. s.blocks \in Seq(Written) /\ Len(s.blocks) \in Nat
  BY ChainFields
<1>2. PICK bs \in Seq(Written) : bs = SubSeq(s.blocks, 1, j)
  BY <1>1, SubSeqFacts
<1>3. Fresh(r, bs)
  BY <1>2, Zenon
<1>4. /\ r \in Chain /\ r.blocks = bs /\ r.next = 1
      /\ r.applied = IF bs = << >> THEN 0 ELSE bs[Len(bs)].index
      /\ ~r.leading /\ r.propC = << >> /\ ~r.ticking
      /\ r.bc = << >> /\ r.cutter.batch = << >>
  BY <1>3, StartedFacts
<1>5. Ledger(r, lg, c)
  BY <1>2, <1>4, LedgerRestarts
<1> QED
  BY <1>4, <1>5 DEF ChainOK, RoleOK, BarrierOK, Idle

\* What applying an entry leaves alone.
SameRole(r, s) ==
  /\ r.leading = s.leading /\ r.justElected = s.justElected /\ r.accepting = s.accepting
  /\ r.bc = s.bc /\ r.propC = s.propC /\ r.proposing = s.proposing
  /\ r.cutter = s.cutter /\ r.ticking = s.ticking

\* apply of the next committed entry keeps the ledger in step with the log, and either writes
\* nothing or the block of the first entry not applied yet, which has the next number.
LEMMA ApplyFacts ==
  ASSUME NEW s \in Chain, NEW lg \in Seq(Entry), NEW c \in 0..Len(lg),
         Chained(lg), Ledger(s, lg, c), s.next =< c,
         NEW r, r = apply(s, lg[s.next], s.next)
  PROVE  /\ r \in Chain /\ SameRole(r, s) /\ r.applied >= s.applied
         /\ Ledger(r, lg, c)
         /\ \/ r.blocks = s.blocks /\ r.configInflight = s.configInflight
            \/ LET b == lg[s.applied + 1].block IN
               /\ s.applied + 1 =< c /\ b # NoBlock
               /\ Len(b) = Len(s.blocks) + 1 /\ Len(r.blocks) = Len(s.blocks) + 1
               /\ r.configInflight = IF IsConfigBlock(b) THEN FALSE ELSE s.configInflight
<1>1. /\ s.applied \in Nat /\ s.next \in Nat /\ s.next >= 1 /\ s.next =< s.applied + 1
      /\ s.applied =< c /\ Len(lg) \in Nat /\ Len(s.blocks) \in Nat /\ c =< Len(lg) /\ c \in Nat
      /\ s.blocks \in Seq(Written) /\ s.blockInflight \in Int
  BY ChainFields DEF Ledger
<1>2. PICK p \in 1..Len(lg) : p = s.next /\ p \in Nat /\ p =< c
  BY <1>1
<1>3. lg[p].block \in Block
  BY EntryBlock
<1>4. CASE lg[p].block = NoBlock \/ p =< s.applied
  <2>1. r = [s EXCEPT !.applied = MaxOf(s.applied, p), !.next = p + 1]
    BY <1>2, <1>4 DEF apply
  <2>2. PICK a \in Nat : a = MaxOf(s.applied, p)
    BY <1>1, <1>2 DEF MaxOf
  <2>3. r \in Chain /\ r.applied = a /\ r.next = p + 1 /\ r.blocks = s.blocks
        /\ r.configInflight = s.configInflight /\ SameRole(r, s)
    <3>1. p + 1 \in Nat
      BY <1>2
    <3>2. PICK q \in Nat : q = p + 1
      BY <3>1
    <3>3. r = [s EXCEPT !.applied = a, !.next = q]
      BY <2>1, <2>2, <3>2
    <3>4. r \in Chain
      BY <3>3 DEF Chain
    <3>5. r.applied = a /\ r.next = q /\ r.blocks = s.blocks /\ r.configInflight = s.configInflight
      BY <3>3 DEF Chain
    <3>6. SameRole(r, s)
      BY <3>3 DEF Chain, SameRole
    <3> QED
      BY <3>2, <3>4, <3>5, <3>6
  <2>4. a >= s.applied /\ a =< c /\ p + 1 =< a + 1 /\ (a = s.applied \/ a = p)
    BY <1>1, <1>2, <2>2 DEF MaxOf
  <2>5. \A k \in 1..a : k \in 1..s.applied \/ (k = p /\ k = s.applied + 1)
    BY <1>1, <1>2, <2>4
  <2>6. ASSUME NEW j \in 1..Len(s.blocks)
        PROVE  /\ s.blocks[j].index \in 1..a
               /\ lg[s.blocks[j].index].block = s.blocks[j].block
               /\ Len(s.blocks[j].block) = j
    <3>1. \A k \in 1..s.applied : k \in 1..a
      BY <1>1, <2>4
    <3> QED
      BY <3>1 DEF Ledger
  <2>7. ASSUME NEW k \in 1..a, lg[k].block # NoBlock
        PROVE  Len(lg[k].block) =< Len(s.blocks) /\ s.blocks[Len(lg[k].block)].index = k
    <3>1. k \in 1..s.applied
      BY <1>1, <1>4, <2>5, <2>7
    <3> QED
      BY <2>7, <3>1 DEF Ledger
  <2>8. Ledger(r, lg, c)
    <3>1. r.applied =< c /\ 1 =< r.next /\ r.next =< r.applied + 1
      BY <1>2, <2>3, <2>4
    <3> QED
      BY <2>3, <2>6, <2>7, <3>1 DEF Ledger
  <2> QED
    BY <2>3, <2>4, <2>8
<1>5. CASE ~ (lg[p].block = NoBlock \/ p =< s.applied)
  <2>1. p = s.applied + 1 /\ s.applied + 1 =< c
    BY <1>1, <1>2, <1>5
  <2>2. PICK b \in Block : b = lg[p].block /\ b # NoBlock
    BY <1>3, <1>5
  <2>3. /\ Len(b) = Len(s.blocks) + 1 /\ Prefix(b) = LastBlock(s)
        /\ Len(b) \in Nat
    <3>1. Len(b) = Len(s.blocks) + 1 /\ Prefix(b) = LastBlock(s)
      BY <1>5, <2>1, <2>2, NextBlock
    <3> QED
      BY <1>1, <3>1
  <2> DEFINE t == IF IsConfigBlock(b) THEN writeConfigBlock(s) ELSE s
             w == [block |-> b, index |-> p]
  <2>4. apply(s, lg[p], p) = [[t EXCEPT !.blockInflight = MaxOf(t.blockInflight - 1, 0),
                                        !.blocks = Append(t.blocks, w)]
                              EXCEPT !.applied = MaxOf(@, p), !.next = p + 1]
    <3>1. ~ (Len(b) < Len(s.blocks) + 1) /\ ~ (Len(b) > Len(s.blocks) + 1 \/ Prefix(b) # LastBlock(s))
      BY <1>1, <2>3
    <3>2. writeBlock(s, b, p) = [t EXCEPT !.blockInflight = MaxOf(t.blockInflight - 1, 0),
                                          !.blocks = Append(t.blocks, w)]
      BY <3>1 DEF writeBlock
    <3> QED
      BY <1>5, <2>2, <3>2 DEF apply
  <2>5. /\ t \in Chain /\ SameRole(t, s) /\ t.blocks = s.blocks /\ t.applied = s.applied
        /\ t.configInflight = IF IsConfigBlock(b) THEN FALSE ELSE s.configInflight
    <3>1. CASE IsConfigBlock(b)
      BY <3>1 DEF writeConfigBlock, Chain, SameRole
    <3>2. CASE ~IsConfigBlock(b)
      BY <3>2 DEF SameRole
    <3> QED
      BY <3>1, <3>2
  <2>6. w \in Written /\ w.block = b /\ w.index = p
    BY <1>2 DEF Written
  <2> HIDE DEF t, w
  <2>7. PICK f \in Int : f = MaxOf(t.blockInflight - 1, 0)
    BY <2>5, ChainFields DEF MaxOf
  <2>8. MaxOf(s.applied, p) = p
    BY <1>1, <1>2, <2>1 DEF MaxOf
  <2>9. PICK bs \in Seq(Written) : bs = Append(s.blocks, w)
    BY <1>1, <2>6, AppendSeq
  <2>10. r = [t EXCEPT !.blockInflight = f, !.blocks = bs, !.applied = p, !.next = p + 1]
    BY <1>2, <2>4, <2>5, <2>7, <2>8, <2>9 DEF Chain
  <2>11. /\ r \in Chain /\ r.applied = p /\ r.next = p + 1 /\ r.blocks = bs
         /\ r.configInflight = t.configInflight /\ SameRole(r, s)
    <3>1. PICK q \in Nat : q = p + 1
      BY <1>2
    <3>2. r = [t EXCEPT !.blockInflight = f, !.blocks = bs, !.applied = p, !.next = q]
      BY <2>10, <3>1
    <3>3. r \in Chain
      BY <1>2, <2>5, <3>2 DEF Chain
    <3>4. r.applied = p /\ r.next = q /\ r.blocks = bs /\ r.configInflight = t.configInflight
      BY <2>5, <3>2 DEF Chain
    <3>5. SameRole(r, t)
      BY <2>5, <3>2 DEF Chain, SameRole
    <3>6. SameRole(r, s)
      BY <2>5, <3>5 DEF SameRole
    <3> QED
      BY <3>1, <3>3, <3>4, <3>6
  <2>12. /\ Len(bs) = Len(s.blocks) + 1 /\ bs[Len(s.blocks) + 1] = w
         /\ \A j \in 1..Len(s.blocks) : bs[j] = s.blocks[j]
    BY <1>1, <2>6, <2>9, AppendSeq
  <2>13. ASSUME NEW j \in 1..Len(bs)
         PROVE  bs[j].index \in 1..p /\ lg[bs[j].index].block = bs[j].block /\ Len(bs[j].block) = j
    <3>1. CASE j \in 1..Len(s.blocks)
      <4>1. \A k \in 1..s.applied : k \in 1..p
        BY <1>1, <2>1
      <4> QED
        BY <2>12, <3>1, <4>1 DEF Ledger
    <3>2. CASE j = Len(s.blocks) + 1
      <4>1. p \in 1..p
        BY <1>2
      <4> QED
        BY <2>2, <2>3, <2>6, <2>12, <3>2, <4>1
    <3> QED
      BY <1>1, <2>12, <3>1, <3>2
  <2>14. ASSUME NEW k \in 1..p, lg[k].block # NoBlock
         PROVE  Len(lg[k].block) =< Len(bs) /\ bs[Len(lg[k].block)].index = k
    <3>1. CASE k = p
      BY <1>1, <2>2, <2>3, <2>6, <2>12, <3>1
    <3>2. CASE k # p
      <4>1. k \in 1..s.applied /\ k \in 1..Len(lg)
        BY <1>1, <2>1, <3>2
      <4>2. PICK i \in Nat : i = Len(lg[k].block) /\ i >= 1
        BY <2>14, <4>1, EntryBlock
      <4>3. i =< Len(s.blocks) /\ s.blocks[i].index = k
        BY <2>14, <4>1, <4>2 DEF Ledger
      <4>4. i \in 1..Len(s.blocks) /\ i =< Len(bs)
        BY <1>1, <2>12, <4>2, <4>3
      <4> QED
        BY <2>12, <4>2, <4>3, <4>4
    <3> QED
      BY <3>1, <3>2
  <2>15. Ledger(r, lg, c)
    <3>1. r.applied =< c /\ 1 =< r.next /\ r.next =< r.applied + 1
      BY <1>2, <2>11
    <3> QED
      BY <2>11, <2>13, <2>14, <3>1 DEF Ledger
  <2>16. r.applied >= s.applied
    BY <1>1, <2>1, <2>11
  <2>17. lg[s.applied + 1].block = b
    BY <2>1, <2>2
  <2>18. LET d == lg[s.applied + 1].block IN
         /\ s.applied + 1 =< c /\ d # NoBlock
         /\ Len(d) = Len(s.blocks) + 1 /\ Len(r.blocks) = Len(s.blocks) + 1
         /\ r.configInflight = IF IsConfigBlock(d) THEN FALSE ELSE s.configInflight
    BY <2>1, <2>2, <2>3, <2>5, <2>11, <2>12, <2>17, Zenon
  <2> QED
    BY <2>11, <2>15, <2>16, <2>18, Zenon
<1> QED
  BY <1>4, <1>5

\* Applying an entry: if it is a config block, it is the one in flight.
LEMMA ApplyOK ==
  ASSUME NEW s \in Chain, NEW lg \in Seq(Entry), NEW c \in 0..Len(lg), NEW lead \in BOOLEAN,
         Chained(lg), ChainOK(s, lg, c, lead), s.leading = lead, s.next =< c,
         NEW r, r = apply(s, lg[s.next], s.next)
  PROVE  r \in Chain /\ ChainOK(r, lg, c, lead) /\ r.leading = lead
<1>1. /\ r \in Chain /\ SameRole(r, s) /\ r.applied >= s.applied
      /\ Ledger(r, lg, c)
      /\ \/ r.blocks = s.blocks /\ r.configInflight = s.configInflight
         \/ LET b == lg[s.applied + 1].block IN
            /\ s.applied + 1 =< c /\ b # NoBlock
            /\ Len(b) = Len(s.blocks) + 1 /\ Len(r.blocks) = Len(s.blocks) + 1
            /\ r.configInflight = IF IsConfigBlock(b) THEN FALSE ELSE s.configInflight
  BY ApplyFacts, ZenonT(30) DEF ChainOK
<1>2. /\ s.applied \in Nat /\ r.applied \in Nat /\ Len(lg) \in Nat /\ Len(s.blocks) \in Nat
      /\ Len(r.blocks) \in Nat /\ s.bc \in Seq(Block)
      /\ r.configInflight \in BOOLEAN /\ s.configInflight \in BOOLEAN
  BY <1>1, ChainFields
<1>3. Len(r.blocks) >= Len(s.blocks) /\ (r.configInflight => s.configInflight)
  <2>1. CASE r.blocks = s.blocks /\ r.configInflight = s.configInflight
    BY <1>2, <2>1
  <2>2. CASE LET b == lg[s.applied + 1].block IN
            /\ s.applied + 1 =< c /\ b # NoBlock
            /\ Len(b) = Len(s.blocks) + 1 /\ Len(r.blocks) = Len(s.blocks) + 1
            /\ r.configInflight = IF IsConfigBlock(b) THEN FALSE ELSE s.configInflight
    BY <1>2, <2>2
  <2> QED
    BY <1>1, <2>1, <2>2
<1>4. Idle(s) => Idle(r)
  <2> SUFFICES ASSUME Idle(s) PROVE Idle(r)
    OBVIOUS
  <2>1. r.propC = << >> /\ ~r.ticking
    BY <1>1 DEF Idle, SameRole
  <2>2. ASSUME r.bc # << >> PROVE Len(r.bc[1]) =< Len(r.blocks)
    <3>1. s.bc # << >> /\ r.bc = s.bc
      BY <1>1, <2>2 DEF SameRole
    <3>2. PICK b \in Block : b = s.bc[1]
      <4>1. Len(s.bc) \in Nat /\ Len(s.bc) # 0
        BY <1>2, <3>1
      <4>2. 1 \in 1..Len(s.bc)
        BY <4>1
      <4> QED
        BY <1>2, <4>2
    <3>3. Len(b) =< Len(s.blocks) /\ Len(b) \in Nat
      BY <3>1, <3>2 DEF Idle, Block
    <3> QED
      BY <1>2, <1>3, <3>1, <3>2, <3>3
  <2> QED
    BY <2>1, <2>2 DEF Idle
<1>5. RoleOK(r)
  <2>1. RoleOK(s)
    BY DEF ChainOK
  <2> QED
    BY <1>1, <1>3, <1>4, <2>1 DEF RoleOK, SameRole
<1>6. ASSUME s.leading, ~s.justElected
      PROVE  /\ s.bc[1] \in Block /\ Len(s.bc[1]) \in Nat
             /\ Pipeline(s, lg, s.bc[1])
             /\ \A i \in 1..Len(s.bc[1]) :
                  s.bc[1][i].config /\ i > Len(s.blocks) => i = Len(s.bc[1]) /\ s.configInflight
  <2>1. Len(s.bc) = 1
    BY <1>6 DEF ChainOK, RoleOK
  <2>2. s.bc[1] \in Block
    BY <1>2, <2>1
  <2> QED
    BY <1>6, <2>2 DEF ChainOK, BarrierOK, Block
<1>7. BarrierOK(r)
  <2> SUFFICES ASSUME r.leading, ~r.justElected, NEW i \in 1..Len(r.bc[1]),
                      r.bc[1][i].config, i > Len(r.blocks)
               PROVE  i = Len(r.bc[1]) /\ r.configInflight
    BY DEF BarrierOK
  <2>1. s.leading /\ ~s.justElected /\ r.bc = s.bc
    BY <1>1 DEF SameRole
  <2>2. PICK bc \in Block : bc = s.bc[1] /\ bc = r.bc[1] /\ Len(bc) \in Nat
    BY <1>6, <2>1
  <2>3. i > Len(s.blocks) /\ i \in Nat
    BY <1>2, <1>3, <2>2
  <2>4. i = Len(bc) /\ s.configInflight
    BY <1>6, <2>1, <2>2, <2>3
  <2>5. CASE r.blocks = s.blocks /\ r.configInflight = s.configInflight
    BY <2>2, <2>4, <2>5
  <2>6. CASE LET b == lg[s.applied + 1].block IN
            /\ s.applied + 1 =< c /\ b # NoBlock
            /\ Len(b) = Len(s.blocks) + 1 /\ Len(r.blocks) = Len(s.blocks) + 1
            /\ r.configInflight = IF IsConfigBlock(b) THEN FALSE ELSE s.configInflight
    <3>1. PICK k \in 1..Len(lg) : k = s.applied + 1 /\ k > s.applied
      <4>1. \A a, d \in Nat : \A e \in 0..d : a + 1 =< e => a + 1 \in 1..d /\ a + 1 > a
        OBVIOUS
      <4>2. s.applied + 1 =< c
        BY <2>6
      <4>3. s.applied + 1 \in 1..Len(lg) /\ s.applied + 1 > s.applied
        BY <1>2, <4>1, <4>2, Zenon
      <4> QED
        BY <4>3, Zenon
    <3>2. PICK b \in Block : b = lg[k].block
      BY EntryBlock
    <3>3. /\ b # NoBlock /\ Len(b) = Len(s.blocks) + 1 /\ Len(r.blocks) = Len(s.blocks) + 1
          /\ r.configInflight = IF IsConfigBlock(b) THEN FALSE ELSE s.configInflight
      BY <2>6, <3>1, <3>2
    <3>4. CASE IsConfigBlock(b)
      <4>1. Len(b) =< Len(bc) /\ b = SubSeq(bc, 1, Len(b))
        BY <1>6, <2>1, <2>2, <3>1, <3>2, <3>3 DEF Pipeline, FirstBlocks
      <4>2. PICK j \in 1..Len(bc) : j = Len(b) /\ j > Len(s.blocks) /\ j =< Len(r.blocks)
        BY <1>2, <2>2, <3>3, <4>1, SMTT(30)
      <4>3. b[j] = bc[j]
        <5>1. SubSeq(bc, 1, j)[j] = bc[j]
          BY <2>2, SMTT(30) DEF Block
        <5> QED
          BY <4>1, <4>2, <5>1
      <4>4. bc[j].config
        BY <3>4, <4>2, <4>3 DEF IsConfigBlock
      <4>5. j = Len(bc)
        BY <1>6, <2>1, <2>2, <4>2, <4>4
      <4> QED
        BY <1>2, <2>3, <2>4, <4>2, <4>5
    <3>5. CASE ~IsConfigBlock(b)
      BY <2>2, <2>4, <3>3, <3>5
    <3> QED
      BY <3>4, <3>5
  <2> QED
    BY <1>1, <2>5, <2>6
<1>8. ASSUME lead, r.leading, ~r.justElected PROVE Pipeline(r, lg, r.bc[1])
  <2>1. s.leading /\ ~s.justElected /\ r.bc = s.bc /\ r.propC = s.propC /\ r.proposing = s.proposing
    BY <1>1, <1>8 DEF SameRole
  <2>2. Pipeline(s, lg, r.bc[1])
    BY <1>6, <2>1
  <2>3. \A k \in 1..Len(lg) : k > r.applied => k > s.applied
    BY <1>1, <1>2
  <2> QED
    BY <2>1, <2>2, <2>3 DEF Pipeline
<1> QED
  BY <1>1, <1>5, <1>7, <1>8 DEF ChainOK, SameRole

\* The last block of a ledger that has all of the log.
LEMMA LastBlockFacts ==
  ASSUME NEW s \in Chain, NEW lg \in Seq(Entry), NEW c \in 0..Len(lg), Ledger(s, lg, c)
  PROVE  /\ LastBlock(s) \in Block /\ Len(LastBlock(s)) = Len(s.blocks)
         /\ Len(lg) =< s.applied => Tip(lg, LastBlock(s))
<1>1. s.applied \in Nat /\ s.applied =< c /\ Len(lg) \in Nat /\ Len(s.blocks) \in Nat
      /\ s.blocks \in Seq(Written)
  BY ChainFields DEF Ledger
<1>2. CASE s.blocks = << >>
  <2>1. LastBlock(s) = << >>
    BY <1>2 DEF LastBlock, NoBlock
  <2> QED
    <3>1. LastBlock(s) \in Block /\ Len(LastBlock(s)) = Len(s.blocks)
      BY <1>2, <2>1 DEF Block
    <3>2. ASSUME Len(lg) =< s.applied PROVE Tip(lg, LastBlock(s))
      <4>1. ASSUME NEW k \in 1..Len(lg) PROVE Len(lg[k].block) =< Len(LastBlock(s))
        <5>1. k \in 1..s.applied
          BY <1>1, <3>2
        <5>2. lg[k].block # NoBlock => Len(lg[k].block) =< Len(s.blocks)
          BY <5>1 DEF Ledger
        <5>3. lg[k].block = NoBlock => Len(lg[k].block) = 0
          BY DEF NoBlock
        <5> QED
          BY <1>1, <3>1, <5>2, <5>3
      <4> QED
        BY <2>1, <4>1 DEF Tip, NoBlock
    <3> QED
      BY <3>1, <3>2
<1>3. CASE s.blocks # << >>
  <2>1. PICK j \in 1..Len(s.blocks) : j = Len(s.blocks)
    <3>1. Len(s.blocks) # 0
      BY <1>1, <1>3
    <3> QED
      BY <1>1, <3>1
  <2>2. LastBlock(s) = s.blocks[j].block
    BY <1>3, <2>1 DEF LastBlock
  <2>3. PICK i \in 1..s.applied : lg[i].block = LastBlock(s)
    BY <2>1, <2>2 DEF Ledger
  <2>4. LastBlock(s) \in Block /\ Len(LastBlock(s)) = Len(s.blocks)
    BY <2>1, <2>2, ChainFields DEF Ledger
  <2>5. ASSUME Len(lg) =< s.applied PROVE Tip(lg, LastBlock(s))
    <3>1. ASSUME NEW k \in 1..Len(lg) PROVE Len(lg[k].block) =< Len(LastBlock(s))
      <4>1. k \in 1..s.applied
        BY <1>1, <2>5
      <4>2. lg[k].block # NoBlock => Len(lg[k].block) =< Len(s.blocks)
        BY <4>1 DEF Ledger
      <4>3. lg[k].block = NoBlock => Len(lg[k].block) = 0
        BY DEF NoBlock
      <4> QED
        BY <1>1, <2>4, <4>2, <4>3
    <3>2. i \in 1..Len(lg)
      BY <1>1, <2>3
    <3> QED
      BY <2>3, <3>1, <3>2 DEF Tip
  <2> QED
    BY <2>4, <2>5
<1> QED
  BY <1>2, <1>3

\* The end of the case of applyC: a new leader starts from its last block once it has
\* applied its log.
LEMMA ResumedOK ==
  ASSUME NEW s \in Chain, NEW lg \in Seq(Entry), NEW c \in 0..Len(lg), NEW lead \in BOOLEAN,
         ChainOK(s, lg, c, lead), NEW r, r = Resumed(s, Len(lg))
  PROVE  r \in Chain /\ ChainOK(r, lg, c, lead)
<1>1. s.applied \in Nat /\ Len(lg) \in Nat /\ Len(s.blocks) \in Nat /\ s.accepting \in BOOLEAN
  BY ChainFields
<1>2. CASE s.justElected /\ (Len(lg) > s.applied \/ s.configInflight)
  BY <1>2 DEF Resumed
<1>3. CASE s.justElected /\ ~ (Len(lg) > s.applied \/ s.configInflight)
  <2>1. PICK b \in Block : b = LastBlock(s) /\ Len(b) = Len(s.blocks)
    BY LastBlockFacts DEF ChainOK
  <2>2. r = [s EXCEPT !.bc = <<b>>, !.accepting = TRUE, !.justElected = FALSE]
    BY <1>3, <2>1 DEF Resumed
  <2>3. <<b>> \in Seq(Block) /\ <<b>>[1] = b /\ Len(<<b>>) = 1
    OBVIOUS
  <2>4. r \in Chain
    BY <2>2, <2>3 DEF Chain
  <2>5. /\ r.bc[1] = b /\ Len(r.bc) = 1 /\ r.accepting /\ ~r.justElected
        /\ r.leading = s.leading /\ r.propC = s.propC /\ r.ticking = s.ticking
        /\ r.blocks = s.blocks /\ r.configInflight = s.configInflight /\ r.cutter = s.cutter
        /\ r.applied = s.applied /\ r.next = s.next
    BY <2>2, <2>3 DEF Chain
  <2>6. Idle(s) /\ (s.ticking <=> s.cutter.batch # << >>)
    BY <1>3 DEF ChainOK, RoleOK
  <2>7. Idle(r)
    <3>1. Len(r.bc[1]) =< Len(r.blocks)
      BY <1>1, <2>1, <2>5
    <3> QED
      BY <2>5, <2>6, <3>1 DEF Idle
  <2>8. RoleOK(r)
    BY <1>3, <2>5, <2>6, <2>7 DEF RoleOK
  <2>9. BarrierOK(r)
    <3> SUFFICES ASSUME NEW i \in 1..Len(r.bc[1]), i > Len(r.blocks) PROVE FALSE
      BY DEF BarrierOK
    <3> QED
      BY <1>1, <2>1, <2>5
  <2>10. Ledger(r, lg, c)
    BY <2>5 DEF ChainOK, Ledger
  <2>11. Pipeline(r, lg, b)
    <3>1. Len(r.propC) = 0 /\ Len(b) \in Nat
      BY <1>1, <2>1, <2>7 DEF Idle
    <3>2. Len(b) - Len(r.propC) = Len(b) /\ 0 =< Len(b)
      BY <3>1
    <3>3. FirstBlocks(b, Len(b)) = b
      BY DEF FirstBlocks, Block
    <3>4. \A k \in 1..Len(lg) : ~ (k > r.applied)
      BY <1>1, <1>3, <2>5
    <3>5. Tip(lg, b)
      BY <1>1, <1>3, <2>1, LastBlockFacts DEF ChainOK
    <3>6. \A i \in 1..Len(r.propC) : FALSE
      BY <3>1
    <3> QED
      BY <3>2, <3>3, <3>4, <3>5, <3>6 DEF Pipeline
  <2> QED
    BY <2>4, <2>5, <2>8, <2>9, <2>10, <2>11 DEF ChainOK
<1>4. CASE ~s.justElected
  <2>1. PICK a \in BOOLEAN : r = [s EXCEPT !.accepting = a] /\ (s.configInflight => ~a)
    <3>1. CASE s.configInflight
      BY <1>4, <3>1 DEF Resumed
    <3>2. CASE ~s.configInflight /\ s.blockInflight < MaxInflight
      BY <1>4, <3>2 DEF Resumed
    <3>3. CASE ~s.configInflight /\ ~ (s.blockInflight < MaxInflight)
      <4>1. r = s
        BY <1>4, <3>3 DEF Resumed
      <4>2. s = [s EXCEPT !.accepting = s.accepting]
        BY DEF Chain
      <4> QED
        BY <1>1, <3>3, <4>1, <4>2
    <3> QED
      BY <3>1, <3>2, <3>3
  <2>2. r \in Chain
    BY <2>1 DEF Chain
  <2>3. /\ r.leading = s.leading /\ r.justElected = s.justElected /\ r.bc = s.bc
        /\ r.propC = s.propC /\ r.ticking = s.ticking /\ r.proposing = s.proposing
        /\ r.blocks = s.blocks /\ r.configInflight = s.configInflight /\ r.cutter = s.cutter
        /\ r.applied = s.applied /\ r.next = s.next /\ r.accepting = a
    BY <2>1 DEF Chain
  <2>4. RoleOK(r) /\ BarrierOK(r)
    BY <1>4, <2>1, <2>3 DEF ChainOK, RoleOK, BarrierOK, Idle
  <2>5. Ledger(r, lg, c)
    BY <2>3 DEF ChainOK, Ledger
  <2>6. lead /\ r.leading => Pipeline(r, lg, r.bc[1])
    BY <1>4, <2>3 DEF ChainOK, Pipeline
  <2> QED
    BY <2>2, <2>4, <2>5, <2>6 DEF ChainOK
<1> QED
  BY <1>2, <1>3, <1>4

\* The channels of cancelled goroutines are not empty.
LEMMA CancelledType ==
  ASSUME NEW s \in Chain
  PROVE  Cancelled(s) \in SUBSET (Seq(Block) \ {<< >>})
<1>1. s.cancelled \in SUBSET (Seq(Block) \ {<< >>}) /\ s.propC \in Seq(Block)
  BY DEF Chain
<1> QED
  BY <1>1 DEF Cancelled

\* The types of a chain that becomes leader or follower.
LEMMA BecomeTypes ==
  ASSUME NEW s \in Chain, NEW t \in Nat
  PROVE  /\ becomeLeader(s, t) \in Chain /\ [becomeLeader(s, t) EXCEPT !.leading = TRUE] \in Chain
         /\ becomeFollower(s) \in Chain /\ [becomeFollower(s) EXCEPT !.leading = FALSE] \in Chain
<1>1. << >> \in Seq(Block)
  OBVIOUS
<1>2. EmptyReceiver \in [batch : Seq(Message), bytes : Int]
  BY DEF EmptyReceiver
<1>3. becomeLeader(s, t) \in Chain
  <2>1. [s EXCEPT !.blockInflight = 0, !.justElected = TRUE, !.accepting = FALSE] \in Chain
    <3>1. \A z \in Int : [s EXCEPT !.blockInflight = z, !.justElected = TRUE, !.accepting = FALSE] \in Chain
      BY DEF Chain
    <3>2. 0 \in Int
      OBVIOUS
    <3> QED
      BY <3>1, <3>2, Zenon
  <2>2. PICK u \in Chain : u = [s EXCEPT !.blockInflight = 0, !.justElected = TRUE, !.accepting = FALSE]
    BY <2>1
  <2>3. [u EXCEPT !.propC = << >>, !.proposing = TRUE, !.epoch = t] \in Chain
    BY <1>1 DEF Chain
  <2>4. becomeLeader(s, t) = [u EXCEPT !.propC = << >>, !.proposing = TRUE, !.epoch = t]
    BY <2>2 DEF becomeLeader
  <2> QED
    BY <2>3, <2>4
<1>4. becomeFollower(s) \in Chain
  <2>1. [s EXCEPT !.blockInflight = 0, !.cutter = EmptyReceiver, !.ticking = FALSE,
                  !.accepting = TRUE] \in Chain
    <3>1. \A z \in Int, e \in [batch : Seq(Message), bytes : Int] :
            [s EXCEPT !.blockInflight = z, !.cutter = e, !.ticking = FALSE, !.accepting = TRUE] \in Chain
      BY DEF Chain
    <3>2. 0 \in Int
      OBVIOUS
    <3> QED
      BY <1>2, <3>1, <3>2, Zenon
  <2>2. PICK u \in Chain : u = [s EXCEPT !.blockInflight = 0, !.cutter = EmptyReceiver, !.ticking = FALSE,
                                        !.accepting = TRUE]
    BY <2>1
  <2>3. PICK q \in SUBSET (Seq(Block) \ {<< >>}) : q = Cancelled(s)
    BY CancelledType
  <2>4. [u EXCEPT !.bc = << >>, !.propC = << >>, !.proposing = FALSE, !.cancelled = q, !.epoch = 0] \in Chain
    BY <1>1 DEF Chain
  <2>5. becomeFollower(s) = [u EXCEPT !.bc = << >>, !.propC = << >>, !.proposing = FALSE,
                                      !.cancelled = q, !.epoch = 0]
    BY <2>2, <2>3 DEF becomeFollower
  <2> QED
    BY <2>4, <2>5
<1> QED
  BY <1>3, <1>4 DEF Chain

\* The chain learns who leads.
LEMMA LeaderChangedOK ==
  ASSUME RaftTyped, NEW n \in Node, NEW s \in Chain, NEW lg \in Seq(Entry), NEW c \in 0..Len(lg),
         NEW lead \in BOOLEAN, ChainOK(s, lg, c, lead), NEW r, r = LeaderChanged(s, n, lead)
  PROVE  /\ r \in Chain /\ ChainOK(r, lg, c, lead)
         /\ r.leading = lead /\ r.next = s.next
<1>1. s.leading \in BOOLEAN /\ term[n] \in Nat
  BY ChainFields, LogFacts
<1>2. CASE lead = s.leading
  <2>1. r = s
    BY <1>2 DEF LeaderChanged, Chain
  <2> QED
    BY <1>2, <2>1
<1>3. CASE lead /\ ~s.leading
  <2>1. r = [s EXCEPT !.blockInflight = 0, !.justElected = TRUE, !.accepting = FALSE,
                      !.propC = << >>, !.proposing = TRUE, !.epoch = term[n], !.leading = TRUE]
    BY <1>3 DEF LeaderChanged, becomeLeader
  <2>2. r \in Chain
    <3>1. PICK t \in Nat : t = term[n]
      BY <1>1
    <3>2. [becomeLeader(s, t) EXCEPT !.leading = TRUE] \in Chain
      BY BecomeTypes
    <3> QED
      BY <1>3, <3>1, <3>2 DEF LeaderChanged
  <2>3. /\ r.leading /\ r.justElected /\ ~r.accepting /\ r.propC = << >>
        /\ r.bc = s.bc /\ r.ticking = s.ticking /\ r.cutter = s.cutter
        /\ r.blocks = s.blocks /\ r.applied = s.applied /\ r.next = s.next
    BY <2>1 DEF Chain
  <2>4. RoleOK(r) /\ BarrierOK(r)
    BY <1>3, <2>3 DEF ChainOK, RoleOK, BarrierOK, Idle
  <2>5. Ledger(r, lg, c)
    BY <2>3 DEF ChainOK, Ledger
  <2> QED
    BY <1>3, <2>2, <2>3, <2>4, <2>5 DEF ChainOK
<1>4. CASE ~lead /\ s.leading
  <2>1. r = [s EXCEPT !.blockInflight = 0, !.cutter = EmptyReceiver, !.ticking = FALSE,
                      !.accepting = TRUE, !.bc = << >>, !.propC = << >>, !.proposing = FALSE,
                      !.cancelled = Cancelled(s), !.epoch = 0, !.leading = FALSE]
    BY <1>4 DEF LeaderChanged, becomeFollower
  <2>2. EmptyReceiver \in [batch : Seq(Message), bytes : Int] /\ EmptyReceiver.batch = << >>
    BY DEF EmptyReceiver
  <2>3. r \in Chain
    <3>1. [becomeFollower(s) EXCEPT !.leading = FALSE] \in Chain
      BY BecomeTypes
    <3> QED
      BY <1>4, <3>1 DEF LeaderChanged
  <2>4. /\ ~r.leading /\ r.bc = << >> /\ r.propC = << >> /\ ~r.ticking /\ r.cutter = EmptyReceiver
        /\ r.blocks = s.blocks /\ r.applied = s.applied /\ r.next = s.next
    BY <2>1 DEF Chain
  <2>5. RoleOK(r) /\ BarrierOK(r)
    BY <2>2, <2>4 DEF RoleOK, BarrierOK, Idle
  <2>6. Ledger(r, lg, c)
    BY <2>4 DEF ChainOK, Ledger
  <2> QED
    <3>1. r.leading \in BOOLEAN
      BY <2>3, ChainFields
    <3>2. ChainOK(r, lg, c, lead)
      BY <2>4, <2>5, <2>6 DEF ChainOK
    <3> QED
      BY <1>4, <2>3, <2>4, <3>1, <3>2
<1> QED
  BY <1>1, <1>2, <1>3, <1>4

-----------------------------------------------------------------------------
(* Requests: what holds of a leader while it creates and proposes blocks,  *)
(* unless it has panicked.                                                 *)

Serving(s, lg, c, lead) ==
  /\ Ledger(s, lg, c)
  /\ \/ s.leading /\ ~s.justElected /\ Len(s.bc) = 1
     \/ s.panicked /\ ~s.leading /\ Idle(s)
  /\ s.ticking <=> s.cutter.batch # << >>
  /\ BarrierOK(s)
  /\ lead /\ s.leading => Pipeline(s, lg, s.bc[1])

\* A chain that panicked is served like one just started on the same ledger.
LEMMA PanickedOK ==
  ASSUME NEW s \in Chain, NEW lg \in Seq(Entry), NEW c \in 0..Len(lg), NEW lead \in BOOLEAN,
         Chained(lg), Ledger(s, lg, c), NEW r, r = Panicked(s)
  PROVE  r \in Chain /\ ~r.configInflight /\ ~r.ticking /\ Serving(r, lg, c, lead)
<1>1. s.blocks \in Seq(Written) /\ Len(s.blocks) \in Nat
  BY ChainFields
<1>2. SubSeq(s.blocks, 1, Len(s.blocks)) = s.blocks
  BY <1>1
<1>3. Fresh(r, s.blocks)
  BY DEF Panicked, Fresh
<1>4. r \in Chain /\ ChainOK(r, lg, c, lead)
  <2>1. PICK j \in 0..Len(s.blocks) : j = Len(s.blocks)
    BY <1>1
  <2>2. Fresh(r, SubSeq(s.blocks, 1, j))
    BY <1>2, <1>3, <2>1
  <2> QED
    BY <2>2, StartedOK
<1>5. ~r.configInflight /\ ~r.ticking /\ ~r.leading
  BY <1>1, <1>3, StartedFacts
<1>6. r.panicked
  BY DEF Panicked, Started
<1> QED
  BY <1>4, <1>5, <1>6 DEF Serving, ChainOK, RoleOK

\* One turn of the loop in propose.
LEMMA ProposeOneOK ==
  ASSUME NEW s \in Chain, NEW lg \in Seq(Entry), NEW c \in 0..Len(lg), NEW lead \in BOOLEAN,
         NEW config \in BOOLEAN, Chained(lg), Serving(s, lg, c, lead), ~s.configInflight,
         NEW r, r = ProposeOne(s, config)
  PROVE  /\ r \in Chain /\ Serving(r, lg, c, lead)
         /\ r.configInflight => config
         /\ r.ticking => s.ticking
<1>1. CASE s.panicked \/ s.bc = << >> \/ Len(s.propC) >= MaxInflight
  <2>1. r = Panicked(s)
    BY <1>1 DEF ProposeOne
  <2> QED
    BY <2>1, PanickedOK DEF Serving
<1>2. CASE ~ (s.panicked \/ s.bc = << >> \/ Len(s.propC) >= MaxInflight)
  <2>1. s.leading /\ ~s.justElected /\ Len(s.bc) = 1
    BY <1>2 DEF Serving
  <2>2. /\ s.bc \in Seq(Block) /\ s.propC \in Seq(Block) /\ s.epoch \in Nat /\ s.blockInflight \in Int
        /\ s.configInflight \in BOOLEAN /\ Len(s.propC) \in Nat /\ Len(s.blocks) \in Nat
    BY ChainFields
  <2>3. PICK b \in Block : b = s.bc[1]
    BY <2>1, <2>2
  <2>4. PICK x \in [term : Nat, config : BOOLEAN] : x = [term |-> s.epoch, config |-> config]
    BY <2>2
  <2>5. x.config = config
    BY <2>4
  <2>6. PICK d \in Block : d = Append(b, x)
    BY AppendSeq DEF Block
  <2>7. /\ Len(b) \in Nat /\ Len(d) = Len(b) + 1 /\ d[Len(b) + 1] = x
        /\ \A i \in 1..Len(b) : d[i] = b[i]
    BY <2>6, AppendSeq DEF Block
  <2>8. PICK q \in Seq(Block) : q = Append(s.propC, d)
    BY <2>2, AppendSeq
  <2>9. PICK f \in Int : f = s.blockInflight + 1
    BY <2>2
  <2>10. r = [s EXCEPT !.bc = <<d>>, !.propC = q, !.configInflight = config, !.blockInflight = f]
    BY <1>2, <2>2, <2>3, <2>4, <2>6, <2>8, <2>9 DEF ProposeOne, createNextBlock
  <2>11. <<d>> \in Seq(Block) /\ Len(<<d>>) = 1 /\ <<d>>[1] = d
    OBVIOUS
  <2>12. r \in Chain
    BY <2>10, <2>11 DEF Chain
  <2>13. /\ r.bc = <<d>> /\ r.propC = q /\ r.configInflight = config
         /\ r.leading = s.leading /\ r.justElected = s.justElected /\ r.ticking = s.ticking
         /\ r.cutter = s.cutter /\ r.blocks = s.blocks /\ r.applied = s.applied /\ r.next = s.next
         /\ r.proposing = s.proposing
    BY <2>10 DEF Chain
  <2>14. r.bc[1] = d /\ Len(r.bc) = 1
    BY <2>11, <2>13
  <2>15. Ledger(r, lg, c)
    BY <2>13 DEF Serving, Ledger
  <2>16. BarrierOK(r)
    <3> SUFFICES ASSUME NEW i \in 1..Len(d), d[i].config, i > Len(s.blocks)
                 PROVE  i = Len(d) /\ config
      BY <2>13, <2>14 DEF BarrierOK
    <3>1. CASE i \in 1..Len(b)
      BY <2>1, <2>3, <2>7, <3>1 DEF Serving, BarrierOK
    <3>2. CASE i = Len(b) + 1
      BY <2>5, <2>7, <3>2
    <3> QED
      BY <2>7, <3>1, <3>2
  <2>17. ASSUME lead PROVE Pipeline(r, lg, d)
    <3>1. Pipeline(s, lg, b)
      BY <2>1, <2>3, <2>17 DEF Serving
    <3>2. PICK sent \in Nat : sent = Len(b) - Len(s.propC)
      <4>1. 0 =< Len(b) - Len(s.propC)
        BY <3>1 DEF Pipeline
      <4>2. \A i, j \in Nat : 0 =< i - j => i - j \in Nat
        OBVIOUS
      <4>3. Len(b) - Len(s.propC) \in Nat
        BY <2>2, <2>7, <4>1, <4>2, Zenon
      <4> QED
        BY <4>3
    <3>3. /\ Len(q) = Len(s.propC) + 1 /\ q[Len(s.propC) + 1] = d
          /\ \A i \in 1..Len(s.propC) : q[i] = s.propC[i]
      BY <2>2, <2>8, AppendSeq
    <3>4. Len(d) - Len(q) = sent /\ sent =< Len(b) /\ sent + Len(q) = Len(d)
      <4>1. PICK i \in Nat : i = Len(b)
        BY <2>7
      <4>2. PICK j \in Nat : j = Len(s.propC)
        BY <2>2
      <4>3. sent = i - j
        BY <3>2, <4>1, <4>2, Zenon
      <4>4. (i + 1) - (j + 1) = sent /\ sent =< i /\ sent + (j + 1) = i + 1
        BY <4>3
      <4>5. Len(d) = i + 1 /\ Len(q) = j + 1
        BY <2>7, <3>3, <4>1, <4>2, Zenon
      <4> QED
        BY <4>1, <4>4, <4>5, Zenon
    <3>5. \A i \in 0..Len(b) : FirstBlocks(d, i) = FirstBlocks(b, i)
      <4> SUFFICES ASSUME NEW i \in 0..Len(b) PROVE SubSeq(d, 1, i) = SubSeq(b, 1, i)
        BY DEF FirstBlocks
      <4>1. d \in Seq([term : Nat, config : BOOLEAN]) /\ b \in Seq([term : Nat, config : BOOLEAN])
        BY DEF Block
      <4> QED
        BY <2>7, <4>1
    <3>6. FirstBlocks(d, Len(d)) = d
      BY DEF FirstBlocks, Block
    <3>7. ASSUME NEW i \in 1..Len(q) PROVE q[i] = FirstBlocks(d, sent + i)
      <4>1. CASE i \in 1..Len(s.propC)
        <5>1. s.propC[i] = FirstBlocks(b, sent + i)
          BY <3>1, <3>2, <4>1 DEF Pipeline
        <5>2. sent + i \in 0..Len(b)
          BY <2>2, <2>7, <3>2, <4>1
        <5> QED
          BY <3>3, <3>5, <4>1, <5>1, <5>2
      <4>2. CASE i = Len(s.propC) + 1
        BY <3>3, <3>4, <3>6, <4>2
      <4> QED
        BY <2>2, <3>3, <4>1, <4>2, SMTT(30)
    <3>8. ASSUME NEW k \in 1..Len(lg), k > s.applied, lg[k].block # NoBlock
          PROVE  Len(lg[k].block) =< Len(d) /\ lg[k].block = FirstBlocks(d, Len(lg[k].block))
      <4>1. PICK h \in Nat : h = Len(lg[k].block)
        BY EntryBlock
      <4>2. h =< Len(b) /\ lg[k].block = FirstBlocks(b, h)
        BY <3>1, <3>8, <4>1 DEF Pipeline
      <4>3. h \in 0..Len(b) /\ h =< Len(d)
        BY <2>7, <4>1, <4>2
      <4> QED
        BY <3>5, <4>1, <4>2, <4>3
    <3>9. s.proposing => Tip(lg, FirstBlocks(d, sent))
      <4>1. sent \in 0..Len(b)
        BY <2>7, <3>2, <3>4
      <4> QED
        BY <3>1, <3>2, <3>5, <4>1 DEF Pipeline
    <3>10. Len(d) - Len(r.propC) = sent /\ 0 =< sent
      BY <2>13, <3>2, <3>4
    <3> QED
      BY <2>13, <3>7, <3>8, <3>9, <3>10 DEF Pipeline
  <2> QED
    BY <2>1, <2>12, <2>13, <2>14, <2>15, <2>16, <2>17 DEF Serving
<1> QED
  BY <1>1, <1>2

\* propose of no, one or two blocks keeps what holds while a request is served; configInflight is
\* set only by a config block, and no timer is started.
LEMMA ProposeOK ==
  ASSUME NEW s \in Chain, NEW lg \in Seq(Entry), NEW c \in 0..Len(lg), NEW lead \in BOOLEAN,
         NEW config \in BOOLEAN, NEW n, Chained(lg), Serving(s, lg, c, lead), ~s.configInflight,
         NEW r, r = propose(s, n, config)
  PROVE  /\ r \in Chain /\ Serving(r, lg, c, lead)
         /\ r.configInflight => config
         /\ r.ticking => s.ticking
<1>1. CASE n = 0
  BY <1>1 DEF propose
<1>2. CASE n = 2
  <2>1. PICK u : u = ProposeOne(s, FALSE)
    OBVIOUS
  <2>2. u \in Chain /\ Serving(u, lg, c, lead) /\ ~u.configInflight /\ (u.ticking => s.ticking)
    BY <2>1, ProposeOneOK
  <2>3. r = ProposeOne(u, config)
    BY <1>2, <2>1 DEF propose
  <2>4. /\ r \in Chain /\ Serving(r, lg, c, lead)
        /\ r.configInflight => config
        /\ r.ticking => u.ticking
    BY <2>2, <2>3, ProposeOneOK
  <2> QED
    BY <2>2, <2>4
<1>3. CASE n # 0 /\ n # 2
  <2>1. r = ProposeOne(s, config)
    BY <1>3 DEF propose
  <2> QED
    BY <2>1, ProposeOneOK
<1> QED
  BY <1>1, <1>2, <1>3

\* All fields but those of the block cutter and its timer are the same.
SameRest(r, s) ==
  /\ r.bc = s.bc /\ r.propC = s.propC /\ r.leading = s.leading /\ r.justElected = s.justElected
  /\ r.configInflight = s.configInflight /\ r.blocks = s.blocks /\ r.applied = s.applied
  /\ r.next = s.next /\ r.proposing = s.proposing

\* A request is taken, or the batch timer fires: no config block is in flight.
LEMMA ServingStarts ==
  ASSUME NEW s \in Chain, NEW lg \in Seq(Entry), NEW c \in 0..Len(lg), NEW lead \in BOOLEAN,
         ChainOK(s, lg, c, lead), (s.leading /\ s.accepting) \/ s.ticking,
         NEW r, SameRest(r, s), r.ticking <=> r.cutter.batch # << >>
  PROVE  Serving(r, lg, c, lead) /\ ~r.configInflight
<1>1. s.leading /\ ~s.justElected /\ ~s.configInflight /\ Len(s.bc) = 1
  BY DEF ChainOK, RoleOK, Idle
<1>2. Ledger(r, lg, c)
  BY DEF ChainOK, Ledger, SameRest
<1>3. BarrierOK(r)
  BY DEF ChainOK, BarrierOK, SameRest
<1>4. lead => Pipeline(r, lg, r.bc[1])
  BY <1>1 DEF ChainOK, Pipeline, SameRest
<1> QED
  BY <1>1, <1>2, <1>3, <1>4 DEF Serving, SameRest

\* Serving a request ends in order when submitC is closed while a config block is in flight.
LEMMA ServingEnds ==
  ASSUME NEW s \in Chain, NEW lg \in Seq(Entry), NEW c \in 0..Len(lg), NEW lead \in BOOLEAN,
         Serving(s, lg, c, lead), s.configInflight => ~s.accepting /\ ~s.ticking
  PROVE  ChainOK(s, lg, c, lead)
BY DEF Serving, ChainOK, RoleOK

\* The same after the pause that a config block or too many blocks call for.
LEMMA PausedOK ==
  ASSUME NEW s \in Chain, NEW lg \in Seq(Entry), NEW c \in 0..Len(lg), NEW lead \in BOOLEAN,
         Serving(s, lg, c, lead), s.configInflight => ~s.ticking,
         NEW r, r = Paused(s)
  PROVE  r \in Chain /\ ChainOK(r, lg, c, lead)
<1>1. s.configInflight \in BOOLEAN /\ s.blockInflight \in Int /\ MaxInflight \in Int
  BY ChainFields, RaftChainAssumption
<1>2. PICK a \in BOOLEAN : a = (~s.configInflight /\ s.blockInflight < MaxInflight)
  OBVIOUS
<1>3. r = [s EXCEPT !.accepting = a]
  BY <1>2 DEF Paused
<1>4. r \in Chain
  BY <1>3 DEF Chain
<1>5. /\ r.accepting = a /\ r.cutter = s.cutter /\ r.ticking = s.ticking /\ r.bc = s.bc
      /\ r.propC = s.propC /\ r.leading = s.leading /\ r.justElected = s.justElected
      /\ r.configInflight = s.configInflight /\ r.blocks = s.blocks /\ r.applied = s.applied
      /\ r.next = s.next /\ r.proposing = s.proposing /\ r.panicked = s.panicked
  BY <1>3 DEF Chain
<1>6. Ledger(r, lg, c) /\ BarrierOK(r)
  BY <1>5 DEF Serving, Ledger, BarrierOK
<1>7. ASSUME lead, r.leading PROVE Pipeline(r, lg, r.bc[1])
  <2>1. Pipeline(s, lg, r.bc[1])
    BY <1>5, <1>7 DEF Serving
  <2> QED
    BY <1>5, <2>1 DEF Pipeline
<1>8. Serving(r, lg, c, lead)
  BY <1>5, <1>6, <1>7 DEF Serving, Idle
<1> QED
  BY <1>2, <1>4, <1>5, <1>8, ServingEnds

\* The block cutter keeps its types, and has a batch exactly when it reports one.
LEMMA OrderedTypes ==
  ASSUME NEW q \in [batch : Seq(Message), bytes : Int], NEW msg \in Message,
         NEW o, o = Ordered(q, msg)
  PROVE  /\ o.receiver \in [batch : Seq(Message), bytes : Int]
         /\ o.pending \in BOOLEAN
         /\ o.pending <=> o.receiver.batch # << >>
<1>1. /\ EmptyReceiver \in [batch : Seq(Message), bytes : Int] /\ EmptyReceiver.batch = << >>
      /\ EmptyReceiver.bytes = 0
  BY DEF EmptyReceiver
<1>2. CASE msg > PreferredMaxBytes
  <2>1. o.receiver = EmptyReceiver /\ o.pending = FALSE
    BY <1>2 DEF Ordered, Isolated
  <2> QED
    BY <1>1, <2>1
<1>3. CASE ~ (msg > PreferredMaxBytes)
  <2> DEFINE overflow == (q.bytes + msg) % UintSize > PreferredMaxBytes
             old == IF overflow THEN EmptyReceiver ELSE q
             new == [batch |-> Append(old.batch, msg), bytes |-> (old.bytes + msg) % UintSize]
             full == Len(new.batch) >= MaxMessageCount
  <2>1. old \in [batch : Seq(Message), bytes : Int]
    BY <1>1
  <2>2. /\ o.pending = ~full
        /\ o.receiver = IF full THEN EmptyReceiver ELSE new
    BY <1>3 DEF Ordered, Enqueued
  <2> HIDE DEF old
  <2>3. old.batch \in Seq(Message) /\ old.bytes \in Int /\ msg \in Int /\ UintSize \in Nat \ {0}
    BY <2>1, BlockCutterAssumption DEF Message
  <2>4. Append(old.batch, msg) \in Seq(Message) /\ Len(Append(old.batch, msg)) = Len(old.batch) + 1
        /\ Len(old.batch) \in Nat
    BY <2>3, AppendSeq
  <2>5. Append(old.batch, msg) # << >>
    BY <2>4
  <2>6. (old.bytes + msg) % UintSize \in Int
    BY <2>3
  <2>7. new \in [batch : Seq(Message), bytes : Int] /\ new.batch # << >>
    BY <2>4, <2>5, <2>6
  <2> HIDE DEF new, full
  <2>8. full \in BOOLEAN
    BY DEF full
  <2> QED
    BY <1>1, <2>2, <2>7, <2>8
<1> QED
  BY <1>2, <1>3

-----------------------------------------------------------------------------
(* The steps while no block has been proposed late.                        *)

SInv == RaftInv /\ ChainInv

\* What the invariant says of one node, with the types that the lemmas above need.
LEMMA NodeFacts ==
  ASSUME SInv, NEW n \in Node
  PROVE  /\ chain[n] \in Chain /\ log[n] \in Seq(Entry) /\ commit[n] \in 0..Len(log[n])
         /\ term[n] \in Nat /\ commit[n] \in Nat /\ (n \in leads) \in BOOLEAN
         /\ Chained(log[n]) /\ ChainOK(chain[n], log[n], commit[n], n \in leads)
         /\ \E lead \in BOOLEAN : lead = (n \in leads)
<1>1. \E lead \in BOOLEAN : lead = (n \in leads)
  <2> WITNESS (n \in leads) \in BOOLEAN
  <2> QED
    OBVIOUS
<1>2. log[n] \in Seq(Entry) /\ term[n] \in Nat /\ Len(log[n]) \in Nat
  BY LogFacts DEF SInv, RaftInv
<1>3. commit[n] \in Nat /\ commit[n] =< Len(log[n])
  BY DEF SInv, RaftInv, RaftTyped, CommitsSafe
<1>4. /\ chain[n] \in Chain /\ commit[n] \in 0..Len(log[n])
      /\ Chained(log[n]) /\ ChainOK(chain[n], log[n], commit[n], n \in leads)
  BY <1>2, <1>3 DEF SInv, ChainInv
<1> QED
  BY <1>1, <1>2, <1>3, <1>4, Zenon

\* A step of one chain that leaves Raft alone.
LEMMA ChainStep ==
  ASSUME SInv, NEW n \in Node, UNCHANGED raftVars, NEW r \in Chain,
         chain' = [chain EXCEPT ![n] = r], ChainOK(r, log[n], commit[n], n \in leads)
  PROVE  SInv'
<1>1. UNCHANGED <<term, leads, log, commit, match>>
  BY DEF raftVars
<1>2. RaftInv'
  <2>1. \A l \in leads' : match'[l] = match[l]
    BY <1>1
  <2>2. match' \in [Node -> [Node -> Nat]]
    BY <1>1 DEF SInv, RaftInv, RaftTyped
  <2> QED
    BY <1>1, <2>1, <2>2, RaftShrinks DEF SInv
<1>3. chain' \in [Node -> Chain]
  BY DEF SInv, ChainInv
<1>4. \A m \in Node : Chained(log'[m])
  BY <1>1 DEF SInv, ChainInv
<1>5. ASSUME NEW m \in Node PROVE ChainOK(chain'[m], log'[m], commit'[m], m \in leads')
  <2>1. CASE m = n
    <3>1. chain'[n] = r
      BY DEF SInv, ChainInv
    <3> QED
      BY <1>1, <2>1, <3>1
  <2>2. CASE m # n
    <3>1. chain'[m] = chain[m]
      BY <2>2 DEF SInv, ChainInv
    <3> QED
      BY <1>1, <3>1 DEF SInv, ChainInv
  <2> QED
    BY <2>1, <2>2
<1> QED
  BY <1>2, <1>3, <1>4, <1>5 DEF SInv, ChainInv

\* A normal message: ordered, cut into batches, proposed, the timer set and submitC paused.
LEMMA OrderStep ==
  ASSUME SInv, NEW n \in Node, NEW size \in Size, Order(n, size)
  PROVE  SInv'
<1>1. size \in Message
  BY RaftChainAssumption
<1>2. PICK s \in Chain : s = chain[n]
  BY NodeFacts
<1>3. PICK lg \in Seq(Entry) : lg = log[n] /\ Chained(lg)
  BY NodeFacts
<1>4. PICK c \in 0..Len(lg) : c = commit[n]
  BY <1>3, NodeFacts
<1>5. PICK lead \in BOOLEAN : lead = (n \in leads)
  BY NodeFacts
<1>6. ChainOK(s, lg, c, lead)
  BY <1>2, <1>3, <1>4, <1>5, NodeFacts
<1>7. PICK o : o = Ordered(s.cutter, size)
  OBVIOUS
<1>8. PICK q \in [batch : Seq(Message), bytes : Int], p \in BOOLEAN :
        q = o.receiver /\ p = o.pending /\ (p <=> q.batch # << >>)
  BY <1>1, <1>7, OrderedTypes, ChainFields
<1>9. PICK u : u = [s EXCEPT !.cutter = q, !.ticking = p]
  OBVIOUS
<1>10. (s.leading /\ s.accepting) \/ s.ticking
  BY <1>2 DEF Order
<1>11. u \in Chain /\ SameRest(u, s) /\ u.cutter = q /\ u.ticking = p
  BY <1>9 DEF Chain, SameRest
<1>12. u \in Chain /\ Serving(u, lg, c, lead) /\ ~u.configInflight
  BY <1>6, <1>8, <1>10, <1>11, ServingStarts
<1>13. PICK v : v = propose(u, Len(o.batches), FALSE)
  OBVIOUS
<1>14. v \in Chain /\ Serving(v, lg, c, lead) /\ ~v.configInflight
  BY <1>3, <1>12, <1>13, ProposeOK
<1>15. PICK r : r = Paused(v)
  OBVIOUS
<1>16. r \in Chain /\ ChainOK(r, lg, c, lead)
  BY <1>14, <1>15, PausedOK
<1>17. UNCHANGED raftVars /\ chain' = [chain EXCEPT ![n] = r]
  BY <1>2, <1>7, <1>8, <1>9, <1>13, <1>15 DEF Order
<1> QED
  BY <1>3, <1>4, <1>5, <1>16, <1>17, ChainStep

\* The block cutter after a cut.
LEMMA EmptyReceiverType ==
  EmptyReceiver \in [batch : Seq(Message), bytes : Int] /\ EmptyReceiver.batch = << >>
BY DEF EmptyReceiver

\* A config message: the pending batch is cut and proposed, then the config block.
LEMMA ConfigureStep ==
  ASSUME SInv, NEW n \in Node, Configure(n)
  PROVE  SInv'
<1>1. PICK s \in Chain : s = chain[n]
  BY NodeFacts
<1>2. PICK lg \in Seq(Entry) : lg = log[n] /\ Chained(lg)
  BY NodeFacts
<1>3. PICK c \in 0..Len(lg) : c = commit[n]
  BY <1>2, NodeFacts
<1>4. PICK lead \in BOOLEAN : lead = (n \in leads)
  BY NodeFacts
<1>5. ChainOK(s, lg, c, lead)
  BY <1>1, <1>2, <1>3, <1>4, NodeFacts
<1>6. PICK q \in [batch : Seq(Message), bytes : Int] : q = EmptyReceiver /\ q.batch = << >>
  BY EmptyReceiverType
<1>7. PICK k : k = IF s.cutter.batch = << >> THEN 1 ELSE 2
  OBVIOUS
<1>8. PICK u : u = [s EXCEPT !.cutter = q, !.ticking = FALSE]
  OBVIOUS
<1>9. (s.leading /\ s.accepting) \/ s.ticking
  BY <1>1 DEF Configure
<1>10. u \in Chain /\ SameRest(u, s) /\ u.cutter = q /\ ~u.ticking
  BY <1>8 DEF Chain, SameRest
<1>11. u \in Chain /\ Serving(u, lg, c, lead) /\ ~u.configInflight /\ ~u.ticking
  BY <1>5, <1>6, <1>9, <1>10, ServingStarts
<1>12. PICK config \in BOOLEAN : config = TRUE
  OBVIOUS
<1>13. PICK v : v = propose(u, k, config)
  OBVIOUS
<1>14. v \in Chain /\ Serving(v, lg, c, lead) /\ ~v.ticking
  BY <1>2, <1>11, <1>13, ProposeOK
<1>15. PICK r : r = Paused(v)
  OBVIOUS
<1>16. r \in Chain /\ ChainOK(r, lg, c, lead)
  BY <1>14, <1>15, PausedOK
<1>17. UNCHANGED raftVars /\ chain' = [chain EXCEPT ![n] = r]
  BY <1>1, <1>6, <1>7, <1>8, <1>12, <1>13, <1>15 DEF Configure
<1> QED
  BY <1>2, <1>3, <1>4, <1>16, <1>17, ChainStep

\* The batch timer fires: the pending batch is cut and proposed.
LEMMA TimerStep ==
  ASSUME SInv, NEW n \in Node, Timer(n)
  PROVE  SInv'
<1>1. PICK s \in Chain : s = chain[n]
  BY NodeFacts
<1>2. PICK lg \in Seq(Entry) : lg = log[n] /\ Chained(lg)
  BY NodeFacts
<1>3. PICK c \in 0..Len(lg) : c = commit[n]
  BY <1>2, NodeFacts
<1>4. PICK lead \in BOOLEAN : lead = (n \in leads)
  BY NodeFacts
<1>5. ChainOK(s, lg, c, lead)
  BY <1>1, <1>2, <1>3, <1>4, NodeFacts
<1>6. PICK q \in [batch : Seq(Message), bytes : Int] : q = EmptyReceiver /\ q.batch = << >>
  BY EmptyReceiverType
<1>7. PICK k : k = IF s.cutter.batch = << >> THEN 0 ELSE 1
  OBVIOUS
<1>8. PICK u : u = [s EXCEPT !.cutter = q, !.ticking = FALSE]
  OBVIOUS
<1>9. (s.leading /\ s.accepting) \/ s.ticking
  BY <1>1 DEF Timer
<1>10. u \in Chain /\ SameRest(u, s) /\ u.cutter = q /\ ~u.ticking
  BY <1>8 DEF Chain, SameRest
<1>11. u \in Chain /\ Serving(u, lg, c, lead) /\ ~u.configInflight
  BY <1>5, <1>6, <1>9, <1>10, ServingStarts
<1>12. PICK r : r = propose(u, k, FALSE)
  OBVIOUS
<1>13. r \in Chain /\ Serving(r, lg, c, lead) /\ ~r.configInflight
  BY <1>2, <1>11, <1>12, ProposeOK
<1>14. ChainOK(r, lg, c, lead)
  BY <1>13, ServingEnds
<1>15. UNCHANGED raftVars /\ chain' = [chain EXCEPT ![n] = r]
  BY <1>1, <1>6, <1>7, <1>8, <1>12 DEF Timer
<1> QED
  BY <1>2, <1>3, <1>4, <1>13, <1>14, <1>15, ChainStep

\* The run loop takes a committed entry, with the change of role that comes with it.
LEMMA ApplyStep ==
  ASSUME SInv, NEW n \in Node, Apply(n)
  PROVE  SInv'
<1>1. PICK s \in Chain : s = chain[n]
  BY NodeFacts
<1>2. PICK lg \in Seq(Entry) : lg = log[n] /\ Chained(lg)
  BY NodeFacts
<1>3. PICK c \in 0..Len(lg) : c = commit[n]
  BY <1>2, NodeFacts
<1>4. PICK lead \in BOOLEAN : lead = (n \in leads)
  BY NodeFacts
<1>5. ChainOK(s, lg, c, lead)
  BY <1>1, <1>2, <1>3, <1>4, NodeFacts
<1>6. PICK u : u = LeaderChanged(s, n, n \in leads)
  OBVIOUS
<1>7. u \in Chain /\ ChainOK(u, lg, c, lead) /\ u.leading = lead /\ u.next = s.next
  <2>1. RaftTyped
    BY DEF SInv, RaftInv
  <2>2. u = LeaderChanged(s, n, lead)
    BY <1>4, <1>6
  <2> QED
    BY <1>5, <2>1, <2>2, LeaderChangedOK
<1>8. UNCHANGED raftVars
  BY DEF Apply
<1>9. CASE chain' = [chain EXCEPT ![n] = Resumed(u, Len(lg))]
  <2>1. PICK r : r = Resumed(u, Len(lg))
    OBVIOUS
  <2>2. r \in Chain /\ ChainOK(r, lg, c, lead)
    BY <1>7, <2>1, ResumedOK
  <2> QED
    BY <1>2, <1>3, <1>4, <1>8, <1>9, <2>1, <2>2, ChainStep
<1>10. CASE /\ s.next =< c
            /\ chain' = [chain EXCEPT ![n] = Resumed(apply(u, lg[s.next], s.next), Len(lg))]
  <2>1. PICK v : v = apply(u, lg[u.next], u.next)
    OBVIOUS
  <2>2. v \in Chain /\ ChainOK(v, lg, c, lead)
    BY <1>2, <1>7, <1>10, <2>1, ApplyOK
  <2>3. PICK r : r = Resumed(v, Len(lg))
    OBVIOUS
  <2>4. r \in Chain /\ ChainOK(r, lg, c, lead)
    BY <2>2, <2>3, ResumedOK
  <2>5. chain' = [chain EXCEPT ![n] = r]
    BY <1>7, <1>10, <2>1, <2>3
  <2> QED
    BY <1>2, <1>3, <1>4, <1>8, <2>4, <2>5, ChainStep
<1> QED
  BY <1>1, <1>2, <1>3, <1>6, <1>9, <1>10 DEF Apply, LastDelivered

\* The proposing goroutine takes a block: what is left in propC still follows.
LEMMA TakenFacts ==
  ASSUME NEW s \in Chain, NEW lg \in Seq(Entry), NEW c \in 0..Len(lg), NEW lead \in BOOLEAN,
         ChainOK(s, lg, c, lead), s.propC # << >>
  PROVE  /\ s.leading /\ ~s.justElected /\ s.bc[1] \in Block /\ Len(s.bc[1]) \in Nat
         /\ Head(s.propC) \in Block /\ Tail(s.propC) \in Seq(Block)
         /\ lead => \E sent \in Nat :
              /\ sent = Len(s.bc[1]) - Len(s.propC)
              /\ sent + 1 = Len(s.bc[1]) - Len(Tail(s.propC)) /\ sent + 1 =< Len(s.bc[1])
              /\ Head(s.propC) = FirstBlocks(s.bc[1], sent + 1)
              /\ \A i \in 1..Len(Tail(s.propC)) :
                   Tail(s.propC)[i] = FirstBlocks(s.bc[1], sent + 1 + i)
<1>1. s.leading /\ ~s.justElected /\ Len(s.bc) = 1
  BY DEF ChainOK, RoleOK, Idle
<1>2. s.bc \in Seq(Block) /\ s.propC \in Seq(Block)
  BY ChainFields
<1>3. PICK b \in Block : b = s.bc[1]
  BY <1>1, <1>2
<1>4. PICK p \in Nat : p = Len(s.propC) /\ p >= 1
  <2>1. Len(s.propC) \in Nat /\ Len(s.propC) # 0
    BY <1>2
  <2> QED
    BY <2>1
<1>5. PICK m \in Nat : m = Len(b)
  BY DEF Block
<1>6. /\ Head(s.propC) \in Block /\ Tail(s.propC) \in Seq(Block)
      /\ Head(s.propC) = s.propC[1] /\ Len(Tail(s.propC)) = p - 1
      /\ \A i \in 1..(p - 1) : Tail(s.propC)[i] = s.propC[i + 1]
  BY <1>2, <1>4
<1>7. ASSUME lead
      PROVE  \E sent \in Nat :
              /\ sent = Len(b) - Len(s.propC)
              /\ sent + 1 = Len(b) - Len(Tail(s.propC)) /\ sent + 1 =< Len(b)
              /\ Head(s.propC) = FirstBlocks(b, sent + 1)
              /\ \A i \in 1..Len(Tail(s.propC)) :
                   Tail(s.propC)[i] = FirstBlocks(b, sent + 1 + i)
  <2>1. Pipeline(s, lg, b)
    BY <1>1, <1>3, <1>7 DEF ChainOK
  <2>2. 0 =< m - p /\ \A i \in 1..p : s.propC[i] = FirstBlocks(b, (m - p) + i)
    BY <1>4, <1>5, <2>1 DEF Pipeline
  <2>3. PICK sent \in Nat : sent = m - p
    BY <2>2
  <2>4. sent + 1 = m - (p - 1) /\ sent + 1 =< m
    BY <1>4, <2>3
  <2>5. \A i \in 1..p : s.propC[i] = FirstBlocks(b, sent + i)
    BY <2>2, <2>3
  <2>6. Head(s.propC) = FirstBlocks(b, sent + 1)
    BY <1>4, <1>6, <2>5
  <2>7. ASSUME NEW i \in 1..(p - 1) PROVE Tail(s.propC)[i] = FirstBlocks(b, sent + 1 + i)
    <3>1. i + 1 \in 1..p /\ sent + (i + 1) = sent + 1 + i
      BY <1>4
    <3> QED
      BY <1>6, <2>5, <3>1
  <2>8. sent = Len(b) - Len(s.propC) /\ sent + 1 = Len(b) - Len(Tail(s.propC)) /\ sent + 1 =< Len(b)
    BY <1>4, <1>5, <1>6, <2>3, <2>4
  <2>9. \A i \in 1..Len(Tail(s.propC)) : Tail(s.propC)[i] = FirstBlocks(b, sent + 1 + i)
    BY <1>6, <2>7
  <2> QED
    BY <2>6, <2>8, <2>9
<1>8. s.bc[1] \in Block /\ Len(s.bc[1]) \in Nat
  BY <1>3, <1>5
<1> QED
  BY <1>1, <1>3, <1>6, <1>7, <1>8

\* The goroutine has taken a block, and goes on or not.
Took(r, s, go) == r = [s EXCEPT !.propC = Tail(s.propC), !.proposing = go]

\* All fields but those of the channel to the goroutine are the same.
SameButSent(r, s) ==
  /\ r.bc = s.bc /\ r.leading = s.leading /\ r.justElected = s.justElected
  /\ r.configInflight = s.configInflight /\ r.accepting = s.accepting
  /\ r.blocks = s.blocks /\ r.applied = s.applied /\ r.next = s.next
  /\ r.cutter = s.cutter /\ r.ticking = s.ticking

\* Handing a block of propC to Raft leaves the role and the barrier as they are.
LEMMA SentRole ==
  ASSUME NEW s \in Chain, NEW r, SameButSent(r, s), RoleOK(s), BarrierOK(s),
         s.leading, ~s.justElected
  PROVE  RoleOK(r) /\ BarrierOK(r)
BY DEF SameButSent, RoleOK, BarrierOK

\* Raft refuses the block, and the goroutine ends.
LEMMA RefusedOK ==
  ASSUME NEW s \in Chain, NEW lg \in Seq(Entry), NEW c \in 0..Len(lg), NEW lead \in BOOLEAN,
         ChainOK(s, lg, c, lead), s.propC # << >>,
         NEW r, Took(r, s, FALSE)
  PROVE  r \in Chain /\ ChainOK(r, lg, c, lead)
<1>1. /\ s.leading /\ ~s.justElected /\ Tail(s.propC) \in Seq(Block)
      /\ lead => \E sent \in Nat :
              /\ sent = Len(s.bc[1]) - Len(s.propC)
              /\ sent + 1 = Len(s.bc[1]) - Len(Tail(s.propC)) /\ sent + 1 =< Len(s.bc[1])
              /\ Head(s.propC) = FirstBlocks(s.bc[1], sent + 1)
              /\ \A i \in 1..Len(Tail(s.propC)) :
                   Tail(s.propC)[i] = FirstBlocks(s.bc[1], sent + 1 + i)
  BY TakenFacts
<1>2. PICK q \in Seq(Block) : q = Tail(s.propC)
  BY <1>1
<1>3. r = [s EXCEPT !.propC = q, !.proposing = FALSE]
  BY <1>2 DEF Took
<1>4. r \in Chain
  BY <1>3 DEF Chain
<1>5. r.propC = q /\ r.proposing = FALSE /\ SameButSent(r, s)
  BY <1>3 DEF Chain, SameButSent
<1>6. RoleOK(r) /\ BarrierOK(r)
  BY <1>1, <1>5, SentRole DEF ChainOK
<1>7. Ledger(r, lg, c)
  BY <1>5 DEF ChainOK, Ledger, SameButSent
<1>8. ASSUME lead PROVE Pipeline(r, lg, r.bc[1])
  <2>1. PICK b : b = s.bc[1]
    OBVIOUS
  <2>2. PICK sent \in Nat :
          /\ sent + 1 = Len(b) - Len(q)
          /\ \A i \in 1..Len(q) : q[i] = FirstBlocks(b, sent + 1 + i)
    BY <1>1, <1>2, <1>8, <2>1
  <2>3. Pipeline(s, lg, b)
    BY <1>1, <1>8, <2>1 DEF ChainOK
  <2>4. 0 =< Len(b) - Len(q)
    BY <2>2
  <2>5. \A i \in 1..Len(q) : q[i] = FirstBlocks(b, (Len(b) - Len(q)) + i)
    BY <2>2
  <2>6. r.bc[1] = b /\ r.applied = s.applied
    BY <1>5, <2>1 DEF SameButSent
  <2> QED
    BY <1>5, <2>3, <2>4, <2>5, <2>6 DEF Pipeline
<1> QED
  BY <1>4, <1>6, <1>7, <1>8 DEF ChainOK

\* Raft accepts the block: it follows the last block in the log.
LEMMA AcceptedOK ==
  ASSUME NEW s \in Chain, NEW lg \in Seq(Entry), NEW c \in 0..Len(lg), NEW lead \in BOOLEAN, lead,
         Chained(lg), ChainOK(s, lg, c, lead), s.propC # << >>, s.proposing,
         NEW e \in Entry, e.block = Head(s.propC), NEW r, Took(r, s, TRUE)
  PROVE  /\ Chained(Append(lg, e))
         /\ r \in Chain /\ ChainOK(r, Append(lg, e), c, lead)
<1>1. /\ s.leading /\ ~s.justElected /\ s.bc[1] \in Block /\ Len(s.bc[1]) \in Nat
      /\ Head(s.propC) \in Block /\ Tail(s.propC) \in Seq(Block)
      /\ \E sent \in Nat :
              /\ sent = Len(s.bc[1]) - Len(s.propC)
              /\ sent + 1 = Len(s.bc[1]) - Len(Tail(s.propC)) /\ sent + 1 =< Len(s.bc[1])
              /\ Head(s.propC) = FirstBlocks(s.bc[1], sent + 1)
              /\ \A i \in 1..Len(Tail(s.propC)) :
                   Tail(s.propC)[i] = FirstBlocks(s.bc[1], sent + 1 + i)
  BY TakenFacts
<1>2. PICK q \in Seq(Block) : q = Tail(s.propC)
  BY <1>1
<1>3. PICK h \in Block : h = Head(s.propC)
  BY <1>1
<1>4. PICK b \in Block : b = s.bc[1] /\ Len(b) \in Nat
  BY <1>1
<1>5. PICK sent \in Nat :
         /\ sent = Len(b) - Len(s.propC)
         /\ sent + 1 = Len(b) - Len(q) /\ sent + 1 =< Len(b)
         /\ h = FirstBlocks(b, sent + 1)
         /\ \A i \in 1..Len(q) : q[i] = FirstBlocks(b, sent + 1 + i)
  BY <1>1, <1>2, <1>3, <1>4
<1>6. e.block = h
  BY <1>3
<1>7. r = [s EXCEPT !.propC = q, !.proposing = TRUE]
  BY <1>2 DEF Took
<1>8. r \in Chain
  BY <1>7 DEF Chain
<1>9. r.propC = q /\ SameButSent(r, s)
  BY <1>7 DEF Chain, SameButSent
<1>10. RoleOK(r) /\ BarrierOK(r)
  BY <1>1, <1>9, SentRole DEF ChainOK
<1>11. /\ Len(lg) \in Nat /\ Append(lg, e) \in Seq(Entry) /\ Len(Append(lg, e)) = Len(lg) + 1
       /\ Append(lg, e)[Len(lg) + 1] = e /\ \A k \in 1..Len(lg) : Append(lg, e)[k] = lg[k]
  BY <1>6, AppendSeq
<1>12. Pipeline(s, lg, b)
  BY <1>1, <1>4 DEF ChainOK
<1>13. Tip(lg, FirstBlocks(b, sent))
  BY <1>5, <1>12 DEF Pipeline
<1>14. /\ Len(h) = sent + 1 /\ Len(FirstBlocks(b, sent)) = sent
       /\ Prefix(h) = FirstBlocks(b, sent)
  <2>1. b \in Seq([term : Nat, config : BOOLEAN])
    BY DEF Block
  <2>2. sent \in 0..Len(b) /\ sent + 1 \in 0..Len(b)
    <3>1. \A i, j \in Nat : i + 1 =< j => i \in 0..j /\ i + 1 \in 0..j
      OBVIOUS
    <3>2. sent \in Nat /\ Len(b) \in Nat /\ sent + 1 =< Len(b)
      BY <1>4, <1>5
    <3> QED
      BY <3>1, <3>2, Zenon
  <2>3. Len(SubSeq(b, 1, sent)) = sent /\ Len(SubSeq(b, 1, sent + 1)) = sent + 1
    BY <2>1, <2>2, SubSeqFacts
  <2>4. SubSeq(SubSeq(b, 1, sent + 1), 1, sent) = SubSeq(b, 1, sent)
    BY <2>1, <2>2
  <2>5. Len(h) - 1 = sent
    <3>1. Len(h) = sent + 1
      BY <1>5, <2>3, Zenon DEF FirstBlocks
    <3>2. (sent + 1) - 1 = sent
      BY <1>5
    <3> QED
      BY <3>1, <3>2, Zenon
  <2> QED
    BY <1>5, <2>3, <2>4, <2>5 DEF FirstBlocks, Prefix
<1>15. \A k \in 1..Len(lg) : Len(lg[k].block) =< sent
  BY <1>13, <1>14 DEF Tip
<1>16. Chained(Append(lg, e))
  <2>1. ASSUME NEW k \in 1..Len(lg) PROVE Len(lg[k].block) < Len(h)
    <3>1. Len(lg[k].block) =< sent /\ Len(lg[k].block) \in Nat
      BY <1>15, EntryBlock
    <3> QED
      BY <1>14, <3>1
  <2>2. ASSUME Len(h) > 1 PROVE \E j \in 1..Len(lg) : lg[j].block = Prefix(h)
    <3>1. FirstBlocks(b, sent) # NoBlock
      <4>1. sent # 0
        BY <1>14, <2>2
      <4> QED
        BY <1>14, <4>1 DEF NoBlock
    <3> QED
      BY <1>13, <1>14, <3>1 DEF Tip
  <2> QED
    BY <1>6, <2>1, <2>2, ChainedAppend
<1>17. Ledger(r, Append(lg, e), c)
  <2>1. Ledger(r, lg, c)
    BY <1>9 DEF ChainOK, Ledger, SameButSent
  <2>2. Same(lg, Append(lg, e), c)
    BY <1>11 DEF Same
  <2>3. c \in Nat /\ c =< c
    BY <1>11
  <2> QED
    BY <1>8, <1>11, <2>1, <2>2, <2>3, LedgerKept
<1>18. Pipeline(r, Append(lg, e), b)
  <2>1. PICK x \in Seq(Entry) : x = Append(lg, e)
    BY <1>11
  <2>2. r.applied = s.applied /\ s.applied \in Nat /\ Len(x) = Len(lg) + 1 /\ x[Len(lg) + 1] = e
        /\ \A k \in 1..Len(lg) : x[k] = lg[k]
    BY <1>9, <1>11, <2>1, ChainFields DEF SameButSent
  <2>3. \A k \in 1..Len(x) : k \in 1..Len(lg) \/ k = Len(lg) + 1
    BY <1>11, <2>2
  <2>4. 0 =< Len(b) - Len(q)
    BY <1>5
  <2>5. \A i \in 1..Len(q) : q[i] = FirstBlocks(b, (Len(b) - Len(q)) + i)
    BY <1>5
  <2>6. ASSUME NEW k \in 1..Len(x), k > r.applied, x[k].block # NoBlock
        PROVE  Len(x[k].block) =< Len(b) /\ x[k].block = FirstBlocks(b, Len(x[k].block))
    <3>1. CASE k \in 1..Len(lg)
      BY <1>12, <2>2, <2>6, <3>1 DEF Pipeline
    <3>2. CASE k = Len(lg) + 1
      BY <1>5, <1>6, <1>14, <2>2, <3>2
    <3> QED
      BY <2>3, <3>1, <3>2
  <2>7. Tip(x, h)
    <3>1. Len(lg) + 1 \in 1..Len(x) /\ x[Len(lg) + 1].block = h
      BY <1>6, <1>11, <2>2
    <3>2. ASSUME NEW k \in 1..Len(x) PROVE Len(x[k].block) =< Len(h)
      <4>1. CASE k \in 1..Len(lg)
        <5>1. Len(lg[k].block) =< sent /\ Len(lg[k].block) \in Nat
          BY <1>15, <4>1, EntryBlock
        <5> QED
          BY <1>14, <2>2, <4>1, <5>1
      <4>2. CASE k = Len(lg) + 1
        BY <1>6, <1>14, <2>2, <4>2
      <4> QED
        BY <2>3, <4>1, <4>2
    <3> QED
      BY <3>1, <3>2 DEF Tip
  <2>8. FirstBlocks(b, Len(b) - Len(q)) = h
    BY <1>5
  <2> QED
    BY <1>9, <2>1, <2>4, <2>5, <2>6, <2>7, <2>8 DEF Pipeline
<1>19. r.bc[1] = b
  BY <1>4, <1>9 DEF SameButSent
<1> QED
  BY <1>8, <1>10, <1>16, <1>17, <1>18, <1>19 DEF ChainOK

\* A step of Raft: it keeps what is committed, and no chain that works as a leader is
\* elected again or gets another log.
LEMMA RaftStep ==
  ASSUME SInv, RaftInv', Kept, chain' = chain, \A m \in Node : Chained(log'[m]),
         \A m \in Node : m \in leads' /\ chain[m].leading => m \in leads /\ log'[m] = log[m]
  PROVE  SInv'
<1>1. ASSUME NEW m \in Node PROVE ChainOK(chain[m], log'[m], commit'[m], m \in leads')
  <2>1. PICK s \in Chain : s = chain[m]
    BY NodeFacts
  <2>2. Ledger(s, log[m], commit[m]) /\ RoleOK(s) /\ BarrierOK(s)
        /\ (m \in leads /\ s.leading /\ ~s.justElected => Pipeline(s, log[m], s.bc[1]))
    BY <2>1, NodeFacts DEF ChainOK
  <2>3. Ledger(s, log'[m], commit'[m])
    <3>1. PICK x \in Seq(Entry), y \in Seq(Entry), c \in Nat, d \in Nat :
            x = log[m] /\ y = log'[m] /\ c = commit[m] /\ d = commit'[m]
      BY NodeFacts DEF RaftInv, RaftTyped
    <3>2. Same(x, y, c) /\ c =< d
      BY <3>1 DEF Kept
    <3> QED
      BY <2>2, <3>1, <3>2, LedgerKept
  <2>4. m \in leads' /\ s.leading /\ ~s.justElected => Pipeline(s, log'[m], s.bc[1])
    BY <2>1, <2>2
  <2> QED
    BY <2>1, <2>2, <2>3, <2>4 DEF ChainOK
<1> QED
  BY <1>1 DEF SInv, ChainInv

\* Nothing happens to the logs.
LEMMA KeptSame ==
  ASSUME SInv, UNCHANGED <<log, commit>>
  PROVE  Kept
<1> SUFFICES ASSUME NEW n \in Node
             PROVE  commit[n] =< commit[n] /\ Same(log[n], log[n], commit[n])
  BY DEF Kept
<1>1. commit[n] \in Nat /\ commit[n] =< Len(log[n]) /\ log[n] \in Seq(Entry)
  BY NodeFacts
<1> QED
  BY <1>1, SameRefl

\* A log that grows keeps what is committed.
LEMMA KeptGrows ==
  ASSUME SInv, NEW n \in Node, NEW e \in Entry, log' = [log EXCEPT ![n] = Append(log[n], e)],
         commit' = commit
  PROVE  Kept
<1> SUFFICES ASSUME NEW m \in Node
             PROVE  commit[m] =< commit[m] /\ Same(log[m], log'[m], commit[m])
  BY DEF Kept
<1>1. commit[m] \in Nat /\ commit[m] =< Len(log[m])
  BY NodeFacts
<1>2. /\ Len(log[m]) \in Nat /\ Len(log'[m]) \in Nat /\ Len(log'[m]) >= Len(log[m])
      /\ \A k \in 1..Len(log[m]) : log'[m][k] = log[m][k]
  BY LogGrows DEF SInv, RaftInv
<1> QED
  BY <1>1, <1>2 DEF Same

\* An election appends an entry without a block to one log; no chain and no committed entry moves.
LEMMA ElectStep ==
  ASSUME SInv, NEW n \in Node, NEW Q \in Quorum, Elect(n, Q)
  PROVE  SInv'
<1>1. RaftInv' /\ \E e \in Entry : e.block = NoBlock /\ log' = [log EXCEPT ![n] = Append(log[n], e)]
  BY ElectRaft DEF SInv
<1>2. PICK e \in Entry : e.block = NoBlock /\ log' = [log EXCEPT ![n] = Append(log[n], e)]
  BY <1>1
<1>3. Kept
  BY <1>2, KeptGrows DEF Elect
<1>4. log'[n] = Append(log[n], e) /\ \A m \in Node : m # n => log'[m] = log[m]
  BY <1>2 DEF SInv, RaftInv, RaftTyped
<1>5. \A m \in Node : Chained(log'[m])
  <2> SUFFICES ASSUME NEW m \in Node PROVE Chained(log'[m])
    OBVIOUS
  <2>1. CASE m = n
    <3>1. PICK lg \in Seq(Entry) : lg = log[n] /\ Chained(lg)
      BY NodeFacts
    <3>2. Chained(Append(lg, e))
      BY <1>2, <3>1, ChainedAppend
    <3> QED
      BY <1>4, <2>1, <3>1, <3>2
  <2>2. CASE m # n
    BY <1>4, <2>2, NodeFacts
  <2> QED
    BY <2>1, <2>2
<1>6. ASSUME NEW m \in Node, m \in leads', chain[m].leading PROVE m \in leads /\ log'[m] = log[m]
  <2>1. m # n /\ m \in leads
    BY <1>6 DEF Elect
  <2> QED
    BY <1>4, <2>1
<1>7. chain' = chain
  BY DEF Elect
<1> QED
  BY <1>1, <1>3, <1>5, <1>6, <1>7, RaftStep

\* A leader steps down: Raft has a leader less, and nothing else changes.
LEMMA StepDownStep ==
  ASSUME SInv, NEW n \in Node, StepDown(n)
  PROVE  SInv'
<1>1. /\ leads' \in SUBSET leads /\ UNCHANGED <<term, log, commit, chain>>
      /\ match' \in [Node -> [Node -> Nat]] /\ \A l \in leads' : match'[l] = match[l]
  BY DEF StepDown, SInv, RaftInv, RaftTyped, NoMatch
<1>2. RaftInv'
  BY <1>1, RaftShrinks DEF SInv
<1>3. Kept
  BY <1>1, KeptSame
<1> QED
  BY <1>1, <1>2, <1>3, RaftStep, NodeFacts

\* A log is copied to a follower and the commit index advances; committed entries stay.
LEMMA ReplicateStep ==
  ASSUME SInv, NEW l \in Node, NEW m \in Node, Replicate(l, m)
  PROVE  SInv'
<1>1. RaftInv' /\ Kept
  BY ReplicateRaft DEF SInv
<1>2. /\ log' = [log EXCEPT ![m] = log[l]] /\ leads' = leads \ {m} /\ chain' = chain
  BY DEF Replicate
<1>3. log'[m] = log[l] /\ \A o \in Node : o # m => log'[o] = log[o]
  BY <1>2 DEF SInv, RaftInv, RaftTyped
<1>4. ASSUME NEW o \in Node PROVE Chained(log'[o])
  <2>1. CASE o = m
    BY <1>3, <2>1, NodeFacts
  <2>2. CASE o # m
    BY <1>3, <2>2, NodeFacts
  <2> QED
    BY <2>1, <2>2
<1>5. ASSUME NEW o \in Node, o \in leads' PROVE o \in leads /\ log'[o] = log[o]
  BY <1>2, <1>3, <1>5
<1> QED
  BY <1>1, <1>2, <1>4, <1>5, RaftStep

\* A leadership transfer, begun or given up, changes nothing the invariant is about.
LEMMA TransferStep ==
  ASSUME SInv, NEW n \in Node, TransferLeadership(n) \/ AbortTransfer(n)
  PROVE  SInv'
<1>1. UNCHANGED <<term, leads, log, commit, match, chain>>
  BY DEF TransferLeadership, AbortTransfer
<1>2. RaftInv'
  <2>1. match' \in [Node -> [Node -> Nat]] /\ \A l \in leads' : match'[l] = match[l]
    BY <1>1 DEF SInv, RaftInv, RaftTyped
  <2> QED
    BY <1>1, <2>1, RaftShrinks DEF SInv
<1>3. Kept
  BY <1>1, KeptSame
<1> QED
  BY <1>1, <1>2, <1>3, RaftStep, NodeFacts

\* The goroutine hands the next block to Raft, which refuses it or appends it to the log.
LEMMA ProposeStep ==
  ASSUME SInv, NEW n \in Node, Propose(n)
  PROVE  SInv'
<1>1. PICK s \in Chain : s = chain[n]
  BY NodeFacts
<1>2. PICK lg \in Seq(Entry) : lg = log[n] /\ Chained(lg)
  BY NodeFacts
<1>3. PICK c \in 0..Len(lg) : c = commit[n]
  BY <1>2, NodeFacts
<1>4. s.proposing /\ s.propC # << >> /\ UNCHANGED <<term, leads, commit, match, transfer>>
  BY <1>1 DEF Propose
<1>5. CASE n \notin leads \ transfer
  <2>1. PICK lead \in BOOLEAN : lead = (n \in leads)
    BY NodeFacts
  <2>2. ChainOK(s, lg, c, lead)
    BY <1>1, <1>2, <1>3, <2>1, NodeFacts
  <2>3. PICK r : r = [s EXCEPT !.propC = Tail(s.propC), !.proposing = FALSE]
    OBVIOUS
  <2>4. r \in Chain /\ ChainOK(r, lg, c, lead)
    <3>1. Took(r, s, FALSE)
      BY <2>3 DEF Took
    <3> QED
      BY <1>4, <2>2, <3>1, RefusedOK
  <2>5. log' = log
    BY <1>5 DEF Propose
  <2>6. chain' = [chain EXCEPT ![n] = r]
    <3>1. (n \in leads \ transfer) = FALSE
      BY <1>5
    <3>2. chain' = [chain EXCEPT ![n] = [s EXCEPT !.propC = Tail(@), !.proposing = (n \in leads \ transfer)]]
      BY <1>1 DEF Propose
    <3>3. chain' = [chain EXCEPT ![n] = [s EXCEPT !.propC = Tail(s.propC), !.proposing = FALSE]]
      BY <3>1, <3>2
    <3> QED
      BY <2>3, <3>3
  <2>7. UNCHANGED raftVars
    BY <1>4, <2>5 DEF raftVars
  <2> QED
    BY <1>2, <1>3, <2>1, <2>4, <2>6, <2>7, ChainStep
<1>6. CASE n \in leads \ transfer
  <2>1. PICK lead \in BOOLEAN : lead /\ lead = (n \in leads)
    BY <1>6, NodeFacts
  <2>2. ChainOK(s, lg, c, lead)
    BY <1>1, <1>2, <1>3, <2>1, NodeFacts
  <2>3. PICK t \in Nat : t = term[n]
    BY NodeFacts
  <2>4. PICK e \in Entry : e = [term |-> t, block |-> Head(s.propC)]
    <3>1. Head(s.propC) \in Block
      BY <1>4, <2>2, TakenFacts
    <3> QED
      BY <3>1 DEF Entry
  <2>5. PICK r : r = [s EXCEPT !.propC = Tail(s.propC), !.proposing = TRUE]
    OBVIOUS
  <2>6. /\ Chained(Append(lg, e))
        /\ r \in Chain /\ ChainOK(r, Append(lg, e), c, lead)
    <3>1. e.block = Head(s.propC) /\ Took(r, s, TRUE)
      BY <2>4, <2>5 DEF Took
    <3> QED
      BY <1>2, <1>4, <2>1, <2>2, <3>1, AcceptedOK
  <2>7. log' = [log EXCEPT ![n] = Append(log[n], e)]
    BY <1>1, <1>6, <2>3, <2>4 DEF Propose
  <2>8. chain' = [chain EXCEPT ![n] = r]
    <3>1. (n \in leads \ transfer) = TRUE
      BY <1>6
    <3>2. chain' = [chain EXCEPT ![n] = [s EXCEPT !.propC = Tail(@), !.proposing = (n \in leads \ transfer)]]
      BY <1>1 DEF Propose
    <3>3. chain' = [chain EXCEPT ![n] = [s EXCEPT !.propC = Tail(s.propC), !.proposing = TRUE]]
      BY <3>1, <3>2
    <3> QED
      BY <2>5, <3>3
  <2>9. RaftInv'
    <3>1. e.term = term[n]
      BY <2>3, <2>4
    <3> QED
      BY <1>4, <1>6, <2>6, <2>7, <3>1, ProposeRaft DEF SInv
  <2>10. log'[n] = Append(lg, e) /\ \A m \in Node : m # n => log'[m] = log[m]
    BY <1>2, <2>7 DEF SInv, RaftInv, RaftTyped
  <2>11. chain' \in [Node -> Chain] /\ chain'[n] = r /\ \A m \in Node : m # n => chain'[m] = chain[m]
    BY <2>6, <2>8 DEF SInv, ChainInv
  <2>12. ASSUME NEW m \in Node
         PROVE  Chained(log'[m]) /\ ChainOK(chain'[m], log'[m], commit'[m], m \in leads')
    <3>1. CASE m = n
      <4>1. lead = (n \in leads') /\ commit'[n] = c
        BY <1>3, <1>4, <2>1
      <4> QED
        BY <2>6, <2>10, <2>11, <3>1, <4>1
    <3>2. CASE m # n
      BY <1>4, <2>10, <2>11, <3>2, NodeFacts
    <3> QED
      BY <3>1, <3>2
  <2> QED
    BY <2>9, <2>11, <2>12 DEF SInv, ChainInv
<1> QED
  BY <1>5, <1>6

\* A crash keeps the log and the ledger, but for the last block, which is written from the log again.
LEMMA RestartStep ==
  ASSUME SInv, NEW n \in Node, Restart(n)
  PROVE  SInv'
<1>1. PICK s \in Chain : s = chain[n]
  BY NodeFacts
<1>2. PICK lg \in Seq(Entry) : lg = log[n] /\ Chained(lg)
  BY NodeFacts
<1>3. PICK c \in 0..Len(lg) : c = commit[n]
  BY <1>2, NodeFacts
<1>4. PICK lost \in {0, 1} :
        /\ lost = 1 => s.blocks # << >>
        /\ chain' = [chain EXCEPT ![n] = Started(SubSeq(s.blocks, 1, Len(s.blocks) - lost))]
  BY <1>1 DEF Restart
<1>5. PICK j \in 0..Len(s.blocks) : j = Len(s.blocks) - lost
  <2>1. s.blocks \in Seq(Written) /\ Len(s.blocks) \in Nat
    BY ChainFields
  <2>2. lost = 1 => Len(s.blocks) # 0
    BY <1>4, <2>1
  <2>3. \A i \in Nat, k \in {0, 1} : (k = 1 => i # 0) => i - k \in 0..i
    OBVIOUS
  <2>4. Len(s.blocks) - lost \in 0..Len(s.blocks)
    BY <2>1, <2>2, <2>3, Zenon
  <2> QED
    BY <2>4
<1>6. PICK r : r = Started(SubSeq(s.blocks, 1, j))
  OBVIOUS
<1>7. r \in Chain /\ ChainOK(r, lg, c, FALSE)
  <2>1. Ledger(s, lg, c)
    BY <1>1, <1>2, <1>3, NodeFacts DEF ChainOK
  <2>2. Fresh(r, SubSeq(s.blocks, 1, j))
    BY <1>6 DEF Fresh
  <2> QED
    BY <1>2, <2>1, <2>2, StartedOK
<1>8. chain' = [chain EXCEPT ![n] = r]
  BY <1>4, <1>5, <1>6
<1>9. /\ leads' = leads \ {n} /\ UNCHANGED <<term, log, commit>>
      /\ match' \in [Node -> [Node -> Nat]] /\ \A l \in leads' : match'[l] = match[l]
  BY DEF Restart, SInv, RaftInv, RaftTyped, NoMatch
<1>10. RaftInv'
  <2>1. leads' \in SUBSET leads
    BY <1>9
  <2> QED
    BY <1>9, <2>1, RaftShrinks DEF SInv
<1>11. chain' \in [Node -> Chain] /\ chain'[n] = r /\ \A m \in Node : m # n => chain'[m] = chain[m]
  BY <1>7, <1>8 DEF SInv, ChainInv
<1>12. ASSUME NEW m \in Node
       PROVE  Chained(log'[m]) /\ ChainOK(chain'[m], log'[m], commit'[m], m \in leads')
  <2>1. CASE m = n
    <3>1. (n \in leads') = FALSE
      BY <1>9
    <3> QED
      BY <1>2, <1>3, <1>7, <1>9, <1>11, <2>1, <3>1
  <2>2. CASE m # n
    <3>1. (m \in leads') = (m \in leads)
      BY <1>9, <2>2
    <3> QED
      BY <1>9, <1>11, <2>2, <3>1, NodeFacts
  <2> QED
    BY <2>1, <2>2
<1> QED
  BY <1>10, <1>11, <1>12 DEF SInv, ChainInv

\* The invariant holds when the orderers start.
LEMMA InitSInv ==
  Init => SInv
<1> SUFFICES ASSUME Init PROVE SInv
  OBVIOUS
<1> USE RaftChainAssumption
<1>1. /\ \A n \in Node : /\ term[n] = 0 /\ log[n] = << >> /\ commit[n] = 0
                         /\ Len(log[n]) = 0 /\ 1..Len(log[n]) = {}
      /\ leads = {}
  BY DEF Init
<1>2. RaftTyped
  <2>1. << >> \in Seq(Entry) /\ 0 \in 0..MaxTerm /\ NoMatch \in [Node -> Nat]
    BY DEF NoMatch
  <2> QED
    BY <2>1 DEF Init, RaftTyped
<1>3. TermsOrdered /\ LeaderLast /\ OneLeader /\ LeaderHasAll /\ LogMatching
  BY <1>1 DEF TermsOrdered, LeaderLast, OneLeader, LeaderHasAll, LogMatching
<1>4. Voted /\ Acknowledged /\ Electable /\ CommitsSafe
  BY <1>1 DEF Voted, Acknowledged, Electable, CommitsSafe
<1>5. PICK e \in Seq(Written) : e = << >>
  <2>1. << >> \in Seq(Written)
    OBVIOUS
  <2> QED
    BY <2>1, Zenon
<1>6. PICK r : r = Started(e)
  OBVIOUS
<1>7. /\ r \in Chain /\ r.blocks = << >> /\ r.next = 1 /\ r.applied = 0
      /\ ~r.leading /\ r.propC = << >> /\ ~r.ticking
      /\ r.bc = << >> /\ r.cutter.batch = << >>
  BY <1>5, <1>6, StartedFacts DEF Fresh
<1>8. ASSUME NEW n \in Node
      PROVE  chain[n] = r /\ Chained(log[n]) /\ ChainOK(chain[n], log[n], commit[n], n \in leads)
  <2>1. chain[n] = r
    BY <1>5, <1>6 DEF Init
  <2>2. Chained(log[n])
    BY <1>1 DEF Chained
  <2>3. Ledger(r, log[n], 0)
    <3>1. 1..Len(r.blocks) = {} /\ 1..r.applied = {} /\ r.applied =< 0 /\ 1 =< r.next
          /\ r.next =< r.applied + 1
      BY <1>7
    <3> QED
      BY <3>1 DEF Ledger
  <2>4. RoleOK(r) /\ BarrierOK(r)
    BY <1>7 DEF RoleOK, BarrierOK, Idle
  <2>5. n \notin leads
    BY <1>1
  <2> QED
    BY <1>1, <2>1, <2>2, <2>3, <2>4, <2>5 DEF ChainOK
<1>9. chain \in [Node -> Chain]
  BY <1>5, <1>6, <1>7 DEF Init
<1> QED
  BY <1>2, <1>3, <1>4, <1>8, <1>9 DEF SInv, RaftInv, ChainInv

-----------------------------------------------------------------------------
(* The steps, whatever is proposed.                                        *)

\* The weak ledger depends on what was committed only.
LEMMA FirstKept ==
  ASSUME NEW s \in Chain, NEW x \in Seq(Entry), NEW y \in Seq(Entry), NEW c \in Nat, NEW d \in Nat,
         First(s, x, c), Same(x, y, c), c =< d
  PROVE  First(s, y, d)
<1>1. s.applied \in Nat /\ s.applied =< c /\ s.applied =< d
  BY ChainFields DEF First
<1>2. \A k \in 1..s.applied : x[k] = y[k]
  BY <1>1 DEF Same
<1>3. 1 =< s.next /\ s.next =< s.applied + 1
  BY DEF First
<1>4. ASSUME NEW j \in 1..Len(s.blocks)
      PROVE  /\ s.blocks[j].index \in 1..s.applied
             /\ y[s.blocks[j].index].block = s.blocks[j].block
             /\ Len(s.blocks[j].block) = j
             /\ \A k \in 1..(s.blocks[j].index - 1) : Len(y[k].block) < j
  <2>1. PICK i \in 1..s.applied : i = s.blocks[j].index
    BY DEF First
  <2>2. \A k \in 1..(i - 1) : k \in 1..s.applied
    BY <1>1
  <2> QED
    BY <1>2, <2>1, <2>2 DEF First
<1>5. ~s.panicked => \A k \in 1..s.applied : Len(y[k].block) =< Len(s.blocks)
  BY <1>2 DEF First
<1> QED
  BY <1>1, <1>3, <1>4, <1>5 DEF First

\* A chain that starts, or panics, with a part of its ledger.
LEMMA FreshAny ==
  ASSUME NEW s \in Chain, NEW lg \in Seq(Entry), NEW c \in 0..Len(lg), First(s, lg, c),
         NEW j \in 0..Len(s.blocks), NEW r, Fresh(r, SubSeq(s.blocks, 1, j))
  PROVE  r \in Chain /\ AnyOK(r, lg, c)
<1>1. /\ s.blocks \in Seq(Written) /\ Len(s.blocks) \in Nat /\ s.applied \in Nat /\ s.applied =< c
      /\ j \in Nat /\ c \in Nat /\ Len(lg) \in Nat /\ c =< Len(lg)
  BY ChainFields DEF First
<1>2. PICK bs \in Seq(Written) : bs = SubSeq(s.blocks, 1, j)
  BY <1>1, SubSeqFacts
<1>3. Len(bs) = j /\ \A i \in 1..j : bs[i] = s.blocks[i] /\ i \in 1..Len(s.blocks)
  BY <1>1, <1>2, SubSeqFacts
<1>4. Fresh(r, bs)
  BY <1>2, Zenon
<1>5. /\ r \in Chain /\ r.blocks = bs /\ r.next = 1
      /\ r.applied = IF bs = << >> THEN 0 ELSE bs[Len(bs)].index
      /\ ~r.leading /\ ~r.ticking /\ r.cutter.batch = << >>
  BY <1>4, StartedFacts
<1>6. r.applied \in Nat
  BY <1>5, ChainFields
<1>7. CASE j = 0
  <2>1. r.applied = 0 /\ 1..Len(bs) = {} /\ 1..r.applied = {}
    BY <1>3, <1>5, <1>7
  <2>2. r.applied =< c /\ 1 =< r.next /\ r.next =< r.applied + 1
    BY <1>1, <1>5, <2>1
  <2>3. First(r, lg, c)
    BY <1>5, <2>1, <2>2 DEF First
  <2> QED
    BY <1>5, <2>3 DEF AnyOK, TimerOK
<1>8. CASE j # 0
  <2>1. j \in 1..j /\ bs # << >>
    BY <1>1, <1>3, <1>8
  <2>2. r.applied = s.blocks[j].index
    BY <1>3, <1>5, <2>1
  <2>3. /\ r.applied \in 1..s.applied /\ Len(lg[r.applied].block) = j
        /\ \A k \in 1..(r.applied - 1) : Len(lg[k].block) < j
    BY <1>3, <2>1, <2>2 DEF First
  <2>4. ASSUME NEW k \in 1..r.applied PROVE Len(lg[k].block) =< Len(bs)
    <3>1. Len(lg[k].block) \in Nat
      <4>1. k \in 1..Len(lg)
        BY <1>1, <1>6, <2>3
      <4> QED
        BY <4>1, EntryBlock
    <3>2. k = r.applied \/ k \in 1..(r.applied - 1)
      BY <1>6
    <3> QED
      BY <1>1, <1>3, <2>3, <3>1, <3>2
  <2>5. ASSUME NEW i \in 1..Len(bs)
        PROVE  /\ bs[i].index \in 1..r.applied
               /\ lg[bs[i].index].block = bs[i].block
               /\ Len(bs[i].block) = i
               /\ \A k \in 1..(bs[i].index - 1) : Len(lg[k].block) < i
    <3>1. i \in 1..j /\ bs[i] = s.blocks[i] /\ i \in 1..Len(s.blocks) /\ i \in Nat
      BY <1>3
    <3>2. PICK q \in 1..s.applied : q = s.blocks[i].index
      BY <3>1 DEF First
    <3>3. /\ lg[q].block = bs[i].block /\ Len(bs[i].block) = i
          /\ \A k \in 1..(q - 1) : Len(lg[k].block) < i
      BY <3>1, <3>2 DEF First
    <3>4. ~ (r.applied < q)
      <4> SUFFICES ASSUME r.applied < q PROVE FALSE
        OBVIOUS
      <4>1. r.applied \in 1..(q - 1)
        BY <1>1, <1>6, <2>3
      <4>2. j < i
        BY <2>3, <3>3, <4>1
      <4> QED
        BY <1>1, <3>1, <4>2
    <3>5. q \in 1..r.applied
      BY <1>1, <1>6, <3>4
    <3> QED
      BY <3>1, <3>2, <3>3, <3>5
  <2>6. r.applied =< c /\ 1 =< r.next /\ r.next =< r.applied + 1
    BY <1>1, <1>5, <1>6, <2>3
  <2>7. First(r, lg, c)
    BY <1>5, <2>4, <2>5, <2>6 DEF First
  <2> QED
    BY <1>5, <2>7 DEF AnyOK, TimerOK
<1> QED
  BY <1>7, <1>8

\* A chain that panics keeps its ledger.
LEMMA PanickedAny ==
  ASSUME NEW s \in Chain, NEW lg \in Seq(Entry), NEW c \in 0..Len(lg), First(s, lg, c),
         NEW r, r = Panicked(s)
  PROVE  /\ r \in Chain /\ AnyOK(r, lg, c) /\ r.panicked /\ ~r.ticking /\ r.cutter.batch = << >>
         /\ r.blocks = s.blocks
<1>1. s.blocks \in Seq(Written) /\ Len(s.blocks) \in Nat
  BY ChainFields
<1>2. PICK j \in 0..Len(s.blocks) : j = Len(s.blocks)
  BY <1>1
<1>3. SubSeq(s.blocks, 1, j) = s.blocks
  BY <1>1, <1>2
<1>4. Fresh(r, s.blocks)
  BY DEF Panicked, Fresh
<1>5. Fresh(r, SubSeq(s.blocks, 1, j))
  BY <1>3, <1>4
<1>6. r \in Chain /\ AnyOK(r, lg, c)
  BY <1>5, FreshAny
<1>7. ~r.ticking /\ r.cutter.batch = << >> /\ r.blocks = s.blocks
  BY <1>1, <1>4, StartedFacts
<1>8. r.panicked
  BY DEF Panicked, Started
<1> QED
  BY <1>6, <1>7, <1>8

\* What the weak ledger looks at.
SameLedger(r, s) ==
  r.blocks = s.blocks /\ r.applied = s.applied /\ r.next = s.next /\ r.panicked = s.panicked

\* The weak ledger is kept by whatever leaves these fields alone.
LEMMA SameLedgerFirst ==
  ASSUME NEW s, NEW r, NEW lg, NEW c, First(s, lg, c), SameLedger(r, s)
  PROVE  First(r, lg, c)
BY DEF First, SameLedger

\* One turn of the loop in propose.
LEMMA ProposeOneAny ==
  ASSUME NEW s \in Chain, NEW lg \in Seq(Entry), NEW c \in 0..Len(lg), NEW config \in BOOLEAN,
         AnyOK(s, lg, c), NEW r, r = ProposeOne(s, config)
  PROVE  r \in Chain /\ AnyOK(r, lg, c)
<1>1. CASE s.panicked \/ s.bc = << >> \/ Len(s.propC) >= MaxInflight
  <2>1. r = Panicked(s)
    BY <1>1 DEF ProposeOne
  <2> QED
    BY <2>1, PanickedAny DEF AnyOK
<1>2. CASE ~ (s.panicked \/ s.bc = << >> \/ Len(s.propC) >= MaxInflight)
  <2>1. /\ s.bc \in Seq(Block) /\ s.propC \in Seq(Block) /\ s.epoch \in Nat /\ s.blockInflight \in Int
        /\ s.configInflight \in BOOLEAN
    BY ChainFields
  <2>2. PICK b \in Block : b = s.bc[1]
    <3>1. Len(s.bc) \in Nat /\ Len(s.bc) # 0
      BY <1>2, <2>1
    <3>2. 1 \in 1..Len(s.bc)
      BY <3>1
    <3> QED
      BY <2>1, <3>2
  <2>3. PICK x \in [term : Nat, config : BOOLEAN] : x = [term |-> s.epoch, config |-> config]
    BY <2>1
  <2>4. PICK d \in Block : d = Append(b, x)
    BY AppendSeq DEF Block
  <2>5. d = createNextBlock(s, config)
    BY <2>2, <2>3, <2>4 DEF createNextBlock
  <2>6. PICK q \in Seq(Block) : q = Append(s.propC, d)
    BY <2>1, AppendSeq
  <2>7. PICK f \in BOOLEAN : f = (s.configInflight \/ config)
    OBVIOUS
  <2>8. PICK i \in Int : i = s.blockInflight + 1
    BY <2>1
  <2>9. r = [s EXCEPT !.bc = <<d>>, !.propC = q, !.configInflight = f, !.blockInflight = i]
    BY <1>2, <2>5, <2>6, <2>7, <2>8 DEF ProposeOne
  <2>10. <<d>> \in Seq(Block)
    OBVIOUS
  <2>11. r \in Chain
    BY <2>9, <2>10 DEF Chain
  <2>12. SameLedger(r, s) /\ r.ticking = s.ticking /\ r.cutter = s.cutter /\ r.leading = s.leading
    BY <2>9 DEF Chain, SameLedger
  <2>13. First(r, lg, c)
    BY <2>12, SameLedgerFirst DEF AnyOK
  <2> QED
    BY <2>11, <2>12, <2>13 DEF AnyOK, TimerOK
<1> QED
  BY <1>1, <1>2

\* propose of no, one or two blocks.
LEMMA ProposeAny ==
  ASSUME NEW s \in Chain, NEW lg \in Seq(Entry), NEW c \in 0..Len(lg), NEW config \in BOOLEAN, NEW n,
         AnyOK(s, lg, c), NEW r, r = propose(s, n, config)
  PROVE  r \in Chain /\ AnyOK(r, lg, c)
<1>1. CASE n = 0
  BY <1>1 DEF propose
<1>2. CASE n = 2
  <2>1. PICK u : u = ProposeOne(s, FALSE)
    OBVIOUS
  <2>2. u \in Chain /\ AnyOK(u, lg, c)
    BY <2>1, ProposeOneAny
  <2>3. r = ProposeOne(u, config)
    BY <1>2, <2>1 DEF propose
  <2> QED
    BY <2>2, <2>3, ProposeOneAny
<1>3. CASE n # 0 /\ n # 2
  <2>1. r = ProposeOne(s, config)
    BY <1>3 DEF propose
  <2> QED
    BY <2>1, ProposeOneAny
<1> QED
  BY <1>1, <1>2, <1>3

\* A request or the timer changes the block cutter, proposes, and may pause.
LEMMA ServeAny ==
  ASSUME NEW s \in Chain, NEW lg \in Seq(Entry), NEW c \in 0..Len(lg), AnyOK(s, lg, c),
         NEW u \in Chain, SameLedger(u, s), TimerOK(u),
         NEW k, NEW config \in BOOLEAN, NEW v, v = propose(u, k, config)
  PROVE  v \in Chain /\ AnyOK(v, lg, c) /\ Paused(v) \in Chain /\ AnyOK(Paused(v), lg, c)
<1>1. First(u, lg, c)
  BY SameLedgerFirst DEF AnyOK
<1>2. AnyOK(u, lg, c)
  BY <1>1 DEF AnyOK
<1>4. v \in Chain /\ AnyOK(v, lg, c)
  BY <1>2, ProposeAny
<1>5. PICK a \in BOOLEAN : a = (~v.configInflight /\ v.blockInflight < MaxInflight)
  OBVIOUS
<1>6. PICK r : r = [v EXCEPT !.accepting = a]
  OBVIOUS
<1>7. r = Paused(v)
  BY <1>5, <1>6 DEF Paused
<1>8. /\ r \in Chain /\ r.ticking = v.ticking /\ r.cutter = v.cutter /\ r.leading = v.leading
      /\ SameLedger(r, v)
  <2>1. PICK w \in Chain : w = v
    BY <1>4, Zenon
  <2>2. r = [w EXCEPT !.accepting = a]
    BY <1>6, <2>1, Zenon
  <2>3. r \in Chain /\ r.ticking = w.ticking /\ r.cutter = w.cutter /\ r.leading = w.leading
    BY <2>2 DEF Chain
  <2>4. SameLedger(r, w)
    BY <2>2 DEF Chain, SameLedger
  <2> QED
    BY <2>1, <2>3, <2>4, Zenon
<1>9. First(r, lg, c)
  BY <1>4, <1>8, SameLedgerFirst DEF AnyOK
<1>10. AnyOK(r, lg, c)
  BY <1>4, <1>8, <1>9 DEF AnyOK, TimerOK
<1> QED
  BY <1>4, <1>7, <1>8, <1>10

\* The chain learns who leads.
LEMMA LeaderChangedAny ==
  ASSUME RaftTyped, NEW n \in Node, NEW s \in Chain, NEW lg, NEW c, NEW lead \in BOOLEAN,
         AnyOK(s, lg, c), NEW r, r = LeaderChanged(s, n, lead)
  PROVE  r \in Chain /\ AnyOK(r, lg, c) /\ SameLedger(r, s)
<1>1. s.leading \in BOOLEAN /\ term[n] \in Nat
  BY ChainFields, LogFacts
<1>2. CASE lead = s.leading
  <2>1. r = s
    BY <1>2 DEF LeaderChanged, Chain
  <2> QED
    BY <2>1 DEF SameLedger
<1>3. CASE lead /\ ~s.leading
  <2>1. PICK t \in Nat : t = term[n]
    BY <1>1
  <2>2. r = [becomeLeader(s, t) EXCEPT !.leading = TRUE]
    BY <1>3, <2>1 DEF LeaderChanged
  <2>3. r \in Chain
    BY <2>2, BecomeTypes
  <2>4. r = [s EXCEPT !.blockInflight = 0, !.justElected = TRUE, !.accepting = FALSE,
                      !.propC = << >>, !.proposing = TRUE, !.epoch = t, !.leading = TRUE]
    BY <2>2 DEF becomeLeader
  <2>5. SameLedger(r, s) /\ r.ticking = s.ticking /\ r.cutter = s.cutter /\ r.leading
    BY <2>4 DEF Chain, SameLedger
  <2>6. First(r, lg, c)
    BY <2>5, SameLedgerFirst DEF AnyOK
  <2> QED
    BY <2>3, <2>5, <2>6 DEF AnyOK, TimerOK
<1>4. CASE ~lead /\ s.leading
  <2>1. r = [becomeFollower(s) EXCEPT !.leading = FALSE]
    BY <1>4 DEF LeaderChanged
  <2>2. r \in Chain
    BY <2>1, BecomeTypes
  <2>3. r = [s EXCEPT !.blockInflight = 0, !.cutter = EmptyReceiver, !.ticking = FALSE,
                      !.accepting = TRUE, !.bc = << >>, !.propC = << >>, !.proposing = FALSE,
                      !.cancelled = Cancelled(s), !.epoch = 0, !.leading = FALSE]
    BY <2>1 DEF becomeFollower
  <2>4. SameLedger(r, s) /\ ~r.ticking /\ r.cutter = EmptyReceiver
    BY <2>3 DEF Chain, SameLedger
  <2>5. First(r, lg, c)
    BY <2>4, SameLedgerFirst DEF AnyOK
  <2> QED
    BY <2>2, <2>4, <2>5, EmptyReceiverType DEF AnyOK, TimerOK
<1> QED
  BY <1>1, <1>2, <1>3, <1>4

\* The end of the case of applyC.
LEMMA ResumedAny ==
  ASSUME NEW s \in Chain, NEW lg, NEW c, AnyOK(s, lg, c), NEW i, NEW r, r = Resumed(s, i)
  PROVE  r \in Chain /\ AnyOK(r, lg, c)
<1>1. LastBlock(s) \in Block
  <2>1. s.blocks \in Seq(Written)
    BY ChainFields
  <2>2. CASE s.blocks = << >>
    BY <2>2 DEF LastBlock, NoBlock, Block
  <2>3. CASE s.blocks # << >>
    <3>1. s.blocks[Len(s.blocks)] \in Written
      BY <2>1, <2>3
    <3> QED
      BY <2>3, <3>1 DEF LastBlock, Written
  <2> QED
    BY <2>2, <2>3
<1>2. PICK b \in Block : b = LastBlock(s)
  BY <1>1
<1>3. \/ r = s
      \/ r = [s EXCEPT !.bc = <<b>>, !.accepting = TRUE, !.justElected = FALSE]
      \/ \E a \in BOOLEAN : r = [s EXCEPT !.accepting = a]
  BY <1>2 DEF Resumed
<1>4. <<b>> \in Seq(Block)
  OBVIOUS
<1>5. /\ r \in Chain /\ SameLedger(r, s) /\ r.ticking = s.ticking /\ r.cutter = s.cutter
      /\ r.leading = s.leading
  <2>1. CASE r = s
    BY <2>1 DEF SameLedger
  <2>2. CASE r = [s EXCEPT !.bc = <<b>>, !.accepting = TRUE, !.justElected = FALSE]
    BY <1>4, <2>2 DEF Chain, SameLedger
  <2>3. CASE \E a \in BOOLEAN : r = [s EXCEPT !.accepting = a]
    BY <2>3 DEF Chain, SameLedger
  <2> QED
    BY <1>3, <2>1, <2>2, <2>3
<1>6. First(r, lg, c)
  BY <1>5, SameLedgerFirst DEF AnyOK
<1> QED
  BY <1>5, <1>6 DEF AnyOK, TimerOK

\* apply of the next committed entry: the block is skipped, panics the node, or is written.
LEMMA ApplyAny ==
  ASSUME NEW s \in Chain, NEW lg \in Seq(Entry), NEW c \in 0..Len(lg), AnyOK(s, lg, c),
         ~s.panicked, s.next =< c, NEW r, r = apply(s, lg[s.next], s.next)
  PROVE  r \in Chain /\ AnyOK(r, lg, c)
<1>1. /\ s.applied \in Nat /\ s.next \in Nat /\ s.next >= 1 /\ s.next =< s.applied + 1
      /\ s.applied =< c /\ Len(lg) \in Nat /\ Len(s.blocks) \in Nat /\ c =< Len(lg) /\ c \in Nat
      /\ s.blocks \in Seq(Written) /\ s.blockInflight \in Int
  BY ChainFields DEF AnyOK, First
<1>2. PICK p \in 1..Len(lg) : p = s.next /\ p \in Nat /\ p =< c
  BY <1>1
<1>3. PICK b \in Block : b = lg[p].block
  BY EntryBlock
<1>4. Len(b) \in Nat /\ (b = NoBlock => Len(b) = 0)
  BY DEF Block, NoBlock
<1>5. PICK q \in Nat : q = p + 1
  BY <1>2
<1>6. First(s, lg, c) /\ TimerOK(s)
  BY DEF AnyOK
<1>7. PICK a \in Nat : a = MaxOf(s.applied, p)
  BY <1>1, <1>2 DEF MaxOf
<1>8. a >= s.applied /\ a =< c /\ 1 =< q /\ q =< a + 1 /\ (a = s.applied \/ a = p)
  BY <1>1, <1>2, <1>5, <1>7 DEF MaxOf
<1>9. \A k \in 1..a : k \in 1..s.applied \/ (k = p /\ k = s.applied + 1)
  BY <1>1, <1>2, <1>8
<1>10. \A k \in 1..s.applied : k \in 1..a
  BY <1>1, <1>8
<1>11. CASE b = NoBlock \/ p =< s.applied \/ Len(b) < Len(s.blocks) + 1
  <2>1. r = [s EXCEPT !.applied = a, !.next = q]
    <3>1. CASE b = NoBlock \/ p =< s.applied
      BY <1>2, <1>3, <1>5, <1>7, <3>1 DEF apply
    <3>2. CASE ~ (b = NoBlock \/ p =< s.applied)
      <4>1. writeBlock(s, b, p) = s
        BY <1>11, <3>2 DEF writeBlock
      <4> QED
        BY <1>2, <1>3, <1>5, <1>7, <3>2, <4>1 DEF apply
    <3> QED
      BY <3>1, <3>2
  <2>2. /\ r \in Chain /\ r.applied = a /\ r.next = q /\ r.blocks = s.blocks
        /\ r.panicked = s.panicked /\ r.ticking = s.ticking /\ r.cutter = s.cutter
        /\ r.leading = s.leading
    BY <2>1 DEF Chain
  <2>3. ASSUME NEW k \in 1..a PROVE Len(lg[k].block) =< Len(s.blocks)
    <3>1. CASE k \in 1..s.applied
      BY <1>6, <3>1 DEF First
    <3>2. CASE k = p /\ k = s.applied + 1
      BY <1>1, <1>3, <1>4, <1>11, <3>2
    <3> QED
      BY <1>9, <3>1, <3>2
  <2>4. First(r, lg, c)
    BY <1>6, <1>8, <1>10, <2>2, <2>3 DEF First
  <2> QED
    BY <1>6, <2>2, <2>4 DEF AnyOK, TimerOK
<1>12. CASE /\ ~ (b = NoBlock \/ p =< s.applied \/ Len(b) < Len(s.blocks) + 1)
            /\ Len(b) > Len(s.blocks) + 1 \/ Prefix(b) # LastBlock(s)
  <2>1. PICK v : v = Panicked(s)
    OBVIOUS
  <2>2. /\ v \in Chain /\ v.panicked /\ ~v.ticking /\ v.cutter.batch = << >>
        /\ v.blocks = s.blocks
    BY <1>6, <2>1, PanickedAny
  <2>3. First(v, lg, c) /\ v.applied \in Nat /\ v.applied =< c
    <3>1. First(v, lg, c)
      BY <1>6, <2>1, PanickedAny DEF AnyOK
    <3>2. v.applied \in Nat
      BY <2>2, ChainFields
    <3>3. v.applied =< c
      BY <3>1 DEF First
    <3> QED
      BY <3>1, <3>2, <3>3
  <2>4. PICK d \in Nat : d = MaxOf(v.applied, p)
    BY <1>2, <2>3 DEF MaxOf
  <2>5. r = [v EXCEPT !.applied = d, !.next = q]
    <3>1. writeBlock(s, b, p) = v
      BY <1>12, <2>1 DEF writeBlock
    <3> QED
      BY <1>2, <1>3, <1>5, <1>12, <2>4, <3>1 DEF apply
  <2>6. /\ r \in Chain /\ r.applied = d /\ r.next = q /\ r.blocks = v.blocks
        /\ r.panicked /\ ~r.ticking /\ r.cutter = v.cutter
    BY <2>2, <2>5 DEF Chain
  <2>7. d >= v.applied /\ d =< c /\ q =< d + 1
    BY <1>2, <1>5, <2>3, <2>4 DEF MaxOf
  <2>8. \A k \in 1..v.applied : k \in 1..d
    BY <2>3, <2>7
  <2>9. First(r, lg, c)
    BY <1>8, <2>3, <2>6, <2>7, <2>8 DEF First
  <2> QED
    BY <2>2, <2>6, <2>9 DEF AnyOK, TimerOK
<1>13. CASE /\ ~ (b = NoBlock \/ p =< s.applied \/ Len(b) < Len(s.blocks) + 1)
            /\ ~ (Len(b) > Len(s.blocks) + 1 \/ Prefix(b) # LastBlock(s))
  <2>1. p = s.applied + 1 /\ a = p /\ Len(b) = Len(s.blocks) + 1
    <3>1. p > s.applied /\ p =< s.applied + 1
      BY <1>1, <1>2, <1>13
    <3>2. p = s.applied + 1
      BY <1>1, <1>2, <3>1
    <3>3. a = p
      BY <1>1, <1>2, <1>7, <3>2 DEF MaxOf
    <3>4. Len(b) = Len(s.blocks) + 1
      BY <1>1, <1>4, <1>13
    <3> QED
      BY <3>2, <3>3, <3>4
  <2> DEFINE t == IF IsConfigBlock(b) THEN writeConfigBlock(s) ELSE s
             w == [block |-> b, index |-> p]
  <2>2. apply(s, lg[p], p) = [[t EXCEPT !.blockInflight = MaxOf(t.blockInflight - 1, 0),
                                        !.blocks = Append(t.blocks, w)]
                              EXCEPT !.applied = MaxOf(@, p), !.next = p + 1]
    <3>1. writeBlock(s, b, p) = [t EXCEPT !.blockInflight = MaxOf(t.blockInflight - 1, 0),
                                          !.blocks = Append(t.blocks, w)]
      BY <1>13 DEF writeBlock
    <3> QED
      BY <1>3, <1>13, <3>1 DEF apply
  <2>3. /\ t \in Chain /\ t.blocks = s.blocks /\ t.applied = s.applied
        /\ t.panicked = s.panicked /\ t.ticking = s.ticking /\ t.cutter = s.cutter
        /\ t.leading = s.leading
    <3>1. CASE IsConfigBlock(b)
      BY <3>1 DEF writeConfigBlock, Chain
    <3>2. CASE ~IsConfigBlock(b)
      BY <3>2
    <3> QED
      BY <3>1, <3>2
  <2>4. w \in Written /\ w.block = b /\ w.index = p
    BY <1>2 DEF Written
  <2> HIDE DEF t, w
  <2>5. PICK f \in Int : f = MaxOf(t.blockInflight - 1, 0)
    BY <2>3, ChainFields DEF MaxOf
  <2>6. PICK bs \in Seq(Written) : bs = Append(s.blocks, w)
    BY <1>1, <2>4, AppendSeq
  <2>7. r = [t EXCEPT !.blockInflight = f, !.blocks = bs, !.applied = a, !.next = q]
    BY <1>2, <1>5, <1>7, <2>2, <2>3, <2>5, <2>6 DEF Chain
  <2>8. /\ r \in Chain /\ r.applied = a /\ r.next = q /\ r.blocks = bs
        /\ r.panicked = s.panicked /\ r.ticking = s.ticking /\ r.cutter = s.cutter
        /\ r.leading = s.leading
    BY <2>3, <2>7 DEF Chain
  <2>9. /\ Len(bs) = Len(s.blocks) + 1 /\ bs[Len(s.blocks) + 1] = w
        /\ \A j \in 1..Len(s.blocks) : bs[j] = s.blocks[j]
    BY <1>1, <2>4, <2>6, AppendSeq
  <2>10. ASSUME NEW k \in 1..s.applied
         PROVE  Len(lg[k].block) =< Len(s.blocks) /\ Len(lg[k].block) \in Nat
    <3>1. k \in 1..Len(lg)
      BY <1>1
    <3> QED
      BY <1>6, <3>1, EntryBlock DEF First
  <2>11. ASSUME NEW k \in 1..a PROVE Len(lg[k].block) =< Len(bs)
    <3>1. CASE k \in 1..s.applied
      BY <1>1, <2>9, <2>10, <3>1
    <3>2. CASE k = p
      BY <1>1, <1>3, <2>1, <2>9, <3>2
    <3> QED
      BY <1>9, <3>1, <3>2
  <2>12. ASSUME NEW j \in 1..Len(bs)
         PROVE  /\ bs[j].index \in 1..a /\ lg[bs[j].index].block = bs[j].block
                /\ Len(bs[j].block) = j
                /\ \A k \in 1..(bs[j].index - 1) : Len(lg[k].block) < j
    <3>1. CASE j \in 1..Len(s.blocks)
      BY <1>6, <1>10, <2>9, <3>1 DEF First
    <3>2. CASE j = Len(s.blocks) + 1
      <4>1. bs[j].index = p /\ p \in 1..a /\ bs[j].block = b /\ Len(b) = j
        BY <1>2, <2>1, <2>4, <2>9, <3>2
      <4>2. ASSUME NEW k \in 1..(p - 1) PROVE Len(lg[k].block) < j
        <5>1. k \in 1..s.applied
          BY <1>1, <2>1
        <5> QED
          BY <1>1, <2>10, <3>2, <5>1
      <4> QED
        BY <1>3, <4>1, <4>2
    <3> QED
      BY <1>1, <2>9, <3>1, <3>2
  <2>13. First(r, lg, c)
    BY <1>8, <2>8, <2>11, <2>12 DEF First
  <2> QED
    BY <1>6, <2>8, <2>13 DEF AnyOK, TimerOK
<1> QED
  BY <1>11, <1>12, <1>13

WInv == RaftInv /\ AnyInv

\* What the weak invariant says of one node.
LEMMA AnyFacts ==
  ASSUME WInv, NEW n \in Node
  PROVE  /\ chain[n] \in Chain /\ log[n] \in Seq(Entry) /\ commit[n] \in 0..Len(log[n])
         /\ term[n] \in Nat /\ commit[n] \in Nat /\ Len(log[n]) \in Nat /\ commit[n] =< Len(log[n])
         /\ AnyOK(chain[n], log[n], commit[n])
<1>1. log[n] \in Seq(Entry) /\ term[n] \in Nat /\ Len(log[n]) \in Nat
  BY LogFacts DEF WInv, RaftInv
<1>2. commit[n] \in Nat /\ commit[n] =< Len(log[n])
  BY DEF WInv, RaftInv, RaftTyped, CommitsSafe
<1> QED
  BY <1>1, <1>2 DEF WInv, AnyInv

\* A step of one chain that leaves Raft alone.
LEMMA ChainStepAny ==
  ASSUME WInv, NEW n \in Node, UNCHANGED raftVars, NEW r \in Chain,
         chain' = [chain EXCEPT ![n] = r], AnyOK(r, log[n], commit[n])
  PROVE  WInv'
<1>1. UNCHANGED <<term, leads, log, commit, match>>
  BY DEF raftVars
<1>2. RaftInv'
  <2>1. match' \in [Node -> [Node -> Nat]] /\ \A l \in leads' : match'[l] = match[l]
    BY <1>1 DEF WInv, RaftInv, RaftTyped
  <2> QED
    BY <1>1, <2>1, RaftShrinks DEF WInv
<1>3. chain' \in [Node -> Chain] /\ chain'[n] = r /\ \A m \in Node : m # n => chain'[m] = chain[m]
  BY DEF WInv, AnyInv
<1>4. ASSUME NEW m \in Node PROVE AnyOK(chain'[m], log'[m], commit'[m])
  BY <1>1, <1>3 DEF WInv, AnyInv
<1> QED
  BY <1>2, <1>3, <1>4 DEF WInv, AnyInv

\* A step of Raft that keeps what is committed.
LEMMA RaftStepAny ==
  ASSUME WInv, RaftInv', Kept, chain' = chain
  PROVE  WInv'
<1>1. ASSUME NEW m \in Node PROVE AnyOK(chain[m], log'[m], commit'[m])
  <2>1. PICK s \in Chain : s = chain[m]
    BY AnyFacts
  <2>2. PICK x \in Seq(Entry), y \in Seq(Entry), c \in Nat, d \in Nat :
          x = log[m] /\ y = log'[m] /\ c = commit[m] /\ d = commit'[m]
    BY AnyFacts DEF RaftInv, RaftTyped
  <2>3. Same(x, y, c) /\ c =< d
    BY <2>2 DEF Kept
  <2>4. First(s, x, c) /\ TimerOK(s)
    BY <2>1, <2>2, AnyFacts DEF AnyOK
  <2>5. First(s, y, d)
    BY <2>3, <2>4, FirstKept
  <2> QED
    BY <2>1, <2>2, <2>4, <2>5 DEF AnyOK
<1> QED
  BY <1>1 DEF WInv, AnyInv

\* What is committed is kept when the logs stay as they are, or one of them grows.
LEMMA KeptAny ==
  ASSUME WInv, commit' = commit,
         log' = log \/ \E n \in Node, e \in Entry : log' = [log EXCEPT ![n] = Append(log[n], e)]
  PROVE  Kept
<1> SUFFICES ASSUME NEW m \in Node
             PROVE  commit[m] =< commit[m] /\ Same(log[m], log'[m], commit[m])
  BY DEF Kept
<1>1. commit[m] \in Nat /\ commit[m] =< Len(log[m]) /\ log[m] \in Seq(Entry)
  BY AnyFacts
<1>2. CASE log' = log
  BY <1>1, <1>2, SameRefl
<1>3. CASE \E n \in Node, e \in Entry : log' = [log EXCEPT ![n] = Append(log[n], e)]
  <2>1. PICK n \in Node, e \in Entry : log' = [log EXCEPT ![n] = Append(log[n], e)]
    BY <1>3
  <2>2. /\ Len(log[m]) \in Nat /\ Len(log'[m]) \in Nat /\ Len(log'[m]) >= Len(log[m])
        /\ \A k \in 1..Len(log[m]) : log'[m][k] = log[m][k]
    BY <2>1, LogGrows DEF WInv, RaftInv
  <2> QED
    BY <1>1, <2>2 DEF Same
<1> QED
  BY <1>2, <1>3

\* Requests and the timer.
LEMMA ServeStepAny ==
  ASSUME WInv, NEW n \in Node,
         Configure(n) \/ Timer(n) \/ \E size \in Size : Order(n, size)
  PROVE  WInv'
<1>1. PICK s \in Chain : s = chain[n]
  BY AnyFacts
<1>2. PICK lg \in Seq(Entry), c \in 0..Len(log[n]) : lg = log[n] /\ c = commit[n]
  BY AnyFacts
<1>3. AnyOK(s, lg, c) /\ c \in 0..Len(lg)
  BY <1>1, <1>2, AnyFacts
<1>4. UNCHANGED raftVars
  BY DEF Configure, Timer, Order
<1>5. PICK z \in [batch : Seq(Message), bytes : Int], no \in BOOLEAN, yes \in BOOLEAN :
        z = EmptyReceiver /\ z.batch = << >> /\ no = FALSE /\ yes = TRUE
  BY EmptyReceiverType
<1>6. ASSUME NEW size \in Size, Order(n, size) PROVE WInv'
  <2>1. size \in Message
    BY RaftChainAssumption
  <2>2. PICK o : o = Ordered(s.cutter, size)
    OBVIOUS
  <2>3. PICK q \in [batch : Seq(Message), bytes : Int], p \in BOOLEAN :
          q = o.receiver /\ p = o.pending /\ (p <=> q.batch # << >>)
    BY <2>1, <2>2, OrderedTypes, ChainFields
  <2>4. PICK u, k, v : /\ u = [s EXCEPT !.cutter = q, !.ticking = p]
                       /\ k = Len(o.batches) /\ v = propose(u, k, no)
    OBVIOUS
  <2>5. s.leading
    BY <1>1, <1>6 DEF Order
  <2>6. Paused(v) \in Chain /\ AnyOK(Paused(v), lg, c)
    <3>1. u \in Chain /\ u.cutter = q /\ u.ticking = p /\ u.leading = s.leading
      BY <2>4 DEF Chain
    <3>2. SameLedger(u, s)
      BY <2>4 DEF Chain, SameLedger
    <3>3. (u.ticking <=> u.cutter.batch # << >>) /\ u.leading
      BY <2>3, <2>5, <3>1, Zenon
    <3>4. TimerOK(u)
      BY <3>3, Zenon DEF TimerOK
    <3>5. v = propose(u, k, no)
      BY <2>4
    <3> QED
      BY <1>3, <3>1, <3>2, <3>4, <3>5, ServeAny
  <2>7. chain' = [chain EXCEPT ![n] = Paused(v)]
    BY <1>1, <1>5, <1>6, <2>2, <2>3, <2>4 DEF Order
  <2> QED
    BY <1>2, <1>4, <2>6, <2>7, ChainStepAny
<1>7. CASE Configure(n)
  <2>1. PICK k : k = IF s.cutter.batch = << >> THEN 1 ELSE 2
    OBVIOUS
  <2>2. PICK u, v : u = [s EXCEPT !.cutter = z, !.ticking = no] /\ v = propose(u, k, yes)
    OBVIOUS
  <2>4. Paused(v) \in Chain /\ AnyOK(Paused(v), lg, c)
    <3>1. u \in Chain /\ u.cutter = z /\ u.ticking = no
      BY <2>2 DEF Chain
    <3>2. SameLedger(u, s)
      BY <2>2 DEF Chain, SameLedger
    <3>3. TimerOK(u)
      BY <1>5, <3>1 DEF TimerOK
    <3> QED
      BY <1>3, <2>2, <3>1, <3>2, <3>3, ServeAny
  <2>5. chain' = [chain EXCEPT ![n] = Paused(v)]
    BY <1>1, <1>5, <1>7, <2>1, <2>2 DEF Configure
  <2> QED
    BY <1>2, <1>4, <2>4, <2>5, ChainStepAny
<1>8. CASE Timer(n)
  <2>1. PICK k : k = IF s.cutter.batch = << >> THEN 0 ELSE 1
    OBVIOUS
  <2>2. PICK u, v : u = [s EXCEPT !.cutter = z, !.ticking = no] /\ v = propose(u, k, no)
    OBVIOUS
  <2>4. v \in Chain /\ AnyOK(v, lg, c)
    <3>1. u \in Chain /\ u.cutter = z /\ u.ticking = no
      BY <2>2 DEF Chain
    <3>2. SameLedger(u, s)
      BY <2>2 DEF Chain, SameLedger
    <3>3. TimerOK(u)
      BY <1>5, <3>1 DEF TimerOK
    <3> QED
      BY <1>3, <2>2, <3>1, <3>2, <3>3, ServeAny
  <2>5. chain' = [chain EXCEPT ![n] = v]
    BY <1>1, <1>5, <1>8, <2>1, <2>2 DEF Timer
  <2> QED
    BY <1>2, <1>4, <2>4, <2>5, ChainStepAny
<1> QED
  BY <1>6, <1>7, <1>8

\* The run loop takes a committed entry, with the change of role that comes with it.
LEMMA ApplyStepAny ==
  ASSUME WInv, NEW n \in Node, Apply(n)
  PROVE  WInv'
<1>1. PICK s \in Chain : s = chain[n]
  BY AnyFacts
<1>2. PICK lg \in Seq(Entry), c \in 0..Len(log[n]) : lg = log[n] /\ c = commit[n]
  BY AnyFacts
<1>3. AnyOK(s, lg, c) /\ c \in 0..Len(lg) /\ ~s.panicked
  BY <1>1, <1>2, AnyFacts DEF Apply, Running
<1>4. PICK lead \in BOOLEAN : lead = (n \in leads)
  <2> SUFFICES \E lead \in BOOLEAN : lead = (n \in leads)
    OBVIOUS
  <2> WITNESS (n \in leads) \in BOOLEAN
  <2> QED
    OBVIOUS
<1>5. PICK u : u = LeaderChanged(s, n, lead)
  OBVIOUS
<1>6. u \in Chain /\ AnyOK(u, lg, c) /\ SameLedger(u, s)
  <2>1. RaftTyped
    BY DEF WInv, RaftInv
  <2> QED
    BY <1>3, <1>5, <2>1, LeaderChangedAny
<1>7. UNCHANGED raftVars
  BY DEF Apply
<1>8. CASE chain' = [chain EXCEPT ![n] = Resumed(u, Len(lg))]
  <2>1. PICK r : r = Resumed(u, Len(lg))
    OBVIOUS
  <2>2. r \in Chain /\ AnyOK(r, lg, c)
    BY <1>6, <2>1, ResumedAny
  <2> QED
    BY <1>2, <1>7, <1>8, <2>1, <2>2, ChainStepAny
<1>9. CASE /\ s.next =< c
           /\ chain' = [chain EXCEPT ![n] = Resumed(apply(u, lg[s.next], s.next), Len(lg))]
  <2>1. u.next = s.next /\ ~u.panicked
    BY <1>3, <1>6 DEF SameLedger
  <2>2. PICK v : v = apply(u, lg[u.next], u.next)
    OBVIOUS
  <2>3. v \in Chain /\ AnyOK(v, lg, c)
    BY <1>3, <1>6, <1>9, <2>1, <2>2, ApplyAny
  <2>4. PICK r : r = Resumed(v, Len(lg))
    OBVIOUS
  <2>5. r \in Chain /\ AnyOK(r, lg, c)
    BY <2>3, <2>4, ResumedAny
  <2>6. chain' = [chain EXCEPT ![n] = r]
    BY <1>9, <2>1, <2>2, <2>4
  <2> QED
    BY <1>2, <1>7, <2>5, <2>6, ChainStepAny
<1> QED
  BY <1>1, <1>2, <1>4, <1>5, <1>8, <1>9 DEF Apply, LastDelivered

\* Chain s with another channel to its proposer and other cancelled ones.
Sent(r, s, q, go, cs) == r = [s EXCEPT !.propC = q, !.proposing = go, !.cancelled = cs]

\* Of a chain only the channels to the goroutines change.
LEMMA SentAny ==
  ASSUME NEW s \in Chain, NEW lg, NEW c, AnyOK(s, lg, c),
         NEW q \in Seq(Block), NEW go \in BOOLEAN, NEW cs \in SUBSET (Seq(Block) \ {<< >>}),
         NEW r, Sent(r, s, q, go, cs)
  PROVE  r \in Chain /\ AnyOK(r, lg, c)
<1>1. r \in Chain
  BY DEF Sent, Chain
<1>2. SameLedger(r, s) /\ r.ticking = s.ticking /\ r.cutter = s.cutter /\ r.leading = s.leading
  BY DEF Sent, Chain, SameLedger
<1>3. First(r, lg, c)
  BY <1>2, SameLedgerFirst DEF AnyOK
<1> QED
  BY <1>1, <1>2, <1>3 DEF AnyOK, TimerOK

\* A leader's log grows by a block that one of its goroutines held.
LEMMA GrowStepAny ==
  ASSUME WInv, NEW n \in leads, NEW e \in Entry, e.term = term[n],
         log' = [log EXCEPT ![n] = Append(log[n], e)],
         UNCHANGED <<term, leads, commit, match, transfer>>,
         NEW r \in Chain, AnyOK(r, log[n], commit[n]), chain' = [chain EXCEPT ![n] = r]
  PROVE  WInv'
<1>1. n \in Node
  BY DEF WInv, RaftInv, RaftTyped
<1>2. RaftInv'
  BY <1>1, ProposeRaft DEF WInv
<1>3. Kept
  BY <1>1, KeptAny
<1>4. chain' \in [Node -> Chain] /\ chain'[n] = r /\ \A m \in Node : m # n => chain'[m] = chain[m]
  BY <1>1 DEF WInv, AnyInv
<1>5. ASSUME NEW m \in Node PROVE AnyOK(chain'[m], log'[m], commit'[m])
  <2>1. PICK s \in Chain : s = chain'[m]
    BY <1>4
  <2>2. AnyOK(s, log[m], commit[m])
    BY <1>4, <2>1 DEF WInv, AnyInv
  <2>3. PICK x \in Seq(Entry), y \in Seq(Entry), c \in Nat, d \in Nat :
          x = log[m] /\ y = log'[m] /\ c = commit[m] /\ d = commit'[m]
    BY <1>2, AnyFacts DEF RaftInv, RaftTyped
  <2>4. Same(x, y, c) /\ c =< d
    BY <1>3, <2>3 DEF Kept
  <2>5. First(s, x, c) /\ TimerOK(s)
    BY <2>2, <2>3 DEF AnyOK
  <2>6. First(s, y, d)
    BY <2>4, <2>5, FirstKept
  <2>7. AnyOK(s, y, d)
    BY <2>5, <2>6 DEF AnyOK
  <2> QED
    BY <2>1, <2>3, <2>7
<1> QED
  BY <1>2, <1>4, <1>5 DEF WInv, AnyInv

\* A goroutine hands a block to Raft, in time or late, or quits.
LEMMA ProposeStepAny ==
  ASSUME WInv, NEW n \in Node, Propose(n) \/ ProposeLate(n) \/ QuitProposing(n)
  PROVE  WInv'
<1>1. PICK s \in Chain : s = chain[n]
  BY AnyFacts
<1>2. /\ AnyOK(s, log[n], commit[n]) /\ s.propC \in Seq(Block)
      /\ s.cancelled \in SUBSET (Seq(Block) \ {<< >>}) /\ s.proposing \in BOOLEAN
  BY <1>1, AnyFacts DEF Chain
<1>3. PICK t \in Nat : t = term[n]
  BY AnyFacts
<1>4. CASE Propose(n)
  <2>1. PICK b \in Block, q \in Seq(Block) : b = Head(s.propC) /\ q = Tail(s.propC)
    <3>1. s.propC # << >>
      BY <1>1, <1>4 DEF Propose
    <3>2. Head(s.propC) \in Block /\ Tail(s.propC) \in Seq(Block)
      BY <1>2, <3>1
    <3> QED
      BY <3>2
  <2>2. PICK go \in BOOLEAN : go = (n \in leads \ transfer)
    <3> SUFFICES \E go \in BOOLEAN : go = (n \in leads \ transfer)
      OBVIOUS
    <3> WITNESS (n \in leads \ transfer) \in BOOLEAN
    <3> QED
      OBVIOUS
  <2>3. PICK cs \in SUBSET (Seq(Block) \ {<< >>}) : cs = s.cancelled
    BY <1>2
  <2>4. PICK r : Sent(r, s, q, go, cs)
    BY DEF Sent
  <2>5. r \in Chain /\ AnyOK(r, log[n], commit[n])
    BY <1>2, <2>4, SentAny
  <2>6. r = [s EXCEPT !.propC = q, !.proposing = go]
    BY <2>3, <2>4 DEF Sent, Chain
  <2>7. chain' = [chain EXCEPT ![n] = r]
    BY <1>1, <1>4, <2>1, <2>2, <2>6 DEF Propose
  <2>8. CASE n \in leads \ transfer
    <3>1. PICK e \in Entry : e = [term |-> t, block |-> b]
      BY DEF Entry
    <3>2. log' = [log EXCEPT ![n] = Append(log[n], e)] /\ UNCHANGED <<term, leads, commit, match, transfer>>
      BY <1>1, <1>3, <1>4, <2>1, <2>8, <3>1 DEF Propose
    <3> QED
      BY <1>3, <2>5, <2>7, <2>8, <3>1, <3>2, GrowStepAny
  <2>9. CASE n \notin leads \ transfer
    <3>1. UNCHANGED raftVars
      BY <1>4, <2>9 DEF Propose, raftVars
    <3> QED
      BY <2>5, <2>7, <3>1, ChainStepAny
  <2> QED
    BY <2>8, <2>9
<1>5. CASE ProposeLate(n)
  <2>1. PICK q \in s.cancelled :
          /\ log' = [log EXCEPT ![n] = Append(@, [term |-> term[n], block |-> Head(q)])]
          /\ chain' = [chain EXCEPT ![n] =
                         [s EXCEPT !.cancelled = (@ \ {q}) \cup ({Tail(q)} \ {<< >>})]]
    BY <1>1, <1>5 DEF ProposeLate
  <2>2. q \in Seq(Block) /\ q # << >>
    BY <1>2
  <2>3. PICK b \in Block, p \in Seq(Block) : b = Head(q) /\ p = Tail(q)
    <3>1. Head(q) \in Block /\ Tail(q) \in Seq(Block)
      BY <2>2
    <3> QED
      BY <3>1
  <2>4. PICK cs \in SUBSET (Seq(Block) \ {<< >>}) : cs = (s.cancelled \ {q}) \cup ({p} \ {<< >>})
    BY <1>2
  <2>5. PICK e \in Entry : e = [term |-> t, block |-> b]
    BY DEF Entry
  <2>6. PICK r : Sent(r, s, s.propC, s.proposing, cs)
    BY DEF Sent
  <2>7. r \in Chain /\ AnyOK(r, log[n], commit[n])
    BY <1>2, <2>6, SentAny
  <2>8. r = [s EXCEPT !.cancelled = cs]
    BY <2>6 DEF Sent, Chain
  <2>9. chain' = [chain EXCEPT ![n] = r]
    BY <2>1, <2>3, <2>4, <2>8
  <2>10. log' = [log EXCEPT ![n] = Append(log[n], e)]
    BY <1>3, <2>1, <2>3, <2>5
  <2>11. n \in leads /\ UNCHANGED <<term, leads, commit, match, transfer>>
    BY <1>5 DEF ProposeLate
  <2>12. e.term = term[n]
    BY <1>3, <2>5
  <2> QED
    BY <2>7, <2>9, <2>10, <2>11, <2>12, GrowStepAny
<1>6. CASE QuitProposing(n)
  <2>1. PICK q \in s.cancelled : chain' = [chain EXCEPT ![n] = [s EXCEPT !.cancelled = @ \ {q}]]
    BY <1>1, <1>6 DEF QuitProposing
  <2>2. PICK cs \in SUBSET (Seq(Block) \ {<< >>}) : cs = s.cancelled \ {q}
    BY <1>2
  <2>3. PICK r : Sent(r, s, s.propC, s.proposing, cs)
    BY DEF Sent
  <2>4. r \in Chain /\ AnyOK(r, log[n], commit[n])
    BY <1>2, <2>3, SentAny
  <2>5. r = [s EXCEPT !.cancelled = cs]
    BY <2>3 DEF Sent, Chain
  <2>6. chain' = [chain EXCEPT ![n] = r]
    BY <2>1, <2>2, <2>5
  <2>7. UNCHANGED raftVars
    BY <1>6 DEF QuitProposing
  <2> QED
    BY <2>4, <2>6, <2>7, ChainStepAny
<1> QED
  BY <1>4, <1>5, <1>6

\* Elections, replication, and leaders that step down or transfer.
LEMMA RaftAny ==
  ASSUME WInv, Raft
  PROVE  WInv'
<1>1. ASSUME NEW n \in Node, NEW Q \in Quorum, Elect(n, Q) PROVE WInv'
  <2>1. RaftInv' /\ \E e \in Entry : e.block = NoBlock /\ log' = [log EXCEPT ![n] = Append(log[n], e)]
    BY <1>1, ElectRaft DEF WInv
  <2>2. Kept
    BY <1>1, <2>1, KeptAny DEF Elect
  <2> QED
    BY <1>1, <2>1, <2>2, RaftStepAny DEF Elect
<1>2. ASSUME NEW n \in Node, StepDown(n) PROVE WInv'
  <2>1. /\ leads' \in SUBSET leads /\ UNCHANGED <<term, log, commit, chain>>
        /\ match' \in [Node -> [Node -> Nat]] /\ \A l \in leads' : match'[l] = match[l]
    BY <1>2 DEF StepDown, WInv, RaftInv, RaftTyped, NoMatch
  <2>2. RaftInv'
    BY <2>1, RaftShrinks DEF WInv
  <2> QED
    BY <2>1, <2>2, KeptAny, RaftStepAny
<1>3. ASSUME NEW l \in Node, NEW m \in Node, Replicate(l, m) PROVE WInv'
  <2>1. RaftInv' /\ Kept
    BY <1>3, ReplicateRaft DEF WInv
  <2> QED
    BY <1>3, <2>1, RaftStepAny DEF Replicate
<1>4. ASSUME NEW n \in Node, TransferLeadership(n) \/ AbortTransfer(n) PROVE WInv'
  <2>1. UNCHANGED <<term, leads, log, commit, match, chain>>
    BY <1>4 DEF TransferLeadership, AbortTransfer
  <2>2. match' \in [Node -> [Node -> Nat]] /\ \A l \in leads' : match'[l] = match[l]
    BY <2>1 DEF WInv, RaftInv, RaftTyped
  <2>3. RaftInv'
    BY <2>1, <2>2, RaftShrinks DEF WInv
  <2> QED
    BY <2>1, <2>3, KeptAny, RaftStepAny
<1> QED
  BY <1>1, <1>2, <1>3, <1>4 DEF Raft

\* A crash keeps the log and the ledger, but for the last block.
LEMMA RestartAny ==
  ASSUME WInv, NEW n \in Node, Restart(n)
  PROVE  WInv'
<1>1. PICK s \in Chain : s = chain[n]
  BY AnyFacts
<1>2. PICK lg \in Seq(Entry), c \in 0..Len(log[n]) : lg = log[n] /\ c = commit[n]
  BY AnyFacts
<1>3. First(s, lg, c) /\ c \in 0..Len(lg)
  BY <1>1, <1>2, AnyFacts DEF AnyOK
<1>4. PICK lost \in {0, 1} :
        /\ lost = 1 => s.blocks # << >>
        /\ chain' = [chain EXCEPT ![n] = Started(SubSeq(s.blocks, 1, Len(s.blocks) - lost))]
  BY <1>1 DEF Restart
<1>5. PICK j \in 0..Len(s.blocks) : j = Len(s.blocks) - lost
  <2>1. s.blocks \in Seq(Written) /\ Len(s.blocks) \in Nat
    BY ChainFields
  <2>2. lost = 1 => Len(s.blocks) # 0
    BY <1>4, <2>1
  <2>3. \A i \in Nat, k \in {0, 1} : (k = 1 => i # 0) => i - k \in 0..i
    OBVIOUS
  <2>4. Len(s.blocks) - lost \in 0..Len(s.blocks)
    BY <2>1, <2>2, <2>3, Zenon
  <2> QED
    BY <2>4
<1>6. PICK r : r = Started(SubSeq(s.blocks, 1, j))
  OBVIOUS
<1>7. r \in Chain /\ AnyOK(r, lg, c)
  BY <1>3, <1>6, FreshAny DEF Fresh
<1>8. /\ leads' \in SUBSET leads /\ UNCHANGED <<term, log, commit>>
      /\ match' \in [Node -> [Node -> Nat]] /\ \A l \in leads' : match'[l] = match[l]
  BY DEF Restart, WInv, RaftInv, RaftTyped, NoMatch
<1>9. RaftInv'
  BY <1>8, RaftShrinks DEF WInv
<1>10. chain' = [chain EXCEPT ![n] = r]
  BY <1>4, <1>5, <1>6
<1>11. chain' \in [Node -> Chain] /\ chain'[n] = r /\ \A m \in Node : m # n => chain'[m] = chain[m]
  BY <1>7, <1>10 DEF WInv, AnyInv
<1>12. ASSUME NEW m \in Node PROVE AnyOK(chain'[m], log'[m], commit'[m])
  BY <1>2, <1>7, <1>8, <1>11 DEF WInv, AnyInv
<1> QED
  BY <1>9, <1>11, <1>12 DEF WInv, AnyInv

\* A cancelled goroutine quits: nothing the chain works with changes.
LEMMA QuitStep ==
  ASSUME SInv, NEW n \in Node, QuitProposing(n)
  PROVE  SInv'
<1>1. PICK s \in Chain : s = chain[n]
  BY NodeFacts
<1>2. PICK q \in s.cancelled : chain' = [chain EXCEPT ![n] = [s EXCEPT !.cancelled = @ \ {q}]]
  BY <1>1 DEF QuitProposing
<1>3. PICK cs \in SUBSET (Seq(Block) \ {<< >>}) : cs = s.cancelled \ {q}
  BY DEF Chain
<1>4. PICK r : r = [s EXCEPT !.cancelled = cs]
  OBVIOUS
<1>5. r \in Chain /\ SameButSent(r, s) /\ r.propC = s.propC /\ r.proposing = s.proposing
  BY <1>4 DEF Chain, SameButSent
<1>6. ChainOK(r, log[n], commit[n], n \in leads)
  <2>1. Ledger(s, log[n], commit[n]) /\ RoleOK(s) /\ BarrierOK(s)
        /\ (n \in leads /\ s.leading /\ ~s.justElected => Pipeline(s, log[n], s.bc[1]))
    BY <1>1, NodeFacts DEF ChainOK
  <2>2. Ledger(r, log[n], commit[n])
    BY <1>5, <2>1 DEF Ledger, SameButSent
  <2>3. RoleOK(r) /\ BarrierOK(r)
    BY <1>5, <2>1 DEF RoleOK, BarrierOK, Idle, SameButSent
  <2>4. n \in leads /\ r.leading /\ ~r.justElected => Pipeline(r, log[n], r.bc[1])
    BY <1>5, <2>1 DEF Pipeline, SameButSent
  <2> QED
    BY <2>2, <2>3, <2>4 DEF ChainOK
<1>7. chain' = [chain EXCEPT ![n] = r] /\ UNCHANGED raftVars
  BY <1>2, <1>3, <1>4 DEF QuitProposing
<1> QED
  BY <1>5, <1>6, <1>7, ChainStep

\* A state in which all fields are as they were.
LEMMA SameState ==
  ASSUME UNCHANGED vars
  PROVE  (SInv => SInv') /\ (WInv => WInv')
<1>1. UNCHANGED <<term, leads, log, commit, match, chain>>
  BY DEF vars, raftVars
<1>2. RaftInv => RaftInv'
  BY <1>1 DEF RaftInv, RaftTyped, TermsOrdered, LeaderLast, OneLeader, LeaderHasAll, LogMatching,
     Voted, Acknowledged, Electable, Closed, Newer, CommitsSafe, CommitSafe
<1>3. (ChainInv => ChainInv') /\ (AnyInv => AnyInv')
  BY <1>1 DEF ChainInv, AnyInv
<1> QED
  BY <1>2, <1>3 DEF SInv, WInv

\* The weak invariant holds whatever happens.
LEMMA NextWInv ==
  ASSUME WInv, [Next]_vars
  PROVE  WInv'
<1>1. CASE UNCHANGED vars
  BY <1>1, SameState
<1>2. CASE Raft
  BY <1>2, RaftAny
<1>3. ASSUME NEW n \in Node,
             Configure(n) \/ Timer(n) \/ \E size \in Size : Order(n, size)
      PROVE  WInv'
  BY <1>3, ServeStepAny
<1>4. ASSUME Answer PROVE WInv'
  BY <1>1, <1>4 DEF Answer
<1>5. ASSUME NEW n \in Node, Propose(n) \/ ProposeLate(n) \/ QuitProposing(n) PROVE WInv'
  BY <1>5, ProposeStepAny
<1>6. ASSUME NEW n \in Node, Apply(n) PROVE WInv'
  BY <1>6, ApplyStepAny
<1>7. ASSUME NEW n \in Node, Restart(n) PROVE WInv'
  BY <1>7, RestartAny
<1> QED
  BY <1>1, <1>2, <1>3, <1>4, <1>5, <1>6, <1>7 DEF Next

\* The strong one is kept by every step but a late proposal.
LEMMA NextSInv ==
  ASSUME SInv, [Next]_vars
  PROVE  late' \/ SInv'
<1>1. CASE UNCHANGED vars
  BY <1>1, SameState
<1>2. ASSUME NEW n \in Node, NEW Q \in Quorum, Elect(n, Q) PROVE SInv'
  BY <1>2, ElectStep
<1>3. ASSUME NEW n \in Node, StepDown(n) PROVE SInv'
  BY <1>3, StepDownStep
<1>4. ASSUME NEW l \in Node, NEW m \in Node, Replicate(l, m) PROVE SInv'
  BY <1>4, ReplicateStep
<1>5. ASSUME NEW n \in Node, TransferLeadership(n) \/ AbortTransfer(n) PROVE SInv'
  BY <1>5, TransferStep
<1>6. ASSUME NEW n \in Node, NEW size \in Size, Order(n, size) PROVE SInv'
  BY <1>6, OrderStep
<1>7. ASSUME NEW n \in Node, Configure(n) PROVE SInv'
  BY <1>7, ConfigureStep
<1>8. ASSUME Answer PROVE late' \/ SInv'
  BY <1>1, <1>8 DEF Answer
<1>9. ASSUME NEW n \in Node, Timer(n) PROVE SInv'
  BY <1>9, TimerStep
<1>10. ASSUME NEW n \in Node, Propose(n) PROVE SInv'
  BY <1>10, ProposeStep
<1>11. ASSUME NEW n \in Node, ProposeLate(n) PROVE late'
  BY <1>11 DEF ProposeLate
<1>12. ASSUME NEW n \in Node, QuitProposing(n) PROVE SInv'
  BY <1>12, QuitStep
<1>13. ASSUME NEW n \in Node, Apply(n) PROVE SInv'
  BY <1>13, ApplyStep
<1>14. ASSUME NEW n \in Node, Restart(n) PROVE SInv'
  BY <1>14, RestartStep
<1> QED
  BY <1>1, <1>2, <1>3, <1>4, <1>5, <1>6, <1>7, <1>8, <1>9, <1>10, <1>11, <1>12, <1>13, <1>14
     DEF Next, Raft

\* Once a block is proposed late, it was.
LEMMA LateStays ==
  ASSUME late, [Next]_vars
  PROVE  late'
BY DEF Next, Raft, Elect, StepDown, Replicate, TransferLeadership, AbortTransfer, Order, Configure,
   Answer, Timer, Propose, ProposeLate, QuitProposing, Apply, Restart, vars

\* The invariant holds when the orderers start.
LEMMA InitIInv ==
  Init => IInv
<1> SUFFICES ASSUME Init PROVE IInv
  OBVIOUS
<1>1. SInv
  BY InitSInv
<1>2. PICK e \in Seq(Written) : e = << >>
  <2>1. << >> \in Seq(Written)
    OBVIOUS
  <2> QED
    BY <2>1, Zenon
<1>3. PICK r : r = Started(e)
  OBVIOUS
<1>4. /\ r \in Chain /\ r.blocks = << >> /\ r.next = 1 /\ r.applied = 0
      /\ ~r.leading /\ ~r.ticking /\ r.cutter.batch = << >>
  BY <1>2, <1>3, StartedFacts DEF Fresh
<1>5. ASSUME NEW n \in Node PROVE AnyOK(chain[n], log[n], commit[n])
  <2>1. chain[n] = r /\ commit[n] = 0
    BY <1>2, <1>3 DEF Init
  <2>2. 1..Len(r.blocks) = {} /\ 1..r.applied = {} /\ r.applied =< 0 /\ 1 =< r.next
        /\ r.next =< r.applied + 1
    BY <1>4
  <2>3. First(r, log[n], 0)
    BY <2>2 DEF First
  <2> QED
    BY <1>4, <2>1, <2>3 DEF AnyOK, TimerOK
<1> QED
  BY <1>1, <1>5 DEF IInv, SInv, AnyInv, ChainInv

\* Every step keeps the invariant.
LEMMA NextIInv ==
  ASSUME IInv, [Next]_vars
  PROVE  IInv'
<1>1. WInv'
  BY NextWInv DEF IInv, WInv
<1>2. CASE late
  BY <1>1, <1>2, LateStays DEF IInv, WInv
<1>3. CASE ~late
  <2>1. late' \/ SInv'
    BY <1>3, NextSInv DEF IInv, SInv
  <2> QED
    BY <1>1, <2>1 DEF IInv, WInv, SInv
<1> QED
  BY <1>2, <1>3

-----------------------------------------------------------------------------
(* The theorems.                                                           *)

\* What Raft and the run loops of all orderers keep.
THEOREM Invariance == Spec => []IInv
<1>1. IInv /\ [Next]_vars => IInv'
  BY NextIInv
<1> QED
  BY <1>1, InitIInv, PTL DEF Spec

\* What a late proposal leaves of the invariant, and what the invariant is without one.
LEMMA InvParts ==
  ASSUME IInv
  PROVE  WInv /\ (~late => SInv)
BY DEF IInv, WInv, SInv

\* Block i of every ledger is the first one of its number in the committed log, and
\* committed logs agree.
LEMMA AgreeFromInv ==
  ASSUME IInv
  PROVE  LedgersAgree
<1> SUFFICES ASSUME NEW n \in Node, NEW m \in Node, NEW i \in 1..Len(chain[n].blocks),
                    i =< Len(chain[m].blocks)
             PROVE  chain[n].blocks[i] = chain[m].blocks[i]
  BY DEF LedgersAgree
<1> WInv
  BY InvParts
<1>1. ASSUME NEW a \in Node, i =< Len(chain[a].blocks)
      PROVE  \E k \in Nat : \E w \in Written :
               /\ w = chain[a].blocks[i] /\ w.index = k /\ Len(w.block) = i
               /\ 1 =< k /\ k =< commit[a] /\ log[a][k].block = w.block
               /\ \A h \in 1..(k - 1) : Len(log[a][h].block) < i
  <2>1. PICK s \in Chain : s = chain[a]
    BY AnyFacts
  <2>2. i \in 1..Len(s.blocks)
    BY <1>1, <2>1, ChainFields, AnyFacts
  <2>3. PICK w \in Written : w = s.blocks[i]
    BY <2>2, ChainFields
  <2>4. First(s, log[a], commit[a])
    BY <2>1, AnyFacts DEF AnyOK
  <2>5. PICK k \in 1..s.applied : /\ k = w.index /\ log[a][k].block = w.block /\ Len(w.block) = i
                                  /\ \A h \in 1..(k - 1) : Len(log[a][h].block) < i
    BY <2>2, <2>3, <2>4 DEF First
  <2>6. s.applied \in Nat /\ s.applied =< commit[a] /\ commit[a] \in Nat
    BY <2>4, ChainFields, AnyFacts DEF First
  <2>7. k \in Nat /\ 1 =< k /\ k =< commit[a]
    BY <2>6
  <2> QED
    BY <2>1, <2>3, <2>5, <2>7
<1>2. PICK k \in Nat, v \in Written :
        /\ v = chain[n].blocks[i] /\ v.index = k /\ Len(v.block) = i
        /\ 1 =< k /\ k =< commit[n] /\ log[n][k].block = v.block
        /\ \A h \in 1..(k - 1) : Len(log[n][h].block) < i
  <2>1. i =< Len(chain[n].blocks)
    BY AnyFacts, ChainFields
  <2> QED
    BY <1>1, <2>1
<1>3. PICK j \in Nat, w \in Written :
        /\ w = chain[m].blocks[i] /\ w.index = j /\ Len(w.block) = i
        /\ 1 =< j /\ j =< commit[m] /\ log[m][j].block = w.block
        /\ \A h \in 1..(j - 1) : Len(log[m][h].block) < i
  BY <1>1
<1>4. commit[n] \in Nat /\ commit[m] \in Nat
  BY AnyFacts
<1>5. CommitSafe(n, commit[n]) /\ CommitSafe(m, commit[m])
  <2>1. commit[n] > 0 /\ commit[m] > 0
    BY <1>2, <1>3, <1>4
  <2> QED
    BY <2>1 DEF IInv, RaftInv, CommitsSafe
<1>6. PICK P \in Quorum : \A o \in P : Same(log[n], log[o], commit[n])
  BY <1>5 DEF CommitSafe
<1>7. PICK Q \in Quorum : \A o \in Q : Same(log[m], log[o], commit[m])
  BY <1>5 DEF CommitSafe
<1>8. PICK o \in Node : o \in P /\ o \in Q
  BY <1>6, <1>7, QuorumsMeet
<1>9. \A h \in 1..commit[n] : log[n][h] = log[o][h]
  BY <1>6, <1>8 DEF Same
<1>10. \A h \in 1..commit[m] : log[m][h] = log[o][h]
  BY <1>7, <1>8 DEF Same
<1>11. k \in 1..commit[n] /\ j \in 1..commit[m] /\ i \in Nat
  BY <1>2, <1>3, <1>4
<1>12. log[o][k].block = v.block /\ log[o][j].block = w.block
  BY <1>2, <1>3, <1>9, <1>10, <1>11
<1>13. ~ (k < j)
  <2> SUFFICES ASSUME k < j PROVE FALSE
    OBVIOUS
  <2>1. k \in 1..(j - 1) /\ k \in 1..commit[m]
    BY <1>3, <1>4, <1>11
  <2>2. Len(log[m][k].block) < i /\ log[m][k] = log[o][k]
    BY <1>3, <1>10, <2>1
  <2>3. Len(log[o][k].block) = i
    BY <1>2, <1>12
  <2> QED
    BY <1>11, <2>2, <2>3
<1>14. ~ (j < k)
  <2> SUFFICES ASSUME j < k PROVE FALSE
    OBVIOUS
  <2>1. j \in 1..(k - 1) /\ j \in 1..commit[n]
    BY <1>2, <1>4, <1>11
  <2>2. Len(log[n][j].block) < i /\ log[n][j] = log[o][j]
    BY <1>2, <1>9, <2>1
  <2>3. Len(log[o][j].block) = i
    BY <1>3, <1>12
  <2> QED
    BY <1>11, <2>2, <2>3
<1>15. k = j
  BY <1>2, <1>3, <1>13, <1>14
<1>16. v = w
  <2>1. v.block = w.block /\ v.index = w.index
    BY <1>2, <1>3, <1>12, <1>15
  <2> QED
    BY <2>1 DEF Written
<1> QED
  BY <1>2, <1>3, <1>16

\* The ledgers of the orderers agree, whatever is elected, lost, restarted, proposed twice
\* or proposed late by a cancelled goroutine: apply and writeBlock write the same blocks at
\* the same Raft indices everywhere.
THEOREM Agreement == Spec => []LedgersAgree
<1>1. IInv => LedgersAgree
  BY AgreeFromInv
<1> QED
  BY <1>1, Invariance, PTL

\* No committed block is skipped by writeBlock, and none panics a node, until a cancelled
\* goroutine proposes a block late; and from then on a node that runs still has a block of
\* every number that it has passed.
THEOREM AllWritten == Spec => []CommittedBlocksWritten
<1>1. IInv => CommittedBlocksWritten
  <2> SUFFICES ASSUME IInv, NEW n \in Node, NEW i \in 1..chain[n].applied,
                      log[n][i].block # NoBlock
               PROVE  \/ \E j \in 1..Len(chain[n].blocks) :
                           chain[n].blocks[j].block = log[n][i].block
                      \/ late /\ (Running(n) => Len(log[n][i].block) =< Len(chain[n].blocks))
    BY DEF CommittedBlocksWritten
  <2>1. PICK s \in Chain : s = chain[n]
    BY InvParts, AnyFacts
  <2>2. CASE late
    <3>1. First(s, log[n], commit[n])
      BY <2>1, InvParts, AnyFacts DEF AnyOK
    <3>2. ASSUME Running(n) PROVE Len(log[n][i].block) =< Len(s.blocks)
      BY <2>1, <3>1, <3>2 DEF First, Running
    <3> QED
      BY <2>1, <2>2, <3>2
  <2>3. CASE ~late
    <3> SInv
      BY <2>3, InvParts
    <3>2. Ledger(s, log[n], commit[n]) /\ s.applied \in Nat /\ Len(s.blocks) \in Nat
          /\ commit[n] =< Len(log[n]) /\ commit[n] \in Nat /\ log[n] \in Seq(Entry)
      BY <2>1, NodeFacts, ChainFields DEF ChainOK
    <3>3. i \in 1..Len(log[n]) /\ i \in 1..s.applied
      BY <2>1, <3>2 DEF Ledger
    <3>4. PICK j \in Nat : j = Len(log[n][i].block) /\ j >= 1
      BY <3>2, <3>3, EntryBlock
    <3>5. j =< Len(s.blocks) /\ s.blocks[j].index = i
      BY <3>2, <3>3, <3>4 DEF Ledger
    <3>6. j \in 1..Len(s.blocks)
      BY <3>2, <3>4, <3>5
    <3>7. s.blocks[j].block = log[n][i].block
      BY <3>2, <3>5, <3>6 DEF Ledger
    <3> QED
      BY <2>1, <3>6, <3>7
  <2> QED
    BY <2>2, <2>3
<1> QED
  BY <1>1, Invariance, PTL

\* A leader creates no block on top of a config block that is not written yet, unless a
\* cancelled goroutine has proposed a block late: submitC stays closed and the batch timer
\* stopped while configInflight is set.
THEOREM Barrier == Spec => []ConfigBarrier
<1>1. IInv => ConfigBarrier
  <2> SUFFICES ASSUME IInv, ~late, NEW n \in Node, chain[n].leading, chain[n].bc # << >>,
                      NEW i \in 1..(Len(chain[n].bc[1]) - 1), chain[n].bc[1][i].config
               PROVE  i =< Len(chain[n].blocks)
    BY DEF ConfigBarrier
  <2> SInv
    BY InvParts
  <2>1. PICK s \in Chain : s = chain[n]
    BY NodeFacts
  <2>2. RoleOK(s) /\ BarrierOK(s) /\ s.bc \in Seq(Block) /\ Len(s.blocks) \in Nat
    BY <2>1, NodeFacts, ChainFields DEF ChainOK
  <2>3. PICK b \in Block : b = s.bc[1]
    <3>1. Len(s.bc) \in Nat /\ Len(s.bc) # 0
      BY <2>1, <2>2
    <3>2. 1 \in 1..Len(s.bc)
      BY <3>1
    <3> QED
      BY <2>2, <3>2
  <2>4. PICK h \in Nat : h = Len(b)
    BY DEF Block
  <2>5. i \in 1..(h - 1)
    BY <2>1, <2>3, <2>4
  <2>6. i \in 1..h /\ i # h /\ i \in Nat /\ i =< h
    BY <2>4, <2>5
  <2>7. CASE s.justElected
    <3>1. h =< Len(s.blocks)
      BY <2>1, <2>2, <2>3, <2>4, <2>7 DEF RoleOK, Idle
    <3> QED
      BY <2>1, <2>2, <2>4, <2>6, <3>1
  <2>8. CASE ~s.justElected
    <3>1. ~ (i > Len(s.blocks))
      BY <2>1, <2>2, <2>3, <2>4, <2>6, <2>8 DEF BarrierOK
    <3> QED
      BY <2>1, <2>2, <2>6, <3>1
  <2> QED
    BY <2>7, <2>8
<1> QED
  BY <1>1, Invariance, PTL

\* The batch timer runs exactly while messages are pending, and on leaders only, late
\* proposals or not.
THEOREM TimerExact == Spec => []TimerIffPending
<1>1. IInv => TimerIffPending
  <2> SUFFICES ASSUME IInv, NEW n \in Node
               PROVE  /\ chain[n].ticking <=> chain[n].cutter.batch # << >>
                      /\ chain[n].ticking => chain[n].leading
    BY DEF TimerIffPending
  <2> QED
    BY InvParts, AnyFacts DEF AnyOK, TimerOK
<1> QED
  BY <1>1, Invariance, PTL
=============================================================================
