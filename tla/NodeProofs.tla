------------------------------ MODULE NodeProofs ------------------------------
(* Proofs for what a node does by itself, for any number of peers, entries *)
(* and pins: the buffers of external protocols in PERSISTENCE and in       *)
(* LASTIN mode, the rounds of the scheduler, the poll of the nodes'        *)
(* typicals and the push buttons.                                          *)
EXTENDS Persistence, LastIn, Scheduler, Discovery, Buttons,
        FiniteSetTheorems, WellFoundedInduction, TLAPS

-----------------------------------------------------------------------------
(* What the searches of NodeIndex return, for every list.                  *)

\* Every set of naturals that is not empty has a least element.
LEMMA LeastElement ==
  ASSUME NEW T \in SUBSET Nat, T # {}
  PROVE  \E m \in T : \A n \in T : m <= n
<1>. DEFINE Below == {0 .. n : n \in T}
<1>1. IsWellFoundedOn(StrictSubsetOrdering(Nat), FiniteSubsetsOf(Nat))
  BY FS_StrictSubsetOrderingWellFounded
<1>2. Below \subseteq FiniteSubsetsOf(Nat)
  <2>1. \A n \in Nat : 0 .. n \in SUBSET Nat /\ IsFiniteSet(0 .. n)
    BY FS_Interval, SMT
  <2>. QED  BY <2>1 DEF FiniteSubsetsOf
<1>3. Below # {}
  OBVIOUS
<1>4. PICK B \in Below : \A C \in Below : ~ <<C, B>> \in StrictSubsetOrdering(Nat)
  BY <1>1, <1>2, <1>3, WFMin
<1>5. PICK m \in T : B = 0 .. m
  OBVIOUS
<1>6. ASSUME NEW n \in T  PROVE  m <= n
  <2>1. ~ <<0 .. n, 0 .. m>> \in StrictSubsetOrdering(Nat)
    BY <1>4, <1>5
  <2>2. ~ (0 .. n \subseteq 0 .. m /\ 0 .. n # 0 .. m)
    BY <2>1, SMT DEF StrictSubsetOrdering
  <2>3. CASE n < m
    <3>1. 0 .. n \subseteq 0 .. m /\ m \in 0 .. m /\ m \notin 0 .. n
      BY <2>3, SMT
    <3>. QED  BY <2>2, <3>1
  <2>. QED  BY <2>3, SMT
<1>. QED  BY <1>5, <1>6

\* Find returns the first position of v, or BUFSIZE.
LEMMA FindFirst ==
  ASSUME NEW list, NEW v
  PROVE  /\ Find(list, v) \in 0 .. BUFSIZE
         /\ Find(list, v) = BUFSIZE \/ list[Find(list, v)] = v
         /\ \A f \in 0 .. Find(list, v) - 1 : list[f] # v
<1>. DEFINE Hit == {e \in 0 .. BUFSIZE : e = BUFSIZE \/ list[e] = v}
            First(e) == /\ e = BUFSIZE \/ list[e] = v
                        /\ \A f \in 0 .. e - 1 : list[f] # v
<1>1. Hit \in SUBSET Nat /\ Hit # {}
  BY NodeIndexConstants, SMT
<1>2. PICK m \in Hit : \A n \in Hit : m <= n
  BY <1>1, LeastElement
<1>3. \A f \in 0 .. m - 1 : list[f] # v
  <2>1. \A f \in 0 .. m - 1 : f \in 0 .. BUFSIZE /\ ~ (m <= f)
    BY NodeIndexConstants, SMT
  <2>. QED  BY <1>2, <2>1
<1>4. \E e \in 0 .. BUFSIZE : First(e)
  BY <1>2, <1>3
<1>5. First(CHOOSE e \in 0 .. BUFSIZE : First(e)) /\ (CHOOSE e \in 0 .. BUFSIZE : First(e)) \in 0 .. BUFSIZE
  <2>. HIDE DEF First
  <2>. QED  BY <1>4
<1>6. Find(list, v) = CHOOSE e \in 0 .. BUFSIZE : First(e)
  BY DEF Find
<1>. QED  BY <1>5, <1>6

\* When v is in the list, Find returns an entry that holds it.
LEMMA FindListed ==
  ASSUME NEW list, NEW v, NEW e \in Entry, list[e] = v
  PROVE  Find(list, v) \in Entry /\ list[Find(list, v)] = v
<1>1. Find(list, v) \in 0 .. BUFSIZE /\ (Find(list, v) = BUFSIZE \/ list[Find(list, v)] = v)
  BY FindFirst
<1>2. Find(list, v) # BUFSIZE
  <2>1. SUFFICES ASSUME Find(list, v) = BUFSIZE  PROVE FALSE
    OBVIOUS
  <2>2. e \in 0 .. Find(list, v) - 1
    BY <2>1, NodeIndexConstants, SMT DEF Entry
  <2>. QED  BY <2>2, FindFirst
<1>. QED  BY <1>1, <1>2, NodeIndexConstants, SMT DEF Entry

\* New data goes to an entry: a free one when there is one.
LEMMA EntryForDataFree ==
  ASSUME NEW list
  PROVE  /\ EntryForData(list) \in Entry
         /\ IsFull(list) \/ list[EntryForData(list)] = IDX_NULL
<1>1. CASE IsFull(list)
  BY <1>1, NodeIndexConstants, SMT DEF EntryForData, Entry
<1>2. CASE ~ IsFull(list)
  BY <1>2, FindListed DEF EntryForData, IsFull
<1>. QED  BY <1>1, <1>2

\* Writing an entry forgets at most the node that was in it.
LEMMA WriteKeeps ==
  ASSUME NEW list \in IndexList, NEW e \in 0 .. BUFSIZE, NEW v, NEW n,
         n \in Listed(list), n # list[e]
  PROVE  n \in Listed([list EXCEPT ![e] = v])
<1>1. PICK f \in Entry : list[f] = n /\ n # IDX_NULL
  BY DEF Listed
<1>2. f \in 0 .. BUFSIZE
  BY NodeIndexConstants, SMT DEF Entry
<1>3. [list EXCEPT ![e] = v][f] = n
  BY <1>1, <1>2 DEF IndexList
<1>. QED  BY <1>1, <1>3 DEF Listed

\* Clearing a node forgets no other node.
LEMMA ClearedKeeps ==
  ASSUME NEW list \in IndexList, NEW n \in Node, NEW m \in Listed(list), m # n,
         n \in Listed(list)
  PROVE  m \in Listed(Cleared(list, n))
<1>1. PICK e \in Entry : list[e] = n
  BY DEF Listed
<1>2. Find(list, n) \in Entry /\ list[Find(list, n)] = n
  BY <1>1, FindListed
<1>3. Find(list, n) \in 0 .. BUFSIZE
  BY FindFirst
<1>. QED  BY <1>2, <1>3, WriteKeeps DEF Cleared

LEMMA ListTypes ==
  /\ EmptyList \in IndexList
  /\ \A list \in IndexList, e \in 0 .. BUFSIZE, n \in Node \cup {IDX_NULL} :
        [list EXCEPT ![e] = n] \in IndexList
  /\ \A list \in IndexList, n \in Node : Cleared(list, n) \in IndexList
<1>1. EmptyList \in IndexList
  BY DEF EmptyList, IndexList, Node, LOCNODE
<1>2. \A list \in IndexList, e \in 0 .. BUFSIZE, n \in Node \cup {IDX_NULL} :
        [list EXCEPT ![e] = n] \in IndexList
  BY DEF IndexList
<1>. QED  BY <1>1, <1>2 DEF Cleared, IndexList
-----------------------------------------------------------------------------
(* LASTIN.                                                                 *)

LEMMA Constants ==
  /\ IDX_NULL \notin Node
  /\ Entry \subseteq 0 .. BUFSIZE /\ BUFSIZE \in 0 .. BUFSIZE /\ BUFSIZE \notin Entry
  /\ 0 \in Sample /\ Sample \subseteq Nat /\ MaxSample \in Nat
  BY NodeIndexConstants, SMT DEF Node, LOCNODE, IDX_NULL, Entry, Sample

LEMMA FoundEntry ==
  ASSUME NEW n \in Node, LastInIsData(n)
  PROVE  Find(l_idx, n) \in Entry /\ l_idx[Find(l_idx, n)] = n
<1>1. Find(l_idx, n) \in 0 .. BUFSIZE /\ Find(l_idx, n) # BUFSIZE /\ l_idx[Find(l_idx, n)] = n
  BY FindFirst DEF LastInIsData
<1>. QED  BY <1>1, NodeIndexConstants, SMT DEF Entry

\* Every variable keeps its type, and the byte behind the index list keeps
\* its zero: LASTIN never writes past its list.
THEOREM LastInTypeCorrect == LastInSpec => []LastInTypeOK
<1>1. LastInInit => LastInTypeOK
  <2>1. EmptyList[BUFSIZE] = 0
    BY Constants DEF EmptyList
  <2>. QED  BY <2>1, Constants, ListTypes DEF LastInInit, LastInTypeOK
<1>2. LastInTypeOK /\ [LastInNext]_lastinVars => LastInTypeOK'
  <2>. SUFFICES ASSUME LastInTypeOK, [LastInNext]_lastinVars  PROVE LastInTypeOK'
    OBVIOUS
  <2>1. ASSUME NEW n \in Node, DataIn(n)  PROVE LastInTypeOK'
    <3>. DEFINE e == EntryForData(l_idx)
    <3>1. e \in Entry
      BY EntryForDataFree
    <3>2. l_idx' \in IndexList /\ l_idx'[BUFSIZE] = 0
      BY <2>1, <3>1, Constants, ListTypes, ZenonT(30) DEF DataIn, LastInTypeOK, IndexList
    <3>3. last[n] + 1 \in Sample
      BY <2>1, NodeIndexConstants, SMT DEF DataIn, LastInTypeOK, Sample
    <3>4. last' \in [Node -> Sample] /\ l_out' \in [Entry -> Sample]
      BY <2>1, <3>1, <3>3 DEF DataIn, LastInTypeOK
    <3>5. l_overwritten' \subseteq Node
      <4>1. l_idx[e] \in Node \cup {IDX_NULL}
        BY <3>1, Constants DEF LastInTypeOK, IndexList
      <4>. QED  BY <2>1, <4>1 DEF DataIn, LastInTypeOK
    <3>6. best' = best
      BY <2>1 DEF DataIn
    <3>. QED  BY <3>2, <3>4, <3>5, <3>6 DEF LastInTypeOK
  <2>2. ASSUME NEW n \in Node, ReadLastIn(n)  PROVE LastInTypeOK'
    <3>1. Find(l_idx, n) \in Entry
      BY <2>2, FoundEntry DEF ReadLastIn
    <3>2. l_idx' \in IndexList /\ l_idx'[BUFSIZE] = 0
      BY <2>2, <3>1, Constants DEF ReadLastIn, LastInTypeOK, Cleared, IndexList
    <3>3. GetData(n) \in Sample
      BY <3>1 DEF GetData, LastInTypeOK
    <3>. QED  BY <2>2, <3>2, <3>3 DEF ReadLastIn, LastInTypeOK
  <2>3. CASE UNCHANGED lastinVars
    BY <2>3 DEF lastinVars, LastInTypeOK
  <2>. QED  BY <2>1, <2>2, <2>3 DEF LastInNext
<1>. QED  BY <1>1, <1>2, PTL DEF LastInSpec

\* No entry and no reader is ahead of the node the data is from.
NoneAhead ==
  /\ \A n \in Node : best[n] <= last[n]
  /\ \A e \in Entry, n \in Node : l_idx[e] = n => l_out[e] <= last[n]

LEMMA NoneAheadHolds == LastInSpec => []NoneAhead
<1>1. LastInInit => NoneAhead
  <2>. SUFFICES ASSUME LastInInit  PROVE NoneAhead
    OBVIOUS
  <2>1. \A n \in Node : best[n] <= last[n]
    BY SMT DEF LastInInit
  <2>2. \A e \in Entry, n \in Node : l_idx[e] # n
    BY Constants DEF LastInInit, EmptyList
  <2>. QED  BY <2>1, <2>2 DEF NoneAhead
<1>2. LastInTypeOK /\ LastInTypeOK' /\ NoneAhead /\ [LastInNext]_lastinVars => NoneAhead'
  <2>. SUFFICES ASSUME LastInTypeOK, LastInTypeOK', NoneAhead, [LastInNext]_lastinVars  PROVE NoneAhead'
    OBVIOUS
  <2>0. \A n \in Node, e \in Entry :
           /\ last[n] \in Nat /\ last'[n] \in Nat
           /\ best[n] \in Nat /\ best'[n] \in Nat
           /\ l_out[e] \in Nat /\ l_out'[e] \in Nat
    BY Constants DEF LastInTypeOK
  <2>types. \A n \in Node : last[n] \in Nat /\ last'[n] \in Nat /\ best[n] \in Nat
    BY Constants DEF LastInTypeOK
  <2>1. ASSUME NEW n \in Node, DataIn(n)  PROVE NoneAhead'
    <3>1. \A m \in Node : last[m] <= last'[m]
      BY <2>0, <2>1, SMT DEF DataIn, LastInTypeOK
    <3>2. ASSUME NEW m \in Node  PROVE best'[m] <= last'[m]
      <4>1. best'[m] = best[m]
        BY <2>1 DEF DataIn
      <4>2. best[m] <= last[m]
        BY DEF NoneAhead
      <4>3. last[m] <= last'[m] /\ last[m] \in Nat /\ last'[m] \in Nat /\ best[m] \in Nat
        BY <3>1, <2>types
      <4>. QED  BY <4>1, <4>2, <4>3, SMT
    <3>3. ASSUME NEW e \in Entry, NEW m \in Node, l_idx'[e] = m  PROVE l_out'[e] <= last'[m]
      <4>1. CASE e = EntryForData(l_idx)
        <5>1. l_idx'[e] = n /\ l_out'[e] = last'[n]
          BY <2>1, <4>1, Constants DEF DataIn, LastInTypeOK, IndexList
        <5>. QED  BY <2>0, <3>3, <5>1, SMT
      <4>2. CASE e # EntryForData(l_idx)
        <5>1. l_idx'[e] = l_idx[e] /\ l_out'[e] = l_out[e]
          BY <2>1, <4>2, Constants DEF DataIn, LastInTypeOK, IndexList
        <5>2. l_out[e] <= last[m]
          BY <3>3, <5>1 DEF NoneAhead
        <5>. QED  BY <2>0, <3>1, <5>1, <5>2, SMT
      <4>. QED  BY <4>1, <4>2
    <3>. QED  BY <3>2, <3>3 DEF NoneAhead
  <2>2. ASSUME NEW n \in Node, ReadLastIn(n)  PROVE NoneAhead'
    <3>1. Find(l_idx, n) \in Entry /\ l_idx[Find(l_idx, n)] = n
      BY <2>2, FoundEntry DEF ReadLastIn
    <3>2. GetData(n) <= last[n]
      BY <3>1 DEF GetData, NoneAhead
    <3>3. \A m \in Node : best'[m] <= last'[m]
      <4>1. last' = last /\ best'[n] \in {GetData(n), best[n]}
        BY <2>2 DEF ReadLastIn, LastInTypeOK
      <4>2. \A m \in Node : m # n => best'[m] = best[m]
        BY <2>2 DEF ReadLastIn, LastInTypeOK
      <4>3. \A m \in Node : best[m] <= last[m]
        BY DEF NoneAhead
      <4>4. best'[n] <= last[n]
        BY <3>2, <4>1, <4>3, Zenon
      <4>5. \A m \in Node : best'[m] <= last[m]
        BY <4>2, <4>3, <4>4, Zenon
      <4>. QED  BY <4>1, <4>5, Zenon
    <3>4. ASSUME NEW e \in Entry, NEW m \in Node, l_idx'[e] = m  PROVE l_out'[e] <= last'[m]
      <4>1. l_idx[e] = m
        BY <2>2, <3>4, Constants, <3>1 DEF ReadLastIn, Cleared, LastInTypeOK, IndexList
      <4>. QED  BY <2>2, <4>1 DEF ReadLastIn, NoneAhead
    <3>. QED  BY <3>3, <3>4 DEF NoneAhead
  <2>3. CASE UNCHANGED lastinVars
    BY <2>3 DEF lastinVars, NoneAhead
  <2>. QED  BY <2>1, <2>2, <2>3 DEF LastInNext
<1>. QED  BY <1>1, <1>2, LastInTypeCorrect, PTL DEF LastInSpec

\* The last data of a node is read or waits in an entry of that node, unless
\* one of its entries was overwritten: for any number of nodes and entries.
THEOREM LastDataKeptHolds == LastInSpec => []LastDataKept
<1>1. LastInInit => LastDataKept
  BY DEF LastInInit, LastDataKept
<1>2. LastInTypeOK /\ NoneAhead /\ LastDataKept /\ [LastInNext]_lastinVars => LastDataKept'
  <2>. SUFFICES ASSUME LastInTypeOK, NoneAhead, LastDataKept, [LastInNext]_lastinVars  PROVE LastDataKept'
    OBVIOUS
  <2>1. ASSUME NEW n \in Node, DataIn(n)  PROVE LastDataKept'
    <3>. DEFINE w == EntryForData(l_idx)
    <3>1. w \in Entry /\ w \in 0 .. BUFSIZE
      BY EntryForDataFree, Constants
    <3>2. SUFFICES ASSUME NEW m \in Node, m \notin l_overwritten', best'[m] # last'[m]
                   PROVE  \E e \in Entry : l_idx'[e] = m /\ l_out'[e] = last'[m]
      BY DEF LastDataKept
    <3>3. CASE m = n
      <4>1. l_idx'[w] = n /\ l_out'[w] = last'[n]
        BY <2>1, <3>1 DEF DataIn, LastInTypeOK, IndexList
      <4>. QED  BY <3>1, <3>3, <4>1
    <3>4. CASE m # n
      <4>1. best[m] # last[m] /\ m \notin l_overwritten /\ m # l_idx[w] /\ last'[m] = last[m]
        BY <2>1, <3>2, <3>4, Constants DEF DataIn, LastInTypeOK
      <4>2. PICK e \in Entry : l_idx[e] = m /\ l_out[e] = last[m]
        BY <4>1 DEF LastDataKept
      <4>3. e # w /\ l_idx'[e] = m /\ l_out'[e] = last[m]
        BY <2>1, <4>1, <4>2, Constants DEF DataIn, LastInTypeOK, IndexList
      <4>. QED  BY <4>1, <4>3
    <3>. QED  BY <3>3, <3>4
  <2>2. ASSUME NEW n \in Node, ReadLastIn(n)  PROVE LastDataKept'
    <3>1. Find(l_idx, n) \in Entry /\ l_idx[Find(l_idx, n)] = n
      BY <2>2, FoundEntry DEF ReadLastIn
    <3>2. SUFFICES ASSUME NEW m \in Node, m \notin l_overwritten', best'[m] # last'[m]
                   PROVE  \E e \in Entry : l_idx'[e] = m /\ l_out'[e] = last'[m]
      BY DEF LastDataKept
    <3>3. best[m] # last[m]
      <4>1. CASE m = n
        <5>1. /\ best[n] \in Nat /\ last[n] \in Nat /\ GetData(n) \in Nat
              /\ best[n] <= last[n] /\ GetData(n) <= last[n]
          BY <3>1, Constants DEF LastInTypeOK, NoneAhead, GetData
        <5>2. best'[n] = (IF GetData(n) > best[n] THEN GetData(n) ELSE best[n]) /\ last' = last
          BY <2>2 DEF ReadLastIn, LastInTypeOK
        <5>. QED  BY <3>2, <4>1, <5>1, <5>2, SMT
      <4>2. CASE m # n
        BY <2>2, <3>2, <4>2 DEF ReadLastIn, LastInTypeOK
      <4>. QED  BY <4>1, <4>2
    <3>4. m \notin l_overwritten /\ last'[m] = last[m] /\ l_out' = l_out
      BY <2>2, <3>2 DEF ReadLastIn
    <3>5. PICK e \in Entry : l_idx[e] = m /\ l_out[e] = last[m]
      BY <3>3, <3>4 DEF LastDataKept
    <3>6. e # Find(l_idx, n)
      <4>1. SUFFICES ASSUME e = Find(l_idx, n)  PROVE FALSE
        OBVIOUS
      <4>2. m = n /\ GetData(n) = last[n]
        BY <3>1, <3>5, <4>1 DEF GetData
      <4>3. best[n] \in Nat /\ last[n] \in Nat /\ best[n] <= last[n]
        BY Constants DEF LastInTypeOK, NoneAhead
      <4>4. best'[n] = (IF GetData(n) > best[n] THEN GetData(n) ELSE best[n]) /\ last' = last
        BY <2>2 DEF ReadLastIn, LastInTypeOK
      <4>5. best'[n] = last[n]
        BY <4>2, <4>3, <4>4, SMT
      <4>. QED  BY <3>2, <4>2, <4>4, <4>5
    <3>7. l_idx'[e] = m
      BY <2>2, <3>5, <3>6, Constants DEF ReadLastIn, Cleared, LastInTypeOK, IndexList
    <3>. QED  BY <3>4, <3>5, <3>7
  <2>3. CASE UNCHANGED lastinVars
    BY <2>3 DEF lastinVars, LastDataKept
  <2>. QED  BY <2>1, <2>2, <2>3 DEF LastInNext
<1>. QED  BY <1>1, <1>2, LastInTypeCorrect, NoneAheadHolds, PTL DEF LastInSpec
-----------------------------------------------------------------------------
(* PERSISTENCE.                                                            *)

USE DEF LOCNODE, IDX_NULL

LEMMA NodesAreNotNull == IDX_NULL \notin Node /\ LOCNODE \in Node /\ Peer \subseteq Node
  BY NodeIndexConstants, SMT DEF Node

\* The node the interface is told of is in the list.
LEMMA ToldIsListed ==
  ASSUME NEW n \in Node, IsData(n)
  PROVE  n \in Listed(idx)
<1>. DEFINE Used == {e \in Entry : idx[e] # IDX_NULL}
            First(e) == idx[e] # IDX_NULL /\ \A f \in 0 .. e - 1 : idx[f] = IDX_NULL
<1>1. Listed(idx) # {} /\ n = idx[CHOOSE e \in Entry : First(e)]
  BY NodesAreNotNull DEF IsData, GetPersistence
<1>2. Used \in SUBSET Nat /\ Used # {}
  BY <1>1, SMT DEF Listed, Entry
<1>3. PICK m \in Used : \A e \in Used : m <= e
  BY <1>2, LeastElement
<1>4. \A f \in 0 .. m - 1 : idx[f] = IDX_NULL
  <2>1. \A f \in 0 .. m - 1 : f \in Entry /\ ~ (m <= f)
    BY NodeIndexConstants, SMT DEF Entry
  <2>. QED  BY <1>3, <2>1
<1>5. \E e \in Entry : First(e)
  BY <1>3, <1>4
<1>6. (CHOOSE e \in Entry : First(e)) \in Entry
  <2>. HIDE DEF First
  <2>. QED  BY <1>5
<1>. QED  BY <1>1, <1>6, NodesAreNotNull DEF Listed

\* Both places a write may go to are bytes of the list or the one behind it.
LEMMA WhereDataGoes ==
  EntryForData(idx) \in 0 .. BUFSIZE /\ LocalEntry \in 0 .. BUFSIZE
<1>1. EntryForData(idx) \in Entry
  BY EntryForDataFree
<1>. QED  BY <1>1, NodeIndexConstants, SMT DEF Entry, LocalEntry

LEMMA RecordType ==
  ASSUME TypeOK, NEW e \in 0 .. BUFSIZE, NEW n \in Node, Record(e, n),
         out[n] < MaxSample, UNCHANGED seen
  PROVE  TypeOK'
<1>1. idx' \in IndexList
  BY ListTypes DEF Record, TypeOK
<1>2. out' \in [Node -> Sample]
  <2>1. out[n] + 1 \in Sample
    BY NodeIndexConstants, SMT DEF TypeOK, Sample
  <2>. QED  BY <2>1 DEF Record, TypeOK
<1>3. overwritten' \subseteq Node
  <2>1. idx[e] \in Node \cup {IDX_NULL}
    BY DEF TypeOK, IndexList
  <2>. QED  BY <2>1 DEF Record, TypeOK
<1>. QED  BY <1>1, <1>2, <1>3 DEF TypeOK

\* Every variable keeps its type: the index list only ever holds nodes and
\* the null value, also the byte behind it that the gateway's data may hit.
THEOREM PersistenceTypeCorrect == Spec => []TypeOK
<1>1. Init => TypeOK
  <2>1. 0 \in Sample
    BY NodeIndexConstants, SMT DEF Sample
  <2>. QED  BY <2>1, ListTypes DEF Init, TypeOK
<1>2. TypeOK /\ [Next]_vars => TypeOK'
  <2>. SUFFICES ASSUME TypeOK, [Next]_vars  PROVE TypeOK'
    OBVIOUS
  <2>1. ASSUME NEW n \in Peer, PeerData(n)  PROVE TypeOK'
    BY <2>1, RecordType, WhereDataGoes, NodesAreNotNull DEF PeerData
  <2>2. CASE LocalData
    BY <2>2, RecordType, WhereDataGoes, NodesAreNotNull DEF LocalData
  <2>3. ASSUME NEW n \in Node, Read(n)  PROVE TypeOK'
    BY <2>3, ListTypes DEF Read, TypeOK
  <2>4. CASE UNCHANGED vars
    BY <2>4 DEF vars, TypeOK
  <2>. QED  BY <2>1, <2>2, <2>3, <2>4 DEF Next
<1>. QED  BY <1>1, <1>2, PTL DEF Spec

LEMMA RecordKeepsNotice ==
  ASSUME TypeOK, NoticeKept, NEW e \in 0 .. BUFSIZE, NEW n \in Node, Record(e, n),
         UNCHANGED seen, n \in Peer => e \in Entry
  PROVE  NoticeKept'
<1>1. SUFFICES ASSUME NEW m \in Peer, m \notin overwritten', out'[m] # seen'[m]
               PROVE  m \in Listed(idx')
  BY DEF NoticeKept
<1>2. m \in Node /\ m # IDX_NULL
  BY NodesAreNotNull
<1>3. idx' = [idx EXCEPT ![e] = n] /\ idx \in IndexList
  BY DEF Record, TypeOK
<1>4. CASE m = n
  <2>1. e \in Entry /\ idx'[e] = m
    BY <1>3, <1>4 DEF IndexList
  <2>. QED  BY <1>2, <2>1 DEF Listed
<1>5. CASE m # n
  <2>1. out[m] # seen[m] /\ m \notin overwritten /\ m # idx[e]
    BY <1>1, <1>2, <1>5 DEF Record, TypeOK
  <2>2. m \in Listed(idx)
    BY <2>1 DEF NoticeKept
  <2>. QED  BY <1>3, <2>1, <2>2, WriteKeeps
<1>. QED  BY <1>4, <1>5

\* The interface finds every peer with unread data unless an entry of that
\* peer was overwritten: for any number of peers, entries and changes, with
\* or without data of the gateway itself.
THEOREM NoticeKeptHolds == Spec => []NoticeKept
<1>1. Init => NoticeKept
  BY NodesAreNotNull DEF Init, NoticeKept
<1>2. TypeOK /\ NoticeKept /\ [Next]_vars => NoticeKept'
  <2>. SUFFICES ASSUME TypeOK, NoticeKept, [Next]_vars  PROVE NoticeKept'
    OBVIOUS
  <2>1. ASSUME NEW n \in Peer, PeerData(n)  PROVE NoticeKept'
    <3>1. EntryForData(idx) \in Entry
      BY EntryForDataFree
    <3>. QED  BY <2>1, <3>1, RecordKeepsNotice, WhereDataGoes, NodesAreNotNull DEF PeerData
  <2>2. CASE LocalData
    <3>1. LOCNODE \notin Peer
      BY NodeIndexConstants, SMT
    <3>. QED  BY <2>2, <3>1, RecordKeepsNotice, WhereDataGoes, NodesAreNotNull DEF LocalData
  <2>3. ASSUME NEW n \in Node, Read(n)  PROVE NoticeKept'
    <3>1. SUFFICES ASSUME NEW m \in Peer, m \notin overwritten', out'[m] # seen'[m]
                   PROVE  m \in Listed(idx')
      BY DEF NoticeKept
    <3>2. m \in Node /\ m # n /\ out[m] # seen[m] /\ m \notin overwritten
      BY <2>3, <3>1, NodesAreNotNull DEF Read, TypeOK
    <3>3. m \in Listed(idx)
      BY <3>2 DEF NoticeKept
    <3>4. n \in Listed(idx)
      BY <2>3, ToldIsListed DEF Read
    <3>. QED  BY <2>3, <3>2, <3>3, <3>4, ClearedKeeps DEF Read, TypeOK
  <2>4. CASE UNCHANGED vars
    BY <2>4 DEF vars, NoticeKept
  <2>. QED  BY <2>1, <2>2, <2>3, <2>4 DEF Next
<1>. QED  BY <1>1, <1>2, PersistenceTypeCorrect, PTL DEF Spec
-----------------------------------------------------------------------------
(* Remainders.                                                             *)

LEMMA ModUnique ==
  ASSUME NEW k \in Nat \ {0}, NEW q \in Int, NEW r \in 0 .. k - 1
  PROVE  (q * k + r) % k = r
  BY SMT

LEMMA DivMod ==
  ASSUME NEW k \in Nat \ {0}, NEW a \in Int
  PROVE  /\ a % k \in 0 .. k - 1 /\ a \div k \in Int
         /\ a = (a \div k) * k + (a % k)
  BY SMT

LEMMA ModSmall ==
  ASSUME NEW k \in Nat \ {0}, NEW a \in 0 .. k - 1
  PROVE  a % k = a
  BY SMT

\* The remainder of the sum is that of the remainders, when it is in range.
LEMMA ModAdd ==
  ASSUME NEW k \in Nat \ {0}, NEW a \in Int, NEW d \in Int
  PROVE  /\ (a % k) + d \in 0 .. k - 1 => (a + d) % k = (a % k) + d
         /\ (a % k) + d = k => (a + d) % k = 0
<1>. DEFINE q == a \div k
            r == a % k
<1>1. q \in Int /\ r \in 0 .. k - 1 /\ a = q * k + r
  BY DivMod
<1>2. k \in Int /\ q * k \in Int /\ (q + 1) * k = q * k + k
  BY <1>1, SMT
<1>3. ASSUME r + d \in 0 .. k - 1  PROVE (a + d) % k = r + d
  <2>1. a + d = q * k + (r + d)
    BY <1>1, <1>2, SMT
  <2>. QED  BY <2>1, <1>1, <1>3, ModUnique
<1>4. ASSUME r + d = k  PROVE (a + d) % k = 0
  <2>1. a + d = (q + 1) * k + 0
    BY <1>1, <1>2, <1>4, SMT
  <2>2. q + 1 \in Int /\ 0 \in 0 .. k - 1
    BY <1>1, SMT
  <2>. QED  BY <2>1, <2>2, ModUnique
<1>. QED  BY <1>3, <1>4

\* A clock that wraps: reading b at a, and at d later.
LEMMA ClockAdd ==
  ASSUME NEW k \in Nat \ {0}, NEW a \in 0 .. k - 1, NEW b \in 0 .. k - 1,
         NEW d \in Nat, ((a - b) % k) + d \in 0 .. k - 1
  PROVE  (((a + d) % k) - b) % k = ((a - b) % k) + d
<1>. DEFINE e == (a + d) % k
            q == (a + d) \div k
            p == ((a - b) + d) \div k
            r == ((a - b) + d) % k
<1>1. e \in 0 .. k - 1 /\ q \in Int /\ a + d = q * k + e
  BY DivMod
<1>2. r = ((a - b) % k) + d
  BY ModAdd
<1>3. r \in 0 .. k - 1 /\ p \in Int /\ (a - b) + d = p * k + r
  <2>1. (a - b) + d \in Int
    OBVIOUS
  <2>. QED  BY <2>1, DivMod
<1>4. (e - b) % k = r
  <2>. HIDE DEF e, q, p, r
  <2>1. /\ p - q \in Int /\ p * k \in Int /\ q * k \in Int
        /\ (p - q) * k = p * k - q * k
    BY <1>1, <1>3, SMT
  <2>2. e - b = (p - q) * k + r
    BY <1>1, <1>3, <2>1, SMT
  <2>. QED  BY <1>3, <2>1, <2>2, ModUnique
<1>. QED  BY <1>2, <1>4
-----------------------------------------------------------------------------
(* The scheduler.                                                          *)

\* What the code of a sketch needs to be in time: no pass is longer than the
\* fast time base, and the block's phase comes before the counter wraps.
FitsInBase == MAXBODY <= time_base_fast /\ Shift < num_phases

\* Milliseconds of the clock since tmr.
Since(tmr) == (now - tmr) % WRAP

\* The history counts what the clock shows: no wait is so long that millis()
\* laps it.
ClocksRight ==
  /\ now \in 0 .. WRAP - 1 /\ tmr_fast \in 0 .. WRAP - 1 /\ tmr_slow \in 0 .. WRAP - 1
  /\ elapsed_fast = Since(tmr_fast) /\ elapsed_slow = Since(tmr_slow)
  /\ elapsed_fast \in 0 .. time_base_fast + Larger(1, MAXBODY)

\* A slow round that is overdue finds the fast one done.
SlowIsNext ==
  /\ elapsed_slow \in Nat
  /\ \/ elapsed_slow <= time_base_slow + Larger(1, MAXBODY)
     \/ elapsed_fast <= time_base_fast /\ elapsed_slow <= time_base_slow + 2 * MAXBODY + 1

\* Fast rounds since the block ran, by the phase: only in the first period
\* after the phases have wrapped is it more than the period.
WaitedRight ==
  /\ phase_fast \in Phase /\ waited \in Nat /\ gap \in 0 .. Period + Shift
  /\ LET r == phase_fast % Period
     IN  IF r >= Shift THEN waited = r - Shift
         ELSE IF phase_fast >= Period THEN waited = r + Period - Shift
         ELSE waited <= Period + phase_fast

SchedInv == ClocksRight /\ SlowIsNext /\ WaitedRight

LEMMA SchedInitInv ==
  ASSUME SchedInit, FitsInBase
  PROVE  SchedInv
<1>. USE SchedulerConstants DEF SchedInit
<1>1. 0 % WRAP = 0 /\ 0 % Period = 0
  BY ModSmall
<1>2. ClocksRight
  BY <1>1 DEF ClocksRight, Since, Larger
<1>3. SlowIsNext
  BY DEF SlowIsNext, Larger
<1>4. WaitedRight
  BY <1>1 DEF WaitedRight, Phase
<1>. QED  BY <1>2, <1>3, <1>4 DEF SchedInv

\* The phase advances and its remainder with it, or both wrap.
LEMMA PhaseStep ==
  ASSUME NEW p \in Phase
  PROVE  /\ NextPhase(p) = IF p + 1 = num_phases THEN 0 ELSE p + 1
         /\ NextPhase(p) \in Phase
         /\ p % Period \in 0 .. Period - 1
         /\ p < Period => p % Period = p
         /\ (p + 1) % Period = IF (p % Period) + 1 = Period THEN 0 ELSE (p % Period) + 1
<1>. USE SchedulerConstants DEF Phase
<1>1. NextPhase(p) = IF p + 1 = num_phases THEN 0 ELSE p + 1
  <2>1. p % num_phases = p
    BY ModSmall
  <2>. QED  BY <2>1, ModAdd DEF NextPhase
<1>0. p \in Int /\ 1 \in Int /\ Period \in Nat \ {0} /\ num_phases \in Nat \ {0}
  OBVIOUS
<1>2. p % Period \in 0 .. Period - 1
  BY <1>0, DivMod
<1>3. p < Period => p % Period = p
  BY ModSmall
<1>4. (p + 1) % Period = IF (p % Period) + 1 = Period THEN 0 ELSE (p % Period) + 1
  <2>1. CASE (p % Period) + 1 = Period
    BY <2>1, <1>0, ModAdd
  <2>2. CASE (p % Period) + 1 # Period
    <3>1. (p % Period) + 1 \in 0 .. Period - 1
      BY <2>2, <1>0, <1>2
    <3>. QED  BY <3>1, <2>2, <1>0, ModAdd
  <2>. QED  BY <2>1, <2>2
<1>5. NextPhase(p) \in Phase
  BY <1>0, <1>1
<1>. QED  BY <1>1, <1>2, <1>3, <1>4, <1>5

LEMMA WaitedStep ==
  ASSUME SchedInv, FitsInBase, NEW d \in 0 .. MAXBODY, EXECUTEFAST(d)
  PROVE  WaitedRight'
<1>. USE SchedulerConstants
<1>. DEFINE p == phase_fast
            q == phase_fast'
            r == p % Period
            t == q % Period
<1>1. /\ p \in Phase /\ waited \in Nat /\ gap \in 0 .. Period + Shift
      /\ IF r >= Shift THEN waited = r - Shift
         ELSE IF p >= Period THEN waited = r + Period - Shift
         ELSE waited <= Period + p
  BY DEF SchedInv, WaitedRight
<1>2. /\ q = NextPhase(p)
      /\ IF t = Shift THEN waited' = 0 /\ gap' = waited + 1
                      ELSE waited' = waited + 1 /\ gap' = gap
  BY DEF EXECUTEFAST, Runs
<1>3. /\ q = IF p + 1 = num_phases THEN 0 ELSE p + 1
      /\ q \in Phase
      /\ r \in 0 .. Period - 1
      /\ p < Period => r = p
      /\ (p + 1) % Period = IF r + 1 = Period THEN 0 ELSE r + 1
  BY <1>1, <1>2, PhaseStep
<1>4. q < Period => t = q
  BY <1>3, PhaseStep
<1>5. q = p + 1 => t = IF r + 1 = Period THEN 0 ELSE r + 1
  BY <1>3
<1>6. p \in Nat /\ q \in Nat /\ p < num_phases /\ Shift < num_phases
  BY <1>1, <1>3 DEF Phase, FitsInBase
<1>. HIDE DEF p, q, r, t
<1>7. CASE p + 1 = num_phases
  <2>1. q = 0 /\ t = 0
    BY <1>7, <1>3, <1>4
  <2>2. waited <= Period - 1
    BY <1>7, <1>1, <1>3, <1>6
  <2>3. /\ waited' \in Nat /\ gap' \in 0 .. Period + Shift
        /\ IF t >= Shift THEN waited' = t - Shift
           ELSE IF q >= Period THEN waited' = t + Period - Shift
           ELSE waited' <= Period + q
    BY <2>1, <2>2, <1>1, <1>2
  <2>. QED  BY <2>3, <1>3 DEF WaitedRight, q, t
<1>8. CASE p + 1 # num_phases
  <2>1. q = p + 1 /\ t = IF r + 1 = Period THEN 0 ELSE r + 1
    BY <1>8, <1>3, <1>5
  <2>2. /\ waited' \in Nat /\ gap' \in 0 .. Period + Shift
        /\ IF t >= Shift THEN waited' = t - Shift
           ELSE IF q >= Period THEN waited' = t + Period - Shift
           ELSE waited' <= Period + q
    BY <2>1, <1>1, <1>2, <1>3, <1>4, <1>6
  <2>. QED  BY <2>2, <1>3 DEF WaitedRight, q, t
<1>. QED  BY <1>7, <1>8

\* The clock of a round that is read d later.
LEMMA SinceLater ==
  ASSUME NEW a \in 0 .. WRAP - 1, NEW b \in 0 .. WRAP - 1, NEW d \in Nat,
         ((a - b) % WRAP) + d < WRAP
  PROVE  /\ (((a + d) % WRAP) - b) % WRAP = ((a - b) % WRAP) + d
         /\ (a + d) % WRAP \in 0 .. WRAP - 1
<1>. USE SchedulerConstants
<1>0. a - b \in Int /\ a + d \in Int /\ WRAP \in Nat \ {0}
  OBVIOUS
<1>1. (a - b) % WRAP \in 0 .. WRAP - 1 /\ (a + d) % WRAP \in 0 .. WRAP - 1
  BY <1>0, DivMod
<1>2. ((a - b) % WRAP) + d \in 0 .. WRAP - 1
  BY <1>1
<1>. QED  BY <1>1, <1>2, ClockAdd, ZenonT(30)

LEMMA SchedNextInv ==
  ASSUME SchedInv, FitsInBase, [SchedNext]_schedVars
  PROVE  SchedInv'
<1>. USE SchedulerConstants
<1>0. /\ now \in 0 .. WRAP - 1 /\ tmr_fast \in 0 .. WRAP - 1 /\ tmr_slow \in 0 .. WRAP - 1
      /\ elapsed_fast = (now - tmr_fast) % WRAP
      /\ elapsed_slow = (now - tmr_slow) % WRAP
      /\ elapsed_fast \in Nat /\ elapsed_slow \in Nat
      /\ elapsed_fast <= time_base_fast + Larger(1, MAXBODY)
      /\ \/ elapsed_slow <= time_base_slow + Larger(1, MAXBODY)
         \/ elapsed_fast <= time_base_fast /\ elapsed_slow <= time_base_slow + 2 * MAXBODY + 1
  BY DEF SchedInv, ClocksRight, SlowIsNext, Since, Larger
<1>a. MAXBODY <= time_base_fast
  BY DEF FitsInBase
<1>1. CASE IdlePass
  <2>1. elapsed_fast <= time_base_fast /\ elapsed_slow <= time_base_slow
    BY <1>1, <1>0 DEF IdlePass, IsDue, SlowTurn
  <2>2. elapsed_fast + 1 < WRAP /\ elapsed_slow + 1 < WRAP
    BY <2>1, <1>0, <1>a
  <2>3. /\ now' = (now + 1) % WRAP /\ tmr_fast' = tmr_fast /\ tmr_slow' = tmr_slow
        /\ elapsed_fast' = elapsed_fast + 1 /\ elapsed_slow' = elapsed_slow + 1
    BY <1>1, <2>2 DEF IdlePass, Longer
  <2>4. /\ (now' - tmr_fast') % WRAP = elapsed_fast'
        /\ (now' - tmr_slow') % WRAP = elapsed_slow' /\ now' \in 0 .. WRAP - 1
    BY <2>2, <2>3, <1>0, SinceLater
  <2>5. ClocksRight'
    BY <2>1, <2>3, <2>4, <1>0 DEF ClocksRight, Since, Larger
  <2>6. SlowIsNext'
    BY <2>1, <2>3, <1>0 DEF SlowIsNext, Larger
  <2>7. WaitedRight'
    BY <1>1 DEF IdlePass, SchedInv, WaitedRight
  <2>. QED  BY <2>5, <2>6, <2>7 DEF SchedInv
<1>2. ASSUME NEW d \in 0 .. MAXBODY, EXECUTEFAST(d)  PROVE SchedInv'
  <2>1. elapsed_fast > time_base_fast
    BY <1>2, <1>0 DEF EXECUTEFAST, IsDue
  <2>2. elapsed_slow + d <= time_base_slow + 2 * MAXBODY + 1
    BY <2>1, <1>0 DEF Larger
  <2>3. /\ now' = (now + d) % WRAP /\ tmr_fast' = now /\ tmr_slow' = tmr_slow
        /\ elapsed_fast' = d /\ elapsed_slow' = elapsed_slow + d
    BY <1>2, <2>2, <1>0 DEF EXECUTEFAST, Longer
  <2>4. d \in Nat /\ d < WRAP /\ now - now = 0 /\ (now - now) % WRAP = 0
    BY <1>0, ModSmall
  <2>a. (((now + d) % WRAP) - now) % WRAP = d /\ (now + d) % WRAP \in 0 .. WRAP - 1
    <3>1. ((now - now) % WRAP) + d = d
      BY <2>4
    <3>2. ((now - now) % WRAP) + d < WRAP
      BY <2>4, <3>1
    <3>. QED  BY <3>1, <3>2, <2>4, <1>0, SinceLater
  <2>b. (((now + d) % WRAP) - tmr_slow) % WRAP = elapsed_slow + d
    <3>1. ((now - tmr_slow) % WRAP) + d < WRAP
      BY <2>2, <2>4, <1>0
    <3>. QED  BY <3>1, <2>4, <1>0, SinceLater
  <2>5. /\ (now' - tmr_fast') % WRAP = elapsed_fast' /\ now' \in 0 .. WRAP - 1
        /\ (now' - tmr_slow') % WRAP = elapsed_slow'
    BY <2>a, <2>b, <2>3
  <2>6. ClocksRight'
    BY <2>3, <2>5, <1>0, <1>a DEF ClocksRight, Since, Larger
  <2>7. SlowIsNext'
    BY <2>2, <2>3, <1>0, <1>a DEF SlowIsNext
  <2>. QED  BY <2>6, <2>7, <1>2, WaitedStep DEF SchedInv
<1>3. ASSUME NEW d \in 0 .. MAXBODY, EXECUTESLOW(d)  PROVE SchedInv'
  <2>1. elapsed_fast <= time_base_fast
    BY <1>3, <1>0 DEF EXECUTESLOW, SlowTurn, IsDue
  <2>2. elapsed_fast + d < WRAP
    BY <2>1, <1>0
  <2>3. /\ now' = (now + d) % WRAP /\ tmr_slow' = now /\ tmr_fast' = tmr_fast
        /\ elapsed_slow' = d /\ elapsed_fast' = elapsed_fast + d
    BY <1>3, <2>2 DEF EXECUTESLOW, Longer
  <2>4. d \in Nat /\ d < WRAP /\ now - now = 0 /\ (now - now) % WRAP = 0
    BY <1>0, ModSmall
  <2>a. (((now + d) % WRAP) - now) % WRAP = d /\ (now + d) % WRAP \in 0 .. WRAP - 1
    <3>1. ((now - now) % WRAP) + d = d
      BY <2>4
    <3>2. ((now - now) % WRAP) + d < WRAP
      BY <2>4, <3>1
    <3>. QED  BY <3>1, <3>2, <2>4, <1>0, SinceLater
  <2>b. (((now + d) % WRAP) - tmr_fast) % WRAP = elapsed_fast + d
    <3>1. ((now - tmr_fast) % WRAP) + d < WRAP
      BY <2>2, <2>4, <1>0
    <3>. QED  BY <3>1, <2>4, <1>0, SinceLater
  <2>5. /\ (now' - tmr_fast') % WRAP = elapsed_fast' /\ now' \in 0 .. WRAP - 1
        /\ (now' - tmr_slow') % WRAP = elapsed_slow'
    BY <2>a, <2>b, <2>3
  <2>6. ClocksRight'
    BY <2>1, <2>3, <2>5, <1>0 DEF ClocksRight, Since, Larger
  <2>7. SlowIsNext'
    BY <2>3, <1>a DEF SlowIsNext, Larger
  <2>8. WaitedRight'
    BY <1>3 DEF EXECUTESLOW, SchedInv, WaitedRight
  <2>. QED  BY <2>6, <2>7, <2>8 DEF SchedInv
<1>4. CASE UNCHANGED schedVars
  BY <1>4 DEF schedVars, SchedInv, ClocksRight, Since, SlowIsNext, WaitedRight
<1>. QED  BY <1>1, <1>2, <1>3, <1>4 DEF SchedNext

LEMMA SchedInvInTime ==
  ASSUME SchedInv
  PROVE  InTime
<1>. USE SchedulerConstants
<1>1. RoundsInTime
  BY DEF SchedInv, ClocksRight, SlowIsNext, RoundsInTime, Larger
<1>2. phase_fast % Period \in 0 .. Period - 1 /\ (phase_fast < Period => phase_fast % Period = phase_fast)
  BY PhaseStep DEF SchedInv, WaitedRight
<1>3. waited < Period + Shift /\ gap <= Period + Shift
  BY <1>2 DEF SchedInv, WaitedRight, Phase
<1>. QED  BY <1>1, <1>3 DEF InTime

\* Every round of the scheduler, and every block of a period inside it, comes
\* in time across all wraps of millis() and of the phases, if no pass takes
\* longer than the fast time base (base/SpeakEasy.h: EXECUTEFAST, EXECUTESLOW).
THEOREM InTimeHolds ==
  ASSUME FitsInBase
  PROVE  SchedSpec => []InTime
<1>1. SchedInit => SchedInv
  BY SchedInitInv
<1>2. SchedInv /\ [SchedNext]_schedVars => SchedInv'
  BY SchedNextInv
<1>3. SchedInv => InTime
  BY SchedInvInTime
<1>. QED  BY <1>1, <1>2, <1>3, PTL DEF SchedSpec
-----------------------------------------------------------------------------
(* The poll of the nodes' typicals.                                        *)

DiscoveryTypeOK ==
  /\ size \in 1 .. MaCaco_NODES - 1
  /\ reqtyp_times \in 0 .. MaCaco_NODES
  /\ roundrob_1 \in Nat /\ lasttyp_addr \in Int

Covered(r) == r \in told \cup passed

\* As long as the record is the asker's, the peer that answered last has told
\* the asker.
AnswersKept == reqtyp_addr = asker /\ (lasttyp_addr # 0 => lasttyp_addr \in told)

\* The round robin and the nodes left add up to the table, and the round robin
\* leaves no peer behind that has neither told the asker nor had its time.
PollOrdered ==
  /\ reqtyp_times \in 1 .. MaCaco_NODES - 1 =>
       /\ roundrob_1 = MaCaco_NODES - reqtyp_times
       /\ \A r \in Peers : r < roundrob_1 => Covered(r)
  /\ reqtyp_times = 0 /\ polled # {} => \A r \in Peers : Covered(r)

PollInv == DiscoveryTypeOK /\ (replaced \/ AnswersKept) /\ (replaced \/ late \/ PollOrdered)

LEMMA PollInitInv ==
  ASSUME DiscoveryInit
  PROVE  PollInv
<1>. USE DiscoveryConstants DEF DiscoveryInit
<1>1. DiscoveryTypeOK
  <2>1. 0 \in 0 .. MaCaco_NODES /\ MaCaco_NODES \in 0 .. MaCaco_NODES
    OBVIOUS
  <2>. QED  BY <2>1 DEF DiscoveryTypeOK
<1>2. AnswersKept /\ PollOrdered
  BY DEF AnswersKept, PollOrdered
<1>. QED  BY <1>1, <1>2 DEF PollInv

\* The entry that is asked: the first one of a new request.
LEMMA CurrentEntry ==
  ASSUME DiscoveryTypeOK
  PROVE  /\ Current \in Nat
         /\ Start => Address(Current) = 1 /\ Current = 1
         /\ Current \in Peers => Address(Current) = Current
         /\ Address(Current) = 0 => Current \notin Peers /\ Current < MaCaco_NODES
  BY DiscoveryConstants DEF DiscoveryTypeOK, Current, Start, Address, Peers

LEMMA ExpirePoll ==
  ASSUME PollInv, reqtyp_times > 0, Expire,
         UNCHANGED <<size, reqtyp_addr, requests, asker, told, replaced>>
  PROVE  PollInv'
<1>. USE DiscoveryConstants
<1>1. DiscoveryTypeOK'
  BY DEF PollInv, DiscoveryTypeOK, Expire
<1>2. replaced' \/ AnswersKept'
  BY DEF PollInv, AnswersKept, Expire
<1>3. replaced' \/ late' \/ PollOrdered'
  <2>1. CASE reqtyp_times = MaCaco_NODES
    BY <2>1 DEF Expire, PollInv, DiscoveryTypeOK
  <2>2. CASE reqtyp_times # MaCaco_NODES /\ PollOrdered
    <3>1. reqtyp_times \in 1 .. MaCaco_NODES - 1
      BY <2>2 DEF PollInv, DiscoveryTypeOK
    <3>2. /\ roundrob_1' = MaCaco_NODES - reqtyp_times'
          /\ reqtyp_times' = reqtyp_times - 1
          /\ Peers' = Peers /\ Peers \subseteq 1 .. MaCaco_NODES - 1
      BY <2>2, <3>1 DEF PollOrdered, Expire, Peers, PollInv, DiscoveryTypeOK
    <3>3. \A r \in Peers' : r < roundrob_1' => Covered(r)'
      BY <2>2, <3>1, <3>2 DEF PollOrdered, Expire, Covered
    <3>. QED  BY <3>1, <3>2, <3>3 DEF PollOrdered
  <2>3. CASE replaced \/ late
    BY <2>3 DEF Expire, PollInv, DiscoveryTypeOK
  <2>. QED  BY <2>1, <2>2, <2>3 DEF PollInv
<1>. QED  BY <1>1, <1>2, <1>3 DEF PollInv

LEMMA MoveOnPoll ==
  ASSUME PollInv, reqtyp_times > 0, MoveOn,
         UNCHANGED <<size, reqtyp_addr, requests, asker, told, replaced, passed, late>>
  PROVE  PollInv'
<1>. USE DiscoveryConstants
<1>1. DiscoveryTypeOK'
  BY DEF PollInv, DiscoveryTypeOK, MoveOn
<1>2. replaced' \/ AnswersKept'
  BY DEF PollInv, AnswersKept, MoveOn
<1>3. ASSUME AnswersKept, PollOrdered  PROVE PollOrdered'
  <2>1. /\ reqtyp_times \in 1 .. MaCaco_NODES - 1
        /\ Current = roundrob_1 /\ Address(Current) = lasttyp_addr /\ lasttyp_addr # 0
    BY DEF PollInv, DiscoveryTypeOK, MoveOn, Answered, Start, Current
  <2>2. /\ roundrob_1' = MaCaco_NODES - reqtyp_times'
        /\ reqtyp_times' = reqtyp_times - 1
        /\ roundrob_1' = roundrob_1 + 1
        /\ Peers' = Peers /\ Peers \subseteq 1 .. MaCaco_NODES - 1
    BY <2>1, <1>3 DEF PollOrdered, MoveOn, Peers, PollInv, DiscoveryTypeOK
  <2>3. roundrob_1 \in Peers => Covered(roundrob_1)
    BY <2>1, <1>3, CurrentEntry DEF AnswersKept, Covered, PollInv
  <2>4. \A r \in Peers' : r < roundrob_1' => Covered(r)'
    BY <2>1, <2>2, <2>3, <1>3 DEF PollOrdered, Covered, PollInv, DiscoveryTypeOK
  <2>. QED  BY <2>1, <2>2, <2>4 DEF PollOrdered
<1>. QED  BY <1>1, <1>2, <1>3 DEF PollInv

LEMMA AskPoll ==
  ASSUME PollInv, reqtyp_times > 0, Ask,
         UNCHANGED <<size, reqtyp_addr, requests, asker, told, replaced, passed, late>>
  PROVE  PollInv'
<1>. USE DiscoveryConstants
<1>0. Current \in Nat /\ (Start => Current = 1) /\ (~ Start => Current = roundrob_1)
  BY CurrentEntry DEF PollInv, Current
<1>1. DiscoveryTypeOK'
  BY <1>0 DEF PollInv, DiscoveryTypeOK, Ask
<1>2. AnswersKept => AnswersKept'
  BY DEF AnswersKept, Ask
<1>3. PollOrdered => PollOrdered'
  BY <1>0 DEF PollInv, DiscoveryTypeOK, PollOrdered, Ask, Start, Peers, Covered
<1>. QED  BY <1>1, <1>2, <1>3 DEF PollInv

LEMMA EndPoll ==
  ASSUME PollInv, reqtyp_times > 0, End,
         UNCHANGED <<size, reqtyp_addr, requests, asker, told, replaced, passed, late>>
  PROVE  PollInv'
<1>. USE DiscoveryConstants
<1>0. ~ Start /\ Current = roundrob_1 /\ roundrob_1 \notin Peers
  BY CurrentEntry DEF PollInv, End, Current
<1>1. DiscoveryTypeOK'
  BY DEF PollInv, DiscoveryTypeOK, End
<1>2. AnswersKept => AnswersKept'
  BY DEF AnswersKept, End
<1>3. ASSUME PollOrdered  PROVE PollOrdered'
  <2>1. reqtyp_times \in 1 .. MaCaco_NODES - 1 /\ roundrob_1 = MaCaco_NODES - reqtyp_times
    BY <1>0, <1>3 DEF PollInv, DiscoveryTypeOK, PollOrdered, Start
  <2>2. \A r \in Peers : r < roundrob_1
    BY <1>0, <2>1 DEF Peers, PollInv, DiscoveryTypeOK
  <2>3. \A r \in Peers' : Covered(r)'
    BY <2>1, <2>2, <1>3 DEF PollOrdered, Peers, Covered, End
  <2>. QED  BY <2>3 DEF PollOrdered, End
<1>. QED  BY <1>1, <1>2, <1>3 DEF PollInv

LEMMA PollNextInv ==
  ASSUME PollInv, [DiscoveryNext]_discoveryVars
  PROVE  PollInv'
<1>. USE DiscoveryConstants
<1>1. ASSUME NEW u \in Interface, TYPREQ_All(u)  PROVE PollInv'
  <2>1. MaCaco_NODES \in 0 .. MaCaco_NODES /\ MaCaco_NODES \notin 1 .. MaCaco_NODES - 1
    OBVIOUS
  <2>. QED  BY <1>1, <2>1 DEF TYPREQ_All, Noted, PollInv, DiscoveryTypeOK, AnswersKept, PollOrdered
<1>2. ASSUME NEW u \in Interface, NEW n \in Peers, TYPREQ_One(u, n)  PROVE PollInv'
  BY <1>2 DEF TYPREQ_One, Noted, PollInv, DiscoveryTypeOK, AnswersKept, PollOrdered, Peers, Covered
<1>3. ASSUME NEW n \in Peers, Answer(n)  PROVE PollInv'
  BY <1>3 DEF Answer, serving, PollInv, DiscoveryTypeOK, AnswersKept, PollOrdered, Peers, Covered
<1>4. ASSUME NEW n \in Peers, RecvTYPANS(n)  PROVE PollInv'
  BY <1>4 DEF RecvTYPANS, PollInv, DiscoveryTypeOK, AnswersKept, PollOrdered, Peers, Covered
<1>5. ASSUME LoseFrame  PROVE PollInv'
  BY <1>5 DEF LoseFrame, serving, PollInv, DiscoveryTypeOK, AnswersKept, PollOrdered, Peers, Covered
<1>6. ASSUME Souliss_GetTypicals  PROVE PollInv'
  BY <1>6, ExpirePoll, MoveOnPoll, AskPoll, EndPoll DEF Souliss_GetTypicals, Step
<1>7. CASE UNCHANGED discoveryVars
  BY <1>7 DEF discoveryVars, PollInv, DiscoveryTypeOK, AnswersKept, PollOrdered, Peers, Covered
<1>. QED  BY <1>1, <1>2, <1>3, <1>4, <1>5, <1>6, <1>7 DEF DiscoveryNext

\* For a table of any size, any timeout and any losses, a poll that ends has
\* left out no peer that answers in time (base/Communication.cpp,
\* Souliss_GetTypicals).
THEOREM NoneForgottenHolds == DiscoverySpec => []NoneForgotten
<1>1. DiscoveryInit => PollInv
  BY PollInitInv
<1>2. PollInv /\ [DiscoveryNext]_discoveryVars => PollInv'
  BY PollNextInv
<1>3. PollInv => NoneForgotten
  BY DEF PollInv, PollOrdered, Covered, NoneForgotten
<1>. QED  BY <1>1, <1>2, <1>3, PTL DEF DiscoverySpec
-----------------------------------------------------------------------------
(* The push buttons.                                                       *)

ButtonsTypeOK ==
  /\ helper \in [Pin -> Helpers]
  /\ InPin \in [Pin -> {"RESET", "SET", "ACTIVE", "RELEASED", "USED"}]
  /\ OutPin \in [Pin -> 0 .. Group]
  /\ elapsed \in 0 .. Wrap - 1
  /\ next \in Nat
  /\ lights \subseteq Light
  /\ lightCmd \in [Light -> {"none", "on", "off"}]
  /\ held \in [Pin -> 0 .. HeldCap] /\ since \in [Pin -> 0 .. HeldCap]
  /\ said \in [Pin -> SUBSET {"value", "value_hold", "step"}]
  /\ stepped \in [Pin -> SUBSET Light]

\* The start time that all buttons share is never earlier than the press of
\* one of them, nor than the last command of one that repeats.
StartsLate(p) ==
  InPin[p] # "RESET" =>
    /\ helper[p] # "DigInFilter" => elapsed <= held[p] \/ held[p] = HeldCap
    /\ helper[p] = "DigKeepHold" => elapsed <= since[p] \/ since[p] = HeldCap

\* What a press has sent, by the state of its pin.
SaidRight(p) ==
  /\ InPin[p] = "SET" => said[p] = {}
  /\ helper[p] = "DigKeepHold" /\ InPin[p] = "ACTIVE" => said[p] \subseteq {"value_hold"}
  /\ helper[p] \notin {"DigInHold", "DigKeepHold"} => "value_hold" \notin said[p]
  /\ ~ {"value", "value_hold"} \subseteq said[p]

\* A released pin has rested since the last round began.
Rested(p) == InPin[p] = "RESET" /\ next <= p => since[p] = 0

\* Where a long press may have switched lights on.
Reach(p) == (IF OnlyButton(p) THEN OutPin[p] + 1 ELSE 1) .. OutPin[p] + held[p] \div Holdtime

\* The lights a long press has switched on are in its reach, and with one
\* button only those that were on before stay on.
StepsRight(p) ==
  helper[p] = "DigInHoldSteps" =>
    /\ InPin[p] \in {"SET", "ACTIVE"} => stepped[p] = {}
    /\ InPin[p] = "USED" => stepped[p] \subseteq Reach(p)
    /\ OnlyButton(p) =>
         /\ InPin[p] = "USED" => 1 .. OutPin[p] \subseteq lights
         /\ InPin[p] # "RESET" \/ next <= p => \A l \in Light : lightCmd[l] # "off"

ButtonInv(p) == StartsLate(p) /\ SaidRight(p) /\ Rested(p) /\ StepsRight(p)

ButtonsInv == ButtonsTypeOK /\ \A p \in Pin : ButtonInv(p)

LEMMA MinPair ==
  ASSUME NEW a \in Int, NEW b \in Int
  PROVE  Min({a, b}) = IF a <= b THEN a ELSE b
<1>. DEFINE m == IF a <= b THEN a ELSE b
<1>1. m \in {a, b} /\ \A y \in {a, b} : m <= y
  OBVIOUS
<1>2. \A x \in {a, b} : (\A y \in {a, b} : x <= y) => x = m
  OBVIOUS
<1>. HIDE DEF m
<1>3. Min({a, b}) = m
  BY <1>1, <1>2 DEF Min
<1>. QED  BY <1>3 DEF m

LEMMA DivMono ==
  ASSUME NEW k \in Nat \ {0}, NEW a \in Nat, NEW b \in Nat, a <= b
  PROVE  /\ a \div k \in Nat /\ a \div k <= b \div k
         /\ \A g \in Nat : g * k <= a => g <= a \div k
<1>1. /\ a % k \in 0 .. k - 1 /\ a \div k \in Int /\ a = (a \div k) * k + (a % k)
      /\ b % k \in 0 .. k - 1 /\ b \div k \in Int /\ b = (b \div k) * k + (b % k)
  BY DivMod
<1>2. ASSUME NEW q \in Int, NEW g \in Int, NEW x \in Int, q < g, x < k, g * k <= q * k + x
      PROVE  FALSE
  <2>1. (g - q - 1) * k >= 0
    BY <1>2
  <2>2. (g - q - 1) * k = g * k - q * k - k
    OBVIOUS
  <2>3. g * k \in Int /\ q * k \in Int
    OBVIOUS
  <2>. QED  BY <2>1, <2>2, <2>3, <1>2
<1>. DEFINE qa == a \div k
            qb == b \div k
            ra == a % k
            rb == b % k
<1>. HIDE DEF qa, qb, ra, rb
<1>3. /\ ra \in 0 .. k - 1 /\ qa \in Int /\ a = qa * k + ra /\ qa * k \in Int
      /\ rb \in 0 .. k - 1 /\ qb \in Int /\ b = qb * k + rb /\ qb * k \in Int
  BY <1>1 DEF qa, qb, ra, rb
<1>4. qa <= qb
  <2>1. qb < qa => qa * k <= qb * k + rb
    BY <1>3
  <2>. QED  BY <2>1, <1>2, <1>3
<1>5. ASSUME NEW g \in Int, g * k <= a  PROVE g <= qa
  <2>1. g * k <= qa * k + ra
    BY <1>3, <1>5
  <2>. QED  BY <2>1, <1>2, <1>3
<1>6. 0 <= qa
  <2>1. 0 * k <= a
    OBVIOUS
  <2>. QED  BY <2>1, <1>5
<1>7. /\ qa \in Nat /\ qa <= qb
      /\ \A g \in Nat : g * k <= a => g <= qa
  BY <1>3, <1>4, <1>5, <1>6
<1>. QED  BY <1>7 DEF qa, qb

LEMMA ModLess ==
  ASSUME NEW k \in Nat \ {0}, NEW a \in Nat
  PROVE  a % k \in 0 .. k - 1 /\ a % k <= a
<1>1. a % k \in 0 .. k - 1
  BY DivMod
<1>2. a < k => a % k = a
  BY ModSmall
<1>. QED  BY <1>1, <1>2

LEMMA WaitedLess ==
  ASSUME ButtonsTypeOK
  PROVE  Waited \in Nat /\ Waited <= elapsed
<1>1. Wrap \in Nat /\ Wrap % 2 = 0
  BY ButtonsConstants
<1>2. Wrap \div 2 \in Int /\ Wrap = (Wrap \div 2) * 2
  BY <1>1, SMT
<1>. QED  BY <1>1, <1>2 DEF ButtonsTypeOK, Waited

LEMMA Caps ==
  /\ {Holdtime, MaxGap, Group, Wrap, HeldCap} \subseteq Nat \ {0}
  /\ Group * Holdtime <= HeldCap /\ Holdtime < HeldCap
  /\ Group <= HeldCap \div Holdtime
  /\ Pin \subseteq Int
<1>1. {Holdtime, MaxGap, Group, Wrap} \subseteq Nat \ {0} /\ Pin \subseteq Int
  BY ButtonsConstants, FS_CardinalityType
<1>2. Group * Holdtime \in Nat /\ Holdtime <= Group * Holdtime
  BY <1>1
<1>3. HeldCap \in Nat \ {0} /\ Group * Holdtime <= HeldCap /\ Holdtime < HeldCap
  BY <1>1, <1>2 DEF HeldCap
<1>. QED  BY <1>1, <1>3, DivMono

\* The lights that are on without a gap from the first.
LEMMA FirstOffRight ==
  ASSUME ButtonsTypeOK
  PROVE  FirstOff \in 0 .. Group /\ 1 .. FirstOff \subseteq lights
<1>. DEFINE S == (Light \ lights) \cup {Group + 1}
<1>1. S \in SUBSET Nat /\ S # {} /\ S \subseteq 1 .. Group + 1 /\ Group \in Nat
  BY Caps DEF Light
<1>2. PICK m \in S : \A n \in S : m <= n
  BY <1>1, LeastElement
<1>3. Min(S) \in S /\ \A n \in S : Min(S) <= n
  BY <1>2 DEF Min
<1>4. FirstOff = Min(S) - 1
  BY DEF FirstOff
<1>. DEFINE f == Min(S)
<1>. HIDE DEF S, f
<1>5. f \in 1 .. Group + 1 /\ \A n \in S : f <= n
  BY <1>1, <1>3 DEF f
<1>6. FirstOff = f - 1
  BY <1>4 DEF f
<1>7. FirstOff \in 0 .. Group
  BY <1>1, <1>5, <1>6
<1>8. ASSUME NEW n \in 1 .. FirstOff  PROVE n \notin S /\ n \in 1 .. Group
  BY <1>1, <1>5, <1>6, <1>7
<1>. QED  BY <1>7, <1>8 DEF S, Light

\* What a call of button p leaves alone.
CallFrame(p) ==
  /\ elapsed' \in {elapsed, 0}
  /\ helper[p] # "DigInHoldSteps" => lightCmd' = lightCmd
  /\ \A q \in Pin \ {p} :
       /\ InPin'[q] = InPin[q] /\ OutPin'[q] = OutPin[q]
       /\ held'[q] = held[q] /\ since'[q] = since[q]
       /\ said'[q] = said[q] /\ stepped'[q] = stepped[q]

\* The sketch comes to button p.
CallOf(p) == next = p /\ next' = p + 1 /\ UNCHANGED <<helper, lights>>

LEMMA OnlyButtonStays ==
  ASSUME helper' = helper, NEW p \in Pin
  PROVE  OnlyButton(p)' <=> OnlyButton(p)
  BY DEF OnlyButton

LEMMA PressStep ==
  ASSUME ButtonsInv, NEW p \in Pin, CallOf(p), Press(p)
  PROVE  ButtonsTypeOK' /\ CallFrame(p) /\ ButtonInv(p)' /\ Honest(p)
<1>. USE Caps
<1>0. ButtonsTypeOK /\ ButtonInv(p) /\ p \in Int
  BY DEF ButtonsInv
<1>1. /\ InPin' = [InPin EXCEPT ![p] = "SET"]
      /\ held' = [held EXCEPT ![p] = 0] /\ since' = [since EXCEPT ![p] = 0]
      /\ said' = [said EXCEPT ![p] = {}] /\ stepped' = [stepped EXCEPT ![p] = {}]
      /\ OutPin' = OutPin /\ lightCmd' = lightCmd /\ helper' = helper /\ lights' = lights
      /\ IF helper[p] = "DigInFilter" THEN elapsed' = elapsed ELSE elapsed' = 0
      /\ next = p /\ next' = p + 1
  BY DEF Press, Pinned, RecordTime, CallOf
<1>2. ButtonsTypeOK' /\ CallFrame(p)
  BY <1>0, <1>1 DEF ButtonsTypeOK, CallFrame
<1>3. /\ InPin'[p] = "SET" /\ held'[p] = 0 /\ since'[p] = 0 /\ said'[p] = {}
      /\ stepped'[p] = {}
  BY <1>0, <1>1 DEF ButtonsTypeOK
<1>4. StartsLate(p)' /\ SaidRight(p)' /\ Rested(p)'
  BY <1>0, <1>1, <1>3 DEF StartsLate, SaidRight, Rested
<1>5. InPin[p] = "RESET" /\ since[p] = 0
  BY <1>0, <1>1 DEF Press, ButtonInv, Rested
<1>6. StepsRight(p)'
  BY <1>0, <1>1, <1>3, OnlyButtonStays DEF ButtonInv, StepsRight
<1>7. Honest(p)
  BY <1>3, <1>5 DEF Honest
<1>. QED  BY <1>2, <1>4, <1>6, <1>7 DEF ButtonInv

LEMMA FilterStep ==
  ASSUME ButtonsInv, NEW p \in Pin, CallOf(p), NEW down \in BOOLEAN, DigInFilter(p, down)
  PROVE  ButtonsTypeOK' /\ CallFrame(p) /\ ButtonInv(p)' /\ Honest(p)
<1>. USE Caps
<1>0. ButtonsTypeOK /\ ButtonInv(p) /\ p \in Int
  BY DEF ButtonsInv
<1>1. /\ OutPin' = OutPin /\ lightCmd' = lightCmd /\ helper' = helper /\ lights' = lights
      /\ elapsed' = elapsed /\ held' = held /\ stepped' = stepped
      /\ next = p /\ next' = p + 1 /\ helper[p] = "DigInFilter"
  BY DEF DigInFilter, CallOf
<1>2. PICK state \in {"RESET", "ACTIVE", "RELEASED", "USED"} : InPin' = [InPin EXCEPT ![p] = state]
  <2>1. CASE UNCHANGED InPin
    <3>1. InPin[p] \in {"RESET", "ACTIVE", "RELEASED", "USED"} \/ InPin[p] = "SET"
      BY <1>0 DEF ButtonsTypeOK
    <3>2. InPin[p] # "SET"
      BY <2>1, <1>0 DEF DigInFilter, Pinned, ButtonsTypeOK
    <3>3. InPin' = [InPin EXCEPT ![p] = InPin[p]]
      BY <2>1, <1>0 DEF ButtonsTypeOK
    <3>. QED  BY <3>1, <3>2, <3>3
  <2>2. CASE ~ UNCHANGED InPin
    BY <2>2 DEF DigInFilter, Pinned
  <2>. QED  BY <2>1, <2>2
<1>3. \/ since' = since /\ said' = said
      \/ /\ since' = [since EXCEPT ![p] = 0] /\ said' = [said EXCEPT ![p] = @ \cup {"value"}]
         /\ said[p] = {}
  BY <1>0 DEF DigInFilter, Silent, Send, ButtonInv, SaidRight
<1>4. ButtonsTypeOK' /\ CallFrame(p)
  BY <1>0, <1>1, <1>2, <1>3 DEF ButtonsTypeOK, CallFrame
<1>5. /\ InPin'[p] # "SET" /\ stepped'[p] = stepped[p]
      /\ said'[p] = said[p] \/ said'[p] = {"value"}
  BY <1>0, <1>1, <1>2, <1>3 DEF ButtonsTypeOK
<1>6. StartsLate(p)' /\ SaidRight(p)' /\ Rested(p)' /\ StepsRight(p)'
  BY <1>0, <1>1, <1>5 DEF ButtonInv, StartsLate, SaidRight, Rested, StepsRight
<1>7. Honest(p)
  BY <1>0, <1>1, <1>5 DEF Honest, ButtonInv, SaidRight
<1>. QED  BY <1>4, <1>6, <1>7 DEF ButtonInv

\* A press that is found long is long, and so is the wait since a command.
LEMMA LongIsLong ==
  ASSUME ButtonsInv, NEW p \in Pin, InPin[p] # "RESET", helper[p] # "DigInFilter",
         Waited > Holdtime
  PROVE  /\ held[p] > Holdtime
         /\ helper[p] = "DigKeepHold" => since[p] > Holdtime
<1>1. /\ elapsed \in Nat /\ Waited \in Nat /\ Waited <= elapsed
      /\ held[p] \in Nat /\ since[p] \in Nat /\ StartsLate(p)
      /\ Holdtime \in Nat /\ HeldCap \in Nat /\ Holdtime < HeldCap
  BY WaitedLess, Caps DEF ButtonsInv, ButtonsTypeOK, ButtonInv
<1>. QED  BY <1>1 DEF StartsLate

LEMMA HoldStep ==
  ASSUME ButtonsInv, NEW p \in Pin, CallOf(p), NEW down \in BOOLEAN, DigInHold(p, down),
         ~ (down /\ InPin[p] = "RESET")
  PROVE  ButtonsTypeOK' /\ CallFrame(p) /\ ButtonInv(p)' /\ Honest(p)
<1>. USE Caps
<1>0. /\ ButtonsTypeOK /\ ButtonInv(p) /\ p \in Int
      /\ held[p] \in Nat /\ since[p] \in Nat /\ elapsed \in Nat
  BY DEF ButtonsInv, ButtonsTypeOK
<1>1. /\ OutPin' = OutPin /\ lightCmd' = lightCmd /\ helper' = helper /\ lights' = lights
      /\ held' = held /\ stepped' = stepped
      /\ next = p /\ next' = p + 1 /\ helper[p] \in {"DigInHold", "DigKeepHold"}
  BY DEF DigInHold, CallOf
<1>2. CASE down /\ IsLong(p)
  <2>1. /\ InPin' = [InPin EXCEPT ![p] = "ACTIVE"]
        /\ since' = [since EXCEPT ![p] = 0]
        /\ said' = [said EXCEPT ![p] = @ \cup {"value_hold"}]
        /\ IF helper[p] = "DigKeepHold" THEN elapsed' = 0 ELSE elapsed' = elapsed
    BY <1>2 DEF DigInHold, Pinned, Send, RecordTime
  <2>2. /\ Waited > Holdtime /\ InPin[p] # "RESET"
        /\ said[p] \subseteq {"value_hold"}
    BY <1>0, <1>2 DEF IsLong, ButtonInv, SaidRight
  <2>3. held[p] > Holdtime /\ (helper[p] = "DigKeepHold" => since[p] > Holdtime)
    BY <2>2, <1>1, LongIsLong
  <2>4. ButtonsTypeOK' /\ CallFrame(p)
    BY <1>0, <1>1, <2>1 DEF ButtonsTypeOK, CallFrame
  <2>5. InPin'[p] = "ACTIVE" /\ since'[p] = 0 /\ said'[p] = {"value_hold"} /\ held'[p] = held[p]
    BY <1>0, <1>1, <2>1, <2>2 DEF ButtonsTypeOK
  <2>6. StartsLate(p)'
    BY <1>0, <1>1, <2>1, <2>2, <2>5 DEF ButtonInv, StartsLate
  <2>7. SaidRight(p)' /\ Rested(p)' /\ StepsRight(p)'
    BY <1>0, <1>1, <2>5 DEF SaidRight, Rested, StepsRight
  <2>8. Honest(p)
    BY <1>1, <2>3, <2>5 DEF Honest
  <2>. QED  BY <2>4, <2>6, <2>7, <2>8 DEF ButtonInv
<1>3. CASE down /\ ~ IsLong(p)
  <2>1. InPin' = InPin /\ since' = since /\ said' = said /\ elapsed' = elapsed
    BY <1>3 DEF DigInHold, Silent
  <2>2. ButtonsTypeOK' /\ CallFrame(p)
    BY <1>0, <1>1, <2>1 DEF ButtonsTypeOK, CallFrame
  <2>3. StartsLate(p)' /\ SaidRight(p)' /\ Rested(p)' /\ StepsRight(p)'
    BY <1>0, <1>1, <2>1 DEF ButtonInv, StartsLate, SaidRight, Rested, StepsRight
  <2>4. Honest(p)
    BY <1>0, <1>1, <2>1 DEF Honest, ButtonInv, SaidRight
  <2>. QED  BY <2>2, <2>3, <2>4 DEF ButtonInv
<1>4. CASE ~ down
  <2>1. InPin' = [InPin EXCEPT ![p] = "RESET"] /\ elapsed' = elapsed
    BY <1>4 DEF DigInHold, Pinned
  <2>2. \/ since' = since /\ said' = said
        \/ /\ since' = [since EXCEPT ![p] = 0] /\ said' = [said EXCEPT ![p] = @ \cup {"value"}]
           /\ said[p] = {}
    BY <1>0, <1>4 DEF DigInHold, Silent, Send, ButtonInv, SaidRight
  <2>3. ButtonsTypeOK' /\ CallFrame(p)
    BY <1>0, <1>1, <2>1, <2>2 DEF ButtonsTypeOK, CallFrame
  <2>4. InPin'[p] = "RESET" /\ (said'[p] = said[p] \/ said'[p] = {"value"}) /\ stepped'[p] = stepped[p]
    BY <1>0, <1>1, <2>1, <2>2 DEF ButtonsTypeOK
  <2>5. StartsLate(p)' /\ SaidRight(p)' /\ Rested(p)' /\ StepsRight(p)'
    BY <1>0, <1>1, <2>4 DEF ButtonInv, StartsLate, SaidRight, Rested, StepsRight
  <2>6. Honest(p)
    BY <1>0, <2>4 DEF Honest, ButtonInv, SaidRight
  <2>. QED  BY <2>3, <2>5, <2>6 DEF ButtonInv
<1>. QED  BY <1>2, <1>3, <1>4

\* The lights whose time has come are in the reach of the press.
LEMMA TurnInReach ==
  ASSUME ButtonsInv, NEW p \in Pin, helper[p] = "DigInHoldSteps", InPin[p] \in {"ACTIVE", "USED"},
         NEW o \in 0 .. Group, NEW l \in Light, l <= o + Waited \div Holdtime
  PROVE  l \in 1 .. o + held[p] \div Holdtime
<1>. USE Caps
<1>1. /\ elapsed \in Nat /\ Waited \in Nat /\ Waited <= elapsed
      /\ held[p] \in Nat /\ (elapsed <= held[p] \/ held[p] = HeldCap)
  BY WaitedLess DEF ButtonsInv, ButtonsTypeOK, ButtonInv, StartsLate
<1>2. held[p] \div Holdtime \in Nat /\ Waited \div Holdtime \in Nat
  BY <1>1, DivMono
<1>3. CASE elapsed <= held[p]
  <2>1. Waited \div Holdtime <= held[p] \div Holdtime
    BY <1>1, <1>3, DivMono, SMTT(30)
  <2>. QED  BY <1>2, <2>1 DEF Light
<1>4. CASE held[p] = HeldCap
  <2>1. Group <= held[p] \div Holdtime
    BY <1>4
  <2>. QED  BY <1>2, <2>1 DEF Light
<1>. QED  BY <1>1, <1>3, <1>4

\* A step of the long press: lights come on, in the reach of the press.
LEMMA LightsStep ==
  ASSUME ButtonsInv, NEW p \in Pin, CallOf(p), helper[p] = "DigInHoldSteps",
         DigInHoldSteps(p, TRUE), InPin[p] \in {"ACTIVE", "USED"}, Waited > Holdtime
  PROVE  ButtonsTypeOK' /\ CallFrame(p) /\ ButtonInv(p)' /\ Honest(p)
<1>. USE Caps
<1>. DEFINE turn == {l \in Light \ lights : l <= Powered(p)}
            o == OutPin'[p]
<1>0. /\ ButtonsTypeOK /\ ButtonInv(p) /\ p \in Int /\ StepsRight(p)
      /\ held[p] \in Nat /\ since[p] \in Nat /\ elapsed \in Nat
  BY DEF ButtonsInv, ButtonsTypeOK, ButtonInv
<1>1. /\ InPin' = [InPin EXCEPT ![p] = "USED"]
      /\ OutPin' = IF InPin[p] = "ACTIVE" THEN [OutPin EXCEPT ![p] = FirstOff] ELSE OutPin
      /\ lightCmd' = [l \in Light |-> IF l \in turn THEN "on" ELSE lightCmd[l]]
      /\ stepped' = [stepped EXCEPT ![p] = @ \cup turn]
      /\ IF turn = {} THEN Silent ELSE Send(p, "step")
      /\ elapsed' = elapsed /\ held' = held
      /\ helper' = helper /\ lights' = lights /\ next = p /\ next' = p + 1
  <2>1. ~ (Waited <= Holdtime)
    BY <1>0, WaitedLess
  <2>. QED  BY <2>1 DEF DigInHoldSteps, Pinned, CallOf
<1>2. o \in 0 .. Group /\ (OnlyButton(p) => 1 .. o \subseteq lights)
      /\ (InPin[p] = "USED" => o = OutPin[p])
  BY <1>0, <1>1, FirstOffRight DEF ButtonsTypeOK, StepsRight
<1>3. \/ since' = since /\ said' = said
      \/ since' = [since EXCEPT ![p] = 0] /\ said' = [said EXCEPT ![p] = @ \cup {"step"}]
  BY <1>1 DEF Silent, Send
<1>4. turn \subseteq Light /\ turn \cap lights = {} /\ \A l \in turn : l <= o + Waited \div Holdtime
  BY DEF Powered
<1>. HIDE DEF turn
<1>5. turn \subseteq (IF OnlyButton(p) THEN o + 1 ELSE 1) .. o + held[p] \div Holdtime
  <2>1. \A l \in turn : l \in 1 .. o + held[p] \div Holdtime
    BY <1>2, <1>4, TurnInReach
  <2>2. ASSUME OnlyButton(p), NEW l \in turn  PROVE l \in o + 1 .. o + held[p] \div Holdtime
    BY <2>1, <2>2, <1>2, <1>4
  <2>. QED  BY <2>1, <2>2
<1>6. stepped[p] \subseteq (IF OnlyButton(p) THEN o + 1 ELSE 1) .. o + held[p] \div Holdtime
  <2>1. CASE InPin[p] = "ACTIVE"
    BY <2>1, <1>0 DEF StepsRight
  <2>2. CASE InPin[p] = "USED"
    BY <2>2, <1>0, <1>2 DEF StepsRight, Reach
  <2>. QED  BY <2>1, <2>2
<1>7. ButtonsTypeOK' /\ CallFrame(p)
  <2>1. OutPin' \in [Pin -> 0 .. Group] /\ \A q \in Pin \ {p} : OutPin'[q] = OutPin[q]
    BY <1>0, <1>1, FirstOffRight DEF ButtonsTypeOK
  <2>. QED  BY <1>0, <1>1, <1>3, <1>4, <2>1 DEF ButtonsTypeOK, CallFrame
<1>8. /\ InPin'[p] = "USED" /\ stepped'[p] = stepped[p] \cup turn /\ held'[p] = held[p]
      /\ said'[p] = said[p] \/ said'[p] = said[p] \cup {"step"}
  BY <1>0, <1>1, <1>3 DEF ButtonsTypeOK
<1>9. stepped'[p] \subseteq Reach(p)' /\ Reach(p)' = (IF OnlyButton(p) THEN o + 1 ELSE 1) .. o + held[p] \div Holdtime
  BY <1>1, <1>5, <1>6, <1>8, OnlyButtonStays DEF Reach
<1>10. StepsRight(p)'
  <2>1. OnlyButton(p) => \A l \in Light : lightCmd'[l] # "off"
    BY <1>0, <1>1 DEF StepsRight
  <2>2. OnlyButton(p)' => 1 .. OutPin'[p] \subseteq lights'
    BY <1>1, <1>2, OnlyButtonStays
  <2>. QED  BY <1>1, <1>8, <1>9, <2>1, <2>2, OnlyButtonStays DEF StepsRight
<1>11. StartsLate(p)' /\ SaidRight(p)' /\ Rested(p)'
  BY <1>0, <1>1, <1>8 DEF ButtonInv, StartsLate, SaidRight, Rested
<1>12. Honest(p)
  BY <1>0, <1>8, <1>9 DEF Honest, ButtonInv, SaidRight
<1>. QED  BY <1>7, <1>10, <1>11, <1>12 DEF ButtonInv

LEMMA StepsStep ==
  ASSUME ButtonsInv, NEW p \in Pin, CallOf(p), NEW down \in BOOLEAN, DigInHoldSteps(p, down),
         ~ (down /\ InPin[p] = "RESET")
  PROVE  ButtonsTypeOK' /\ CallFrame(p) /\ ButtonInv(p)' /\ Honest(p)
<1>. USE Caps
<1>0. /\ ButtonsTypeOK /\ ButtonInv(p) /\ p \in Int
      /\ held[p] \in Nat /\ since[p] \in Nat /\ elapsed \in Nat
  BY DEF ButtonsInv, ButtonsTypeOK
<1>1. /\ elapsed' = elapsed /\ held' = held /\ helper' = helper /\ lights' = lights
      /\ next = p /\ next' = p + 1 /\ helper[p] = "DigInHoldSteps"
  BY DEF DigInHoldSteps, CallOf
<1>2. CASE ~ down
  <2>1. InPin' = [InPin EXCEPT ![p] = "RESET"] /\ OutPin' = OutPin /\ stepped' = stepped
    BY <1>2 DEF DigInHoldSteps, Pinned
  <2>2. \/ since' = since /\ said' = said /\ lightCmd' = lightCmd
        \/ /\ since' = [since EXCEPT ![p] = 0] /\ said' = [said EXCEPT ![p] = @ \cup {"value"}]
           /\ said[p] = {} /\ ShortStep
    BY <1>0, <1>2 DEF DigInHoldSteps, Silent, Send, ButtonInv, SaidRight
  <2>3. lightCmd' \in [Light -> {"none", "on", "off"}]
    BY <1>0, <2>2, SMTT(30) DEF ShortStep, ButtonsTypeOK, Light
  <2>4. ButtonsTypeOK' /\ CallFrame(p)
    BY <1>0, <1>1, <2>1, <2>2, <2>3 DEF ButtonsTypeOK, CallFrame
  <2>5. InPin'[p] = "RESET" /\ (said'[p] = said[p] \/ said'[p] = {"value"}) /\ stepped'[p] = stepped[p]
    BY <1>0, <1>1, <2>1, <2>2 DEF ButtonsTypeOK
  <2>6. StartsLate(p)' /\ SaidRight(p)' /\ Rested(p)' /\ StepsRight(p)'
    BY <1>0, <1>1, <2>5 DEF ButtonInv, StartsLate, SaidRight, Rested, StepsRight
  <2>7. Honest(p)
    BY <1>0, <2>5 DEF Honest, ButtonInv, SaidRight
  <2>. QED  BY <2>4, <2>6, <2>7 DEF ButtonInv
<1>3. CASE down /\ InPin[p] = "SET"
  <2>1. PICK state \in {"SET", "ACTIVE"} : InPin' = [InPin EXCEPT ![p] = state]
    BY <1>3 DEF DigInHoldSteps, Pinned
  <2>2. UNCHANGED <<OutPin, lightCmd, stepped, since, said>> /\ said[p] = {}
    BY <1>0, <1>3 DEF DigInHoldSteps, Silent, ButtonInv, SaidRight
  <2>3. ButtonsTypeOK' /\ CallFrame(p)
    BY <1>0, <1>1, <2>1, <2>2 DEF ButtonsTypeOK, CallFrame
  <2>4. InPin'[p] \in {"SET", "ACTIVE"}
    BY <1>0, <2>1 DEF ButtonsTypeOK
  <2>5. StartsLate(p)' /\ SaidRight(p)' /\ Rested(p)' /\ StepsRight(p)'
    BY <1>0, <1>1, <1>3, <2>2, <2>4, OnlyButtonStays DEF ButtonInv, StartsLate, SaidRight, Rested, StepsRight
  <2>6. Honest(p)
    BY <1>0, <1>1, <2>2 DEF Honest, ButtonInv, SaidRight
  <2>. QED  BY <2>3, <2>5, <2>6 DEF ButtonInv
<1>4. CASE down /\ InPin[p] \in {"ACTIVE", "USED"} /\ Waited > Holdtime
  <2>1. down = TRUE
    BY <1>4
  <2>. QED  BY <1>1, <1>4, <2>1, LightsStep
<1>5. CASE down /\ InPin[p] \in {"ACTIVE", "USED"} /\ ~ (Waited > Holdtime)
  <2>1. UNCHANGED <<InPin, OutPin, lightCmd, stepped, since, said>>
    BY <1>5 DEF DigInHoldSteps, Silent
  <2>2. ButtonsTypeOK' /\ CallFrame(p)
    BY <1>0, <1>1, <2>1 DEF ButtonsTypeOK, CallFrame
  <2>3. StartsLate(p)' /\ SaidRight(p)' /\ Rested(p)' /\ StepsRight(p)'
    BY <1>0, <1>1, <1>5, <2>1, OnlyButtonStays
       DEF ButtonInv, StartsLate, SaidRight, Rested, StepsRight, Reach
  <2>4. Honest(p)
    BY <1>0, <1>1, <2>1 DEF Honest, ButtonInv, SaidRight
  <2>. QED  BY <2>2, <2>3, <2>4 DEF ButtonInv
<1>. QED  BY <1>2, <1>3, <1>4, <1>5 DEF DigInHoldSteps

\* The other buttons, when button p is called: the start time only gets later.
LEMMA OtherStep ==
  ASSUME ButtonsInv, NEW p \in Pin, CallOf(p), CallFrame(p), NEW q \in Pin \ {p}
  PROVE  ButtonInv(q)' /\ Honest(q)
<1>. USE Caps
<1>0. /\ ButtonInv(q) /\ p \in Int /\ q \in Int /\ elapsed \in Nat
      /\ held[q] \in Nat /\ since[q] \in Nat
  BY DEF ButtonsInv, ButtonsTypeOK
<1>1. /\ InPin'[q] = InPin[q] /\ OutPin'[q] = OutPin[q]
      /\ held'[q] = held[q] /\ since'[q] = since[q]
      /\ said'[q] = said[q] /\ stepped'[q] = stepped[q]
      /\ elapsed' \in {elapsed, 0} /\ helper' = helper /\ lights' = lights
      /\ next = p /\ next' = p + 1
  BY DEF CallFrame, CallOf
<1>2. StartsLate(q)' /\ SaidRight(q)' /\ Rested(q)'
  BY <1>0, <1>1 DEF ButtonInv, StartsLate, SaidRight, Rested
<1>3. OnlyButton(q) => helper[p] # "DigInHoldSteps"
  BY DEF OnlyButton
<1>4. OnlyButton(q) => lightCmd' = lightCmd
  BY <1>3 DEF CallFrame
<1>5. StepsRight(q)'
  BY <1>0, <1>1, <1>4, OnlyButtonStays DEF ButtonInv, StepsRight, Reach
<1>6. Honest(q)
  BY <1>0, <1>1 DEF Honest, ButtonInv, SaidRight
<1>. QED  BY <1>2, <1>5, <1>6 DEF ButtonInv

LEMMA CallInv ==
  ASSUME ButtonsInv, NEW p \in Pin, Call(p)
  PROVE  ButtonsInv' /\ \A q \in Pin : Honest(q)
<1>1. CallOf(p)
  BY DEF Call, CallOf
<1>2. ButtonsTypeOK' /\ CallFrame(p) /\ ButtonInv(p)' /\ Honest(p)
  BY <1>1, PressStep, FilterStep, HoldStep, StepsStep DEF Call
<1>3. \A q \in Pin \ {p} : ButtonInv(q)' /\ Honest(q)
  BY <1>1, <1>2, OtherStep
<1>. QED  BY <1>2, <1>3 DEF ButtonsInv

LEMMA RoundInv ==
  ASSUME ButtonsInv, Round
  PROVE  ButtonsInv' /\ \A q \in Pin : Honest(q)
<1>. USE Caps
<1>0. ButtonsTypeOK
  BY DEF ButtonsInv
<1>1. PICK ms \in 1 .. MaxGap :
       /\ elapsed' = (elapsed + ms) % Wrap
       /\ held' = [p \in Pin |-> IF InPin[p] = "RESET" THEN 0 ELSE Min({held[p] + ms, HeldCap})]
       /\ since' = [p \in Pin |-> IF InPin[p] = "RESET" THEN 0 ELSE Min({since[p] + ms, HeldCap})]
  BY DEF Round
<1>2. /\ UNCHANGED <<helper, InPin, OutPin, said, stepped>> /\ next' = 1
      /\ lights' = {l \in Light : lightCmd[l] = "on" \/ (lightCmd[l] = "none" /\ l \in lights)}
      /\ lightCmd' = [l \in Light |-> "none"]
  BY DEF Round
<1>3. elapsed + ms \in Nat /\ elapsed' \in 0 .. Wrap - 1 /\ elapsed' <= elapsed + ms
  <2>1. elapsed + ms \in Nat /\ Wrap \in Nat \ {0}
    BY <1>0 DEF ButtonsTypeOK
  <2>. QED  BY <1>1, <2>1, ModLess
<1>4. ASSUME NEW p \in Pin
      PROVE  /\ held[p] \in 0 .. HeldCap /\ since[p] \in 0 .. HeldCap
             /\ held'[p] \in 0 .. HeldCap /\ since'[p] \in 0 .. HeldCap
             /\ InPin[p] = "RESET" => since'[p] = 0
             /\ InPin[p] # "RESET" => /\ held'[p] = held[p] + ms \/ held'[p] = HeldCap
                                      /\ since'[p] = since[p] + ms \/ since'[p] = HeldCap
                                      /\ held[p] = HeldCap => held'[p] = HeldCap
                                      /\ since[p] = HeldCap => since'[p] = HeldCap
                                      /\ held'[p] >= held[p] /\ since'[p] >= since[p]
  <2>1. held[p] \in 0 .. HeldCap /\ since[p] \in 0 .. HeldCap /\ HeldCap \in Int
    BY <1>0 DEF ButtonsTypeOK
  <2>2. /\ Min({held[p] + ms, HeldCap}) = IF held[p] + ms <= HeldCap THEN held[p] + ms ELSE HeldCap
        /\ Min({since[p] + ms, HeldCap}) = IF since[p] + ms <= HeldCap THEN since[p] + ms ELSE HeldCap
    BY <2>1, MinPair
  <2>. QED  BY <1>1, <2>1, <2>2
<1>5. ButtonsTypeOK'
  <2>1. held' \in [Pin -> 0 .. HeldCap] /\ since' \in [Pin -> 0 .. HeldCap]
    BY <1>1, <1>4
  <2>. QED  BY <1>0, <1>2, <1>3, <2>1 DEF ButtonsTypeOK
<1>6. ASSUME NEW p \in Pin  PROVE ButtonInv(p)' /\ Honest(p)
  <2>0. ButtonInv(p) /\ elapsed \in Nat
    BY <1>0 DEF ButtonsInv, ButtonsTypeOK
  <2>1. StartsLate(p)'
    BY <1>2, <1>3, <1>4, <2>0 DEF ButtonInv, StartsLate
  <2>2. SaidRight(p)' /\ Rested(p)'
    BY <1>2, <1>4, <2>0 DEF ButtonInv, SaidRight, Rested
  <2>3. ASSUME InPin[p] = "USED"  PROVE Reach(p) \subseteq Reach(p)'
    <3>. DEFINE a == held[p]
                b == held'[p]
                lo == IF OnlyButton(p) THEN OutPin[p] + 1 ELSE 1
    <3>1. a \in Nat /\ b \in Nat /\ a <= b /\ b <= b /\ Holdtime \in Nat \ {0}
      BY <1>4, <2>3
    <3>a. OutPin[p] \in 0 .. Group
      BY <1>0 DEF ButtonsTypeOK
    <3>2. OutPin[p] \in Nat /\ OutPin' = OutPin
      BY <3>a, <1>2
    <3>3. /\ Reach(p) = lo .. OutPin[p] + a \div Holdtime
          /\ Reach(p)' = lo .. OutPin[p] + b \div Holdtime
      BY <3>2, <1>2, OnlyButtonStays DEF Reach
    <3>. HIDE DEF a, b
    <3>4. /\ a \div Holdtime \in Nat /\ b \div Holdtime \in Nat
          /\ a \div Holdtime <= b \div Holdtime
      BY <3>1, DivMono
    <3>5. lo \in Nat
      BY <3>2
    <3>. QED  BY <3>2, <3>3, <3>4, <3>5
  <2>4. ASSUME OnlyButton(p), InPin[p] = "USED", helper[p] = "DigInHoldSteps"
        PROVE  1 .. OutPin[p] \subseteq lights'
    <3>1. 1 .. OutPin[p] \subseteq lights /\ lights \subseteq Light /\ \A l \in Light : lightCmd[l] # "off"
      BY <2>4, <2>0, <1>0 DEF ButtonInv, StepsRight, ButtonsTypeOK
    <3>2. \A l \in Light : lightCmd[l] \in {"none", "on"}
      BY <3>1, <1>0 DEF ButtonsTypeOK
    <3>. QED  BY <3>1, <3>2, <1>2
  <2>5. StepsRight(p)'
    <3>1. \A l \in Light : lightCmd'[l] # "off"
      BY <1>2
    <3>. QED  BY <1>2, <2>0, <2>3, <2>4, <3>1, OnlyButtonStays DEF ButtonInv, StepsRight
  <2>6. Honest(p)
    BY <1>2, <1>4, <2>0 DEF Honest, ButtonInv, SaidRight
  <2>. QED  BY <2>1, <2>2, <2>5, <2>6 DEF ButtonInv
<1>. QED  BY <1>5, <1>6 DEF ButtonsInv

LEMMA ButtonsInitInv ==
  ASSUME ButtonsInit
  PROVE  ButtonsInv
<1>. USE Caps DEF ButtonsInit
<1>1. ButtonsTypeOK
  BY DEF ButtonsTypeOK
<1>2. ASSUME NEW p \in Pin  PROVE ButtonInv(p)
  BY DEF ButtonInv, StartsLate, SaidRight, Rested, StepsRight
<1>. QED  BY <1>1, <1>2 DEF ButtonsInv

LEMMA ButtonsNextInv ==
  ASSUME ButtonsInv, [ButtonsNext]_buttonVars
  PROVE  ButtonsInv' /\ [\A p \in Pin : Honest(p)]_buttonVars
<1>1. CASE UNCHANGED buttonVars
  BY <1>1 DEF buttonVars, ButtonsInv, ButtonsTypeOK, ButtonInv, StartsLate, SaidRight, Rested,
              StepsRight, OnlyButton, Reach
<1>2. CASE ButtonsNext
  BY <1>2, RoundInv, CallInv DEF ButtonsNext
<1>. QED  BY <1>1, <1>2

\* For any number of pins that share one start time, with any helpers on them,
\* and across the wrap of millis(), no press is taken for a long one, no
\* command is repeated and no light of a group comes on before its time
\* (base/LocalIO.cpp).
THEOREM NothingEarlyHolds == ButtonsSpec => NothingEarly
<1>1. ButtonsInit => ButtonsInv
  BY ButtonsInitInv
<1>2. ButtonsInv /\ [ButtonsNext]_buttonVars => ButtonsInv'
  BY ButtonsNextInv
<1>3. ButtonsInv /\ [ButtonsNext]_buttonVars => [\A p \in Pin : Honest(p)]_buttonVars
  BY ButtonsNextInv
<1>. QED  BY <1>1, <1>2, <1>3, PTL DEF ButtonsSpec, NothingEarly
=============================================================================
