-------------------------- MODULE SubscrTableProofs --------------------------
(* Proofs for a table of any size with any requesters, behind IP or not,   *)
(* and any number of deletions.  What the columns say together holds until *)
(* a deletion moves one of them; what a round owes, always.                *)
EXTENDS SubscrTable, TLAPS

\* The free entries are the last ones.
FreeLast ==
  \A e, f \in TableEntry : e < f /\ Addr(e) = FreeAddr => Addr(f) = FreeAddr

Known == \A e \in TableEntry : Addr(e) = FreeAddr \/ Addr(e) \in Requester

\* Before the first deletion the table is filled from its start.
Filled == deletions = 0 => Known /\ FreeLast

\* But for those right behind a deleted entry, a round owes only to the
\* entries it has not reached.
OwedAhead ==
  \A a \in owed \ passed : \E e \in TableEntry : e >= i /\ Addr(e) = a

IInv == TableTypeOK /\ Filled /\ OneEntryEach /\ KindMatches /\ OwedAhead
-----------------------------------------------------------------------------
LEMMA Bytes ==
  ASSUME NEW e \in TableEntry
  PROVE  2 * e \in Byte /\ 2 * e + 1 \in Byte
  BY SubscrTableConstants DEF TableEntry, Byte

\* Storing in entry e changes that entry and the record of what a asked.
LEMMA Stored ==
  ASSUME TableTypeOK, NEW e \in TableEntry, NEW a \in Requester, NEW f \in Funcode, Store(e, a, f)
  PROVE  /\ Addr(e)' = a
         /\ \A g \in TableEntry \ {e} : Addr(g)' = Addr(g)
         /\ subscr_addr' \in [Byte -> Nat]
         /\ subscr_funcode' = [subscr_funcode EXCEPT ![e] = f]
         /\ asked' = [asked EXCEPT ![a] = f]
<1>1. a[1] \in Nat /\ a[2] \in Nat /\ a = <<a[1], a[2]>>
  BY SubscrTableConstants
<1>2. subscr_addr \in [Byte -> Nat]
  BY DEF TableTypeOK
<1>3. subscr_addr' = [subscr_addr EXCEPT ![2 * e] = a[1], ![2 * e + 1] = a[2]]
  BY DEF Store
<1>4. 2 * e \in Byte /\ 2 * e + 1 \in Byte /\ 2 * e # 2 * e + 1
  BY Bytes DEF Byte
<1>5. Addr(e)' = a
  BY <1>1, <1>2, <1>3, <1>4 DEF Addr
<1>6. ASSUME NEW g \in TableEntry \ {e} PROVE Addr(g)' = Addr(g)
  <2>1. /\ 2 * g # 2 * e /\ 2 * g # 2 * e + 1
        /\ 2 * g + 1 # 2 * e /\ 2 * g + 1 # 2 * e + 1
    BY SubscrTableConstants DEF TableEntry
  <2>2. 2 * g \in Byte /\ 2 * g + 1 \in Byte
    BY Bytes
  <2>. QED  BY <1>2, <1>3, <1>4, <2>1, <2>2 DEF Addr
<1>7. subscr_addr' \in [Byte -> Nat]
  BY <1>1, <1>2, <1>3, <1>4
<1>. QED  BY <1>5, <1>6, <1>7 DEF Store

\* The place of a requester: no other entry is its own, and no entry before
\* it is free.
Place(e, a) ==
  /\ \A g \in TableEntry \ {e} : Addr(g) # a
  /\ \A g \in TableEntry : g < e => Addr(g) # FreeAddr

LEMMA Found_Place ==
  ASSUME IInv, deletions = 0, NEW e \in TableEntry, NEW a \in Requester, Found(e, a)
  PROVE  Place(e, a)
<1>0. a # FreeAddr
  BY SubscrTableConstants
<1>1. \A g \in TableEntry : g < e => Addr(g) # a /\ Addr(g) # FreeAddr
  BY SubscrTableConstants DEF Found, Stops, TableEntry
<1>2. \A g \in TableEntry : g > e => Addr(g) # a
  <2>1. CASE Addr(e) = a
    BY <2>1, <1>0 DEF IInv, OneEntryEach, TableEntry
  <2>2. CASE Addr(e) = FreeAddr
    BY <2>2, <1>0 DEF IInv, Filled, FreeLast
  <2>. QED  BY <2>1, <2>2 DEF Found, Stops
<1>3. \A g \in TableEntry \ {e} : g < e \/ g > e
  BY SubscrTableConstants DEF TableEntry
<1>. QED  BY <1>1, <1>2, <1>3 DEF Place

LEMMA Full_Place ==
  ASSUME NEW e \in TableEntry, NEW a \in Requester, TableFull(a)
  PROVE  Place(e, a)
  BY DEF TableFull, Stops, Place

LEMMA Store_Keeps ==
  ASSUME IInv, NoRound, NEW e \in TableEntry, NEW a \in Requester, NEW f \in Funcode,
         deletions = 0 => Place(e, a), Store(e, a, f),
         subscr_lastindex' \in 0 .. MAXBYTE, UNCHANGED <<i, owed, passed, deletions>>
  PROVE  IInv'
<1>0. TableTypeOK /\ a # FreeAddr
  BY SubscrTableConstants DEF IInv
<1>1. /\ Addr(e)' = a
      /\ \A g \in TableEntry \ {e} : Addr(g)' = Addr(g)
      /\ subscr_addr' \in [Byte -> Nat]
      /\ subscr_funcode' = [subscr_funcode EXCEPT ![e] = f]
      /\ asked' = [asked EXCEPT ![a] = f]
  BY <1>0, Stored
<1>2. TableTypeOK'
  BY <1>0, <1>1 DEF TableTypeOK
<1>3. ASSUME deletions = 0
      PROVE  Known' /\ FreeLast' /\ OneEntryEach' /\ KindMatches'
  <2>. USE <1>3
  <2>1. Place(e, a) /\ Known /\ FreeLast
    BY DEF IInv, Filled
  <2>2. Known'
    BY <1>1, <2>1 DEF Known
  <2>3. OneEntryEach'
    BY <1>1, <2>1 DEF IInv, OneEntryEach, Place
  <2>4. FreeLast'
    <3>1. SUFFICES ASSUME NEW g \in TableEntry, NEW h \in TableEntry, g < h, Addr(g)' = FreeAddr
                   PROVE  Addr(h)' = FreeAddr
      BY DEF FreeLast
    <3>2. g # e /\ Addr(g) = FreeAddr
      BY <3>1, <1>0, <1>1
    <3>3. g > e
      BY <2>1, <3>2, SubscrTableConstants DEF Place, TableEntry
    <3>4. h # e
      BY <3>1, <3>3, SubscrTableConstants DEF TableEntry
    <3>. QED  BY <2>1, <3>1, <3>2, <3>4, <1>1 DEF FreeLast
  <2>5. KindMatches'
    <3>1. SUFFICES ASSUME NEW g \in TableEntry, Addr(g)' \in Requester
                   PROVE  subscr_funcode'[g] = asked'[Addr(g)']
      BY DEF KindMatches
    <3>2. subscr_funcode \in [TableEntry -> Funcode \cup {None}] /\ asked \in [Requester -> Funcode \cup {None}]
      BY <1>0 DEF TableTypeOK
    <3>3. CASE g = e
      BY <3>2, <3>3, <1>1
    <3>4. CASE g # e
      <4>1. Addr(g)' = Addr(g) /\ Addr(g) # a
        BY <2>1, <3>4, <1>1 DEF Place
      <4>2. subscr_funcode[g] = asked[Addr(g)]
        BY <3>1, <4>1 DEF IInv, KindMatches
      <4>. QED  BY <3>1, <3>2, <3>4, <4>1, <4>2, <1>1
    <3>. QED  BY <3>3, <3>4
  <2>. QED  BY <2>2, <2>3, <2>4, <2>5
<1>4. deletions' = deletions /\ deletions \in Nat
  BY <1>0, SubscrTableConstants DEF TableTypeOK
<1>5. Filled' /\ OneEntryEach' /\ KindMatches'
  <2>1. CASE deletions = 0
    BY <1>3, <2>1 DEF Filled
  <2>2. CASE deletions > 0
    BY <1>4, <2>2 DEF Filled, OneEntryEach, KindMatches
  <2>. QED  BY <1>4, <2>1, <2>2
<1>6. OwedAhead'
  <2>1. \A g \in TableEntry : ~ g >= i
    BY SubscrTableConstants DEF NoRound, TableEntry
  <2>2. owed \ passed = {} /\ owed' = owed /\ passed' = passed
    BY <2>1 DEF IInv, OwedAhead
  <2>. QED  BY <2>2 DEF OwedAhead
<1>. QED  BY <1>2, <1>5, <1>6 DEF IInv
-----------------------------------------------------------------------------
LEMMA IInv_Init == TableInit => IInv
<1>. SUFFICES ASSUME TableInit PROVE IInv
  OBVIOUS
<1>1. \A e \in TableEntry : Addr(e) = FreeAddr
  BY Bytes DEF TableInit, Addr, FreeAddr
<1>2. TableTypeOK
  BY SubscrTableConstants DEF TableInit, TableTypeOK
<1>. QED  BY <1>1, <1>2, SubscrTableConstants
          DEF TableInit, IInv, Filled, Known, OneEntryEach, FreeLast, KindMatches, OwedAhead

LEMMA IInv_Request ==
  ASSUME IInv, NEW a \in Requester, NEW f \in Funcode, Requested(a, f)
  PROVE  IInv'
<1>0. subscr_lastindex \in 0 .. MAXBYTE /\ NextIndex \in 0 .. MAXBYTE /\ NoRound
      /\ UNCHANGED <<i, owed, passed, deletions>>
  <2>1. subscr_lastindex \in 0 .. MAXBYTE
    BY DEF IInv, TableTypeOK
  <2>2. MAXBYTE \in Nat
    BY SubscrTableConstants
  <2>. QED  BY <2>1, <2>2 DEF NextIndex, Requested
<1>1. CASE \E e \in TableEntry : Found(e, a) /\ Store(e, a, f) /\ UNCHANGED subscr_lastindex
  BY <1>0, <1>1, Found_Place, Store_Keeps
<1>2. CASE TableFull(a) /\ subscr_lastindex' = NextIndex /\ subscr_lastindex \in TableEntry
           /\ Store(subscr_lastindex, a, f)
  BY <1>0, <1>2, Full_Place, Store_Keeps
<1>3. CASE subscr_lastindex' = NextIndex /\ UNCHANGED <<subscr_addr, subscr_funcode, asked>>
  BY <1>0, <1>3 DEF IInv, TableTypeOK, Filled, Known, OneEntryEach, FreeLast, KindMatches, OwedAhead, Addr
<1>. QED  BY <1>1, <1>2, <1>3 DEF Requested

LEMMA IInv_Record ==
  ASSUME IInv, NEW a \in Requester, NEW f \in Funcode, MaCaco_subscribe_record(a, f)
  PROVE  IInv'
<1>1. PICK e \in TableEntry : Found(e, a) /\ Store(e, a, f)
  BY DEF MaCaco_subscribe_record
<1>2. NoRound /\ UNCHANGED <<subscr_lastindex, i, owed, passed, deletions>>
  BY DEF MaCaco_subscribe_record
<1>3. subscr_lastindex' \in 0 .. MAXBYTE
  BY <1>2 DEF IInv, TableTypeOK
<1>. QED  BY <1>1, <1>2, <1>3, Found_Place, Store_Keeps

LEMMA IInv_StartRound == ASSUME IInv, StartRound PROVE IInv'
<1>1. /\ i' = 0 /\ owed' = Recorded /\ passed' = {}
      /\ UNCHANGED <<subscr_addr, subscr_funcode, subscr_lastindex, asked, deletions>>
  BY DEF StartRound
<1>2. OwedAhead'
  BY <1>1, SubscrTableConstants DEF OwedAhead, Recorded, TableEntry, Addr
<1>3. Filled' /\ OneEntryEach' /\ KindMatches'
  BY <1>1 DEF IInv, Filled, Known, OneEntryEach, FreeLast, KindMatches, Addr
<1>4. TableTypeOK'
  BY <1>1, SubscrTableConstants DEF IInv, TableTypeOK
<1>. QED  BY <1>2, <1>3, <1>4 DEF IInv

\* A deletion leaves bytes; and an entry behind the next one has moved up
\* whole, or its own place has not been written at all.
LEMMA Moves ==
  ASSUME TableTypeOK, i \in TableEntry, i + 1 \in TableEntry, subscr_addr' = Deleted
  PROVE  /\ subscr_addr' \in [Byte -> Nat]
         /\ \A e \in TableEntry : e > i + 1 => Addr(e - 1)' = Addr(e) \/ Addr(e)' = Addr(e)
<1>. DEFINE N == MaCaco_INMAXSUBSCR
<1>0. N \in Nat /\ i \in Nat /\ i + 1 < N /\ subscr_addr \in [Byte -> Nat]
  BY SubscrTableConstants DEF TableTypeOK, TableEntry
<1>1. \A b \in Byte : b \in 2 * i .. 2 * i + N - i - 2 => b + 2 \in Byte
  BY <1>0 DEF Byte
<1>2. subscr_addr' \in [Byte -> Nat]
  BY <1>0, <1>1 DEF Deleted
<1>3. ASSUME NEW e \in TableEntry, e > i + 1
      PROVE  Addr(e - 1)' = Addr(e) \/ Addr(e)' = Addr(e)
  <2>0. e \in Nat /\ e < N
    BY <1>0 DEF TableEntry
  <2>1. CASE 2 * e - 1 <= 2 * i + N - i - 2
    <3>1. /\ 2 * (e - 1) \in Byte /\ 2 * (e - 1) \in 2 * i .. 2 * i + N - i - 2
          /\ 2 * (e - 1) + 1 \in Byte /\ 2 * (e - 1) + 1 \in 2 * i .. 2 * i + N - i - 2
      BY <1>0, <1>3, <2>0, <2>1 DEF Byte
    <3>2. 2 * (e - 1) + 2 = 2 * e /\ 2 * (e - 1) + 1 + 2 = 2 * e + 1
      BY <2>0
    <3>3. subscr_addr'[2 * (e - 1)] = subscr_addr[2 * (e - 1) + 2]
      BY <3>1 DEF Deleted
    <3>4. subscr_addr'[2 * (e - 1) + 1] = subscr_addr[2 * (e - 1) + 1 + 2]
      BY <3>1 DEF Deleted
    <3>. QED  BY <3>2, <3>3, <3>4 DEF Addr
  <2>2. CASE ~ 2 * e - 1 <= 2 * i + N - i - 2
    <3>1. /\ 2 * e \in Byte /\ 2 * e \notin 2 * i .. 2 * i + N - i - 2
          /\ 2 * e + 1 \in Byte /\ 2 * e + 1 \notin 2 * i .. 2 * i + N - i - 2
      BY <1>0, <2>0, <2>2 DEF Byte
    <3>2. subscr_addr'[2 * e] = subscr_addr[2 * e] /\ subscr_addr'[2 * e + 1] = subscr_addr[2 * e + 1]
      BY <3>1 DEF Deleted
    <3>. QED  BY <3>2 DEF Addr
  <2>. QED  BY <2>1, <2>2
<1>. QED  BY <1>2, <1>3

LEMMA IInv_Visit ==
  ASSUME IInv, NEW ok \in BOOLEAN, VisitEntry(ok)
  PROVE  IInv'
<1>1. /\ i # MaCaco_INMAXSUBSCR /\ i' = i + 1 /\ owed' = owed \ {Addr(i)}
      /\ UNCHANGED <<subscr_funcode, subscr_lastindex, asked>>
  BY DEF VisitEntry, AfterFailure, NoRound
<1>2. TableTypeOK /\ i \in TableEntry /\ i' \in 0 .. MaCaco_INMAXSUBSCR
  BY <1>1, SubscrTableConstants DEF IInv, TableTypeOK, TableEntry
<1>3. CASE Deletes(ok)
  <2>1. /\ subscr_addr' = Deleted /\ passed' = passed \cup {Addr(i + 1)}
        /\ deletions' = deletions + 1 /\ deletions < MaxDeletions /\ i + 1 \in TableEntry
    BY <1>3 DEF VisitEntry, Deletes
  <2>2. /\ subscr_addr' \in [Byte -> Nat]
        /\ \A e \in TableEntry : e > i + 1 => Addr(e - 1)' = Addr(e) \/ Addr(e)' = Addr(e)
    BY <1>2, <2>1, Moves
  <2>3. deletions' \in 0 .. MaxDeletions /\ deletions' > 0
    BY <1>2, <2>1, SubscrTableConstants DEF TableTypeOK
  <2>4. TableTypeOK'
    BY <1>1, <1>2, <2>2, <2>3 DEF TableTypeOK
  <2>5. OwedAhead'
    <3>1. SUFFICES ASSUME NEW a \in owed' \ passed'
                   PROVE  \E e \in TableEntry : e >= i' /\ Addr(e)' = a
      BY DEF OwedAhead
    <3>2. a \in owed \ passed /\ a # Addr(i) /\ a # Addr(i + 1)
      BY <1>1, <2>1, <3>1
    <3>3. PICK e \in TableEntry : e >= i /\ Addr(e) = a
      BY <3>2 DEF IInv, OwedAhead
    <3>4. e > i + 1
      BY <1>2, <3>2, <3>3, SubscrTableConstants DEF TableEntry
    <3>5. e - 1 \in TableEntry /\ e - 1 >= i' /\ e >= i'
      BY <1>1, <1>2, <3>4, SubscrTableConstants DEF TableEntry
    <3>. QED  BY <2>2, <3>3, <3>4, <3>5
  <2>6. Filled' /\ OneEntryEach' /\ KindMatches'
    BY <2>3 DEF Filled, OneEntryEach, KindMatches
  <2>. QED  BY <2>4, <2>5, <2>6 DEF IInv
<1>4. CASE ~ Deletes(ok)
  <2>1. UNCHANGED <<subscr_addr, passed, deletions>>
    BY <1>4 DEF VisitEntry
  <2>2. OwedAhead'
    <3>1. SUFFICES ASSUME NEW a \in owed' \ passed'
                   PROVE  \E e \in TableEntry : e >= i' /\ Addr(e)' = a
      BY DEF OwedAhead
    <3>2. a \in owed \ passed /\ a # Addr(i)
      BY <1>1, <2>1, <3>1
    <3>3. PICK e \in TableEntry : e >= i /\ Addr(e) = a
      BY <3>2 DEF IInv, OwedAhead
    <3>4. e >= i' /\ Addr(e)' = Addr(e)
      BY <1>1, <1>2, <2>1, <3>2, <3>3, SubscrTableConstants DEF TableEntry, Addr
    <3>. QED  BY <3>3, <3>4
  <2>3. TableTypeOK'
    BY <1>1, <1>2, <2>1 DEF TableTypeOK
  <2>4. Filled' /\ OneEntryEach' /\ KindMatches'
    BY <1>1, <2>1 DEF IInv, Filled, Known, OneEntryEach, FreeLast, KindMatches, Addr
  <2>. QED  BY <2>2, <2>3, <2>4 DEF IInv
<1>. QED  BY <1>3, <1>4

LEMMA IInv_Next == IInv /\ [TableNext]_tableVars => IInv'
<1>. SUFFICES ASSUME IInv, [TableNext]_tableVars PROVE IInv'
  OBVIOUS
<1>1. CASE UNCHANGED tableVars
  BY <1>1 DEF tableVars, IInv, TableTypeOK, Filled, Known, OneEntryEach, FreeLast, KindMatches, OwedAhead, Addr
<1>. QED  BY <1>1, IInv_Request, IInv_Record, IInv_StartRound, IInv_Visit DEF TableNext

LEMMA IInv_Always == TableSpec => []IInv
  BY IInv_Init, IInv_Next, PTL DEF TableSpec
-----------------------------------------------------------------------------
\* The arrays keep their types and subscr_lastindex its byte, deletions or not.
THEOREM TypeCorrect == TableSpec => []TableTypeOK
  BY IInv_Always, PTL DEF IInv

\* Whatever is asked, repeated and overwritten, nobody has two entries
\* before the first deletion.
THEOREM OneEntryEachHolds == TableSpec => []OneEntryEach
  BY IInv_Always, PTL DEF IInv

\* The kind of frame of an entry is the one its subscriber last asked for,
\* until a deletion moves the addresses.
THEOREM KindMatchesHolds == TableSpec => []KindMatches
  BY IInv_Always, PTL DEF IInv

\* A round that ends has tried everybody it started with but for those right
\* behind an entry it deleted, whatever earlier deletions made of the table.
THEOREM OnlyNextMissedHolds == TableSpec => []OnlyNextMissed
<1>1. IInv => OnlyNextMissed
  <2>1. SUFFICES ASSUME IInv, NoRound, NEW a \in owed, a \notin passed
                 PROVE  FALSE
    BY DEF OnlyNextMissed
  <2>2. PICK e \in TableEntry : e >= i
    BY <2>1 DEF IInv, OwedAhead
  <2>. QED  BY <2>1, <2>2, SubscrTableConstants DEF NoRound, TableEntry
<1>. QED  BY <1>1, IInv_Always, PTL
=============================================================================
