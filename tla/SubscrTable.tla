---------------------------- MODULE SubscrTable ----------------------------
(***************************************************************************)
(* The table of incoming subscriptions of a node (frame/MaCaco/MaCaco.cpp):*)
(* who gets the outputs when they change, and in which frame.              *)
(*                                                                         *)
(* The table is a set of parallel arrays; subscr_addr holds two bytes per  *)
(* entry.  A subscriber behind IP whose frames cannot be sent is deleted   *)
(* by a memmove of subscr_addr alone, whose length counts bytes and not    *)
(* entries.  A round over the table is one call; here it takes one step    *)
(* per entry and nothing else happens in between.                          *)
(***************************************************************************)
EXTENDS Integers, FiniteSets

CONSTANTS
  MaCaco_INMAXSUBSCR,  \* entries                                (code: 10)
  Requester,           \* addresses of the nodes that ask, pairs <<lo, hi>>
  MAXBYTE,             \* largest value of subscr_lastindex      (code: 255)
  MaxDeletions         \* bound: deletions that are considered

Funcode == {"SUBSCRREQ", "STATEREQ"}
None == "none"
FreeAddr == <<0, 0>>

ASSUME SubscrTableConstants ==
  /\ MaCaco_INMAXSUBSCR \in Nat /\ MaCaco_INMAXSUBSCR > 0
  /\ MaxDeletions \in Nat
  /\ MAXBYTE \in Nat /\ MAXBYTE >= MaCaco_INMAXSUBSCR
  /\ Requester \subseteq Nat \X Nat /\ FreeAddr \notin Requester

TableEntry == 0 .. MaCaco_INMAXSUBSCR - 1
Byte == 0 .. 2 * MaCaco_INMAXSUBSCR - 1

VARIABLES
  subscr_addr,       \* the bytes of the array, two per entry
  subscr_funcode,    \* what kind of request each entry records
  subscr_lastindex,  \* next entry to overwrite when the table is full
  i,                 \* entry the round is at, MaCaco_INMAXSUBSCR when idle
  asked,             \* history: kind of the last request of each requester
  owed,              \* history: subscribers the round has yet to try
  passed,            \* history: in this round, those right behind a deleted entry
  deletions          \* history: how often a deletion has moved bytes of the table

tableVars ==
  <<subscr_addr, subscr_funcode, subscr_lastindex, i, asked, owed, passed, deletions>>

Addr(e) == <<subscr_addr[2 * e], subscr_addr[2 * e + 1]>>
Recorded == {Addr(e) : e \in TableEntry} \ {FreeAddr}
NoRound == i = MaCaco_INMAXSUBSCR

\* vNet_GetMedia(a) is the IP media: 0x0001 to 0x64FF.
OverIP(a) == a # FreeAddr /\ a[2] <= 100

TableInit ==
  /\ subscr_addr = [b \in Byte |-> 0]
  /\ subscr_funcode = [e \in TableEntry |-> None]
  /\ subscr_lastindex = 0
  /\ i = MaCaco_INMAXSUBSCR
  /\ asked = [a \in Requester |-> None]
  /\ owed = {}
  /\ passed = {}
  /\ deletions = 0
-----------------------------------------------------------------------------
(* Requests.                                                               *)

\* Mutant: the scan looks for a free entry only.
Stops_AtFree(e, a) == Addr(e) = FreeAddr

\* The scan for requester a stops at entry e.
Stops(e, a) == Addr(e) = a \/ Addr(e) = FreeAddr

Found(e, a) == Stops(e, a) /\ \A f \in 0 .. e - 1 : ~ Stops(f, a)

TableFull(a) == \A e \in TableEntry : ~ Stops(e, a)

\* Mutant: an entry that is written again keeps its kind.
Store_KeepsKind(e, a, f) ==
  /\ subscr_addr' = [subscr_addr EXCEPT ![2 * e] = a[1], ![2 * e + 1] = a[2]]
  /\ subscr_funcode' = [subscr_funcode EXCEPT ![e] = IF @ = None THEN f ELSE @]
  /\ asked' = [asked EXCEPT ![a] = f]

Store(e, a, f) ==
  /\ subscr_addr' = [subscr_addr EXCEPT ![2 * e] = a[1], ![2 * e + 1] = a[2]]
  /\ subscr_funcode' = [subscr_funcode EXCEPT ![e] = f]
  /\ asked' = [asked EXCEPT ![a] = f]

NextIndex == (subscr_lastindex + 1) % (MAXBYTE + 1)

\* SUBSCRREQ or STATEREQ from a: the entry of a, or the first free one, or
\* the one subscr_lastindex points at; refused, with ERR85, when that is past the end.
Requested(a, f) ==
  /\ NoRound
  /\ \/ \E e \in TableEntry :
          /\ Found(e, a)
          /\ Store(e, a, f)
          /\ UNCHANGED subscr_lastindex
     \/ /\ TableFull(a)
        /\ subscr_lastindex' = NextIndex
        /\ IF subscr_lastindex \in TableEntry
           THEN Store(subscr_lastindex, a, f)
           ELSE UNCHANGED <<subscr_addr, subscr_funcode, asked>>
  /\ UNCHANGED <<i, owed, passed, deletions>>

\* A subscription hard coded in the sketch: ignored when the table is full.
MaCaco_subscribe_record(a, f) ==
  /\ NoRound
  /\ \E e \in TableEntry : Found(e, a) /\ Store(e, a, f)
  /\ UNCHANGED <<subscr_lastindex, i, owed, passed, deletions>>
-----------------------------------------------------------------------------
(* Rounds.                                                                 *)

\* The outputs changed (MaCaco_subAnswer), or data of another node came in
\* (MaCaco_PassThrough_subAnswer).
StartRound ==
  /\ NoRound
  /\ i' = 0
  /\ owed' = Recorded
  /\ passed' = {}
  /\ UNCHANGED <<subscr_addr, subscr_funcode, subscr_lastindex, asked, deletions>>

\* A failed subscriber behind IP is deleted, unless its entry is the last one.
Deletes(ok) == ~ ok /\ OverIP(Addr(i)) /\ i + 1 \in TableEntry

\* memmove(subscr_addr+i, subscr_addr+i+1, MaCaco_INMAXSUBSCR-i-1).
Deleted ==
  [b \in Byte |-> IF b \in 2 * i .. 2 * i + MaCaco_INMAXSUBSCR - i - 2
                  THEN subscr_addr[b + 2] ELSE subscr_addr[b]]

\* Mutant: a failure ends the round.
AfterFailure_Stop == MaCaco_INMAXSUBSCR

AfterFailure == i + 1

\* One entry of the round; ok tells whether one of its four transmissions
\* succeeded.
VisitEntry(ok) ==
  /\ ~ NoRound
  /\ Addr(i) = FreeAddr => ok
  /\ Deletes(ok) => deletions < MaxDeletions
  /\ owed' = owed \ {Addr(i)}
  /\ i' = IF ok THEN i + 1 ELSE AfterFailure
  /\ IF Deletes(ok)
     THEN /\ subscr_addr' = Deleted
          /\ passed' = passed \cup {Addr(i + 1)}
          /\ deletions' = deletions + 1
     ELSE UNCHANGED <<subscr_addr, passed, deletions>>
  /\ UNCHANGED <<subscr_funcode, subscr_lastindex, asked>>

TableNext ==
  \/ \E a \in Requester, f \in Funcode : Requested(a, f) \/ MaCaco_subscribe_record(a, f)
  \/ StartRound
  \/ \E ok \in BOOLEAN : VisitEntry(ok)

TableSpec == TableInit /\ [][TableNext]_tableVars
-----------------------------------------------------------------------------
(* Properties.                                                             *)

\* Every variable keeps its type; subscr_lastindex stays a byte.
TableTypeOK ==
  /\ subscr_addr \in [Byte -> Nat]
  /\ subscr_funcode \in [TableEntry -> Funcode \cup {None}]
  /\ subscr_lastindex \in 0 .. MAXBYTE
  /\ i \in 0 .. MaCaco_INMAXSUBSCR
  /\ asked \in [Requester -> Funcode \cup {None}]
  /\ deletions \in 0 .. MaxDeletions

\* As long as nothing has been deleted no subscriber has two entries, through
\* overwriting and repeated requests: nobody gets a change twice.
OneEntryEach ==
  deletions > 0 \/ \A e, f \in TableEntry : Addr(e) = Addr(f) /\ Addr(e) # FreeAddr => e = f

\* "Send data to all subscribers": at the end of a round every subscriber
\* that was in the table has been tried, whatever failed before it.
EveryoneTried == NoRound => owed = {}

\* What is left of that where entries are deleted during the round and in
\* rounds before it: nobody is missed but those that were right behind a
\* deleted entry, although half of the bytes move up under the round and
\* the addresses in between are mixed.
OnlyNextMissed == NoRound => owed \subseteq passed

\* A subscriber gets the kind of frame it last asked for: address and kind
\* in parallel arrays belong to each other, until a deletion moves one of them.
KindMatches ==
  deletions > 0 \/ \A e \in TableEntry : Addr(e) \in Requester => subscr_funcode[e] = asked[Addr(e)]

\* "Delete the subscription that has failed": what is left in the table are
\* addresses of nodes that asked, not a mix of the bytes of two.
OnlyRequesters == Recorded \subseteq Requester
=============================================================================
