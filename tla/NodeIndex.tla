----------------------------- MODULE NodeIndex -----------------------------
(***************************************************************************)
(* The index list a gateway keeps for the interfaces to external protocols *)
(* in PERSISTENCE and LASTIN mode (frame/MaCaco/MaCaco.cpp): which nodes   *)
(* have sent data that the interface has not read.  The list has           *)
(* MaCaco_P_BUFSIZE (MaCaco_L_BUFSIZE) bytes; the layout of the memory map *)
(* leaves one more behind them, which no search looks at.                  *)
(***************************************************************************)
EXTENDS Integers

CONSTANTS
  BUFSIZE,    \* entries                       (code: 5)
  Peer,       \* node indices of the peers; the gateway itself is node 0
  MaxSample   \* bound: data a node produces in a behaviour

LOCNODE == 0
IDX_NULL == 255
Node == Peer \cup {LOCNODE}
Sample == 0 .. MaxSample

ASSUME NodeIndexConstants ==
  /\ BUFSIZE \in Nat /\ BUFSIZE > 0
  /\ Peer \subseteq 1 .. IDX_NULL - 1
  /\ MaxSample \in Nat

Entry == 0 .. BUFSIZE - 1

IndexList == [0 .. BUFSIZE -> Node \cup {IDX_NULL}]

\* MaCaco_InternalSubcription clears the list; the byte behind keeps the zero
\* the memory map starts with.
EmptyList == [e \in 0 .. BUFSIZE |-> IF e = BUFSIZE THEN 0 ELSE IDX_NULL]

\* The first entry that holds v, BUFSIZE when there is none.
Find(idx, v) ==
  CHOOSE e \in 0 .. BUFSIZE :
    /\ e = BUFSIZE \/ idx[e] = v
    /\ \A f \in 0 .. e - 1 : idx[f] # v

\* Mutant: the entry behind the one that was read is cleared.
Cleared_Next(idx, n) == [idx EXCEPT ![Find(idx, n) + 1] = IDX_NULL]

\* ClearData(id): the first entry of the node, the others stay.
Cleared(idx, n) == [idx EXCEPT ![Find(idx, n)] = IDX_NULL]

IsFull(idx) == \A e \in Entry : idx[e] # IDX_NULL

\* Where the data of a node is recorded: the first free entry, or the first.
EntryForData(idx) == IF IsFull(idx) THEN 0 ELSE Find(idx, IDX_NULL)

\* The nodes the interface can still find.
Listed(idx) == {idx[e] : e \in Entry} \ {IDX_NULL}
=============================================================================
