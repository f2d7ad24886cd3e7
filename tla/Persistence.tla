---------------------------- MODULE Persistence ----------------------------
(***************************************************************************)
(* PERSISTENCE mode: the gateway keeps the last data of every node and an  *)
(* index list of the nodes an external interface has to read.  The         *)
(* interface is a loop of the sketch: for every node id, when              *)
(* Persistence_IsData(id), read the data, then Persistence_ClearData(id).  *)
(***************************************************************************)
EXTENDS NodeIndex

CONSTANT LocalLogic  \* the gateway runs typicals of its own

ASSUME PersistenceConstants == LocalLogic \in BOOLEAN

VARIABLES
  idx,         \* the bytes from MaCaco_P_IDX_s on
  out,         \* P_OUT: last data of each node
  seen,        \* history: what the interface last read of each node
  overwritten  \* history: nodes that lost an entry before it was read

vars == <<idx, out, seen, overwritten>>

Init ==
  /\ idx = EmptyList
  /\ out = [n \in Node |-> 0]
  /\ seen = [n \in Node |-> 0]
  /\ overwritten = {}

Record(e, n) ==
  /\ idx' = [idx EXCEPT ![e] = n]
  /\ out' = [out EXCEPT ![n] = @ + 1]
  /\ overwritten' = overwritten \cup ({idx[e]} \ {IDX_NULL})

\* A SUBSCRANS from a peer with data to pass through.
PeerData(n) ==
  /\ out[n] < MaxSample
  /\ Record(EntryForData(idx), n)
  /\ UNCHANGED seen

\* Where the gateway's own data is recorded: the test is the wrong way round,
\* so a list with room gets entry 0 overwritten and a full one the byte
\* behind it.
LocalEntry == IF IsFull(idx) THEN BUFSIZE ELSE 0

\* The outputs of the gateway changed (MaCaco_retrieve).
LocalData ==
  /\ LocalLogic
  /\ out[LOCNODE] < MaxSample
  /\ Record(LocalEntry, LOCNODE)
  /\ UNCHANGED seen

\* MaCaco_GetPersistence: the node of the first entry in use.
GetPersistence ==
  IF Listed(idx) = {} THEN IDX_NULL
  ELSE idx[CHOOSE e \in Entry : idx[e] # IDX_NULL /\ \A f \in 0 .. e - 1 : idx[f] = IDX_NULL]

IsData(n) == GetPersistence = n

\* The interface finds data of node n, reads it and clears it.
Read(n) ==
  /\ IsData(n)
  /\ seen' = [seen EXCEPT ![n] = out[n]]
  /\ idx' = Cleared(idx, n)
  /\ UNCHANGED <<out, overwritten>>

Next == LocalData \/ \E n \in Peer : PeerData(n) \/ \E m \in Node : Read(m)

Spec == Init /\ [][Next]_vars
-----------------------------------------------------------------------------
(* Properties.                                                             *)

\* Every variable keeps its type: an index list of node numbers.
TypeOK ==
  /\ idx \in IndexList
  /\ out \in [Node -> Sample]
  /\ seen \in [Node -> Sample]
  /\ overwritten \subseteq Node

\* The interface can find every peer whose data it has not read, unless an
\* entry of that peer was overwritten: a second change before the first was
\* read, or a read between two changes, loses nothing.
NoticeKept ==
  \A n \in Peer \ overwritten : out[n] # seen[n] => n \in Listed(idx)

\* "Store data in the free space or overwrite the oldest data": the gateway's
\* own data takes no entry in use while there is room.
FreeSpaceUsed ==
  [][out'[LOCNODE] # out[LOCNODE] /\ ~ IsFull(idx) => Listed(idx) \subseteq Listed(idx')]_vars
=============================================================================
