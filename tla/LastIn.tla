------------------------------- MODULE LastIn -------------------------------
(***************************************************************************)
(* LASTIN mode: the gateway keeps the last few data that came in, each     *)
(* with the node it is from.  The sketch asks for every node id: when      *)
(* LastIn_IsData(id), it reads with LastIn_GetData(id, slot) and clears    *)
(* with LastIn_ClearData(id).  The gateway's own outputs go the same way.  *)
(***************************************************************************)
EXTENDS NodeIndex

VARIABLES
  l_idx,   \* the bytes from MaCaco_L_IDX_s on
  l_out,   \* L_OUT: the data of each entry
  last,    \* history: the last data of each node
  best,    \* history: the newest data the interface read of each node
  l_overwritten  \* history: nodes that lost an entry before it was read

lastinVars == <<l_idx, l_out, last, best, l_overwritten>>

LastInInit ==
  /\ l_idx = EmptyList
  /\ l_out = [e \in Entry |-> 0]
  /\ last = [n \in Node |-> 0]
  /\ best = [n \in Node |-> 0]
  /\ l_overwritten = {}

\* Data of node n: a SUBSCRANS to pass through from a peer, or a change of
\* the gateway's own outputs (MaCaco_retrieve).
DataIn(n) ==
  LET e == EntryForData(l_idx) IN
  /\ last[n] < MaxSample
  /\ last' = [last EXCEPT ![n] = @ + 1]
  /\ l_idx' = [l_idx EXCEPT ![e] = n]
  /\ l_out' = [l_out EXCEPT ![e] = last'[n]]
  /\ l_overwritten' = l_overwritten \cup ({l_idx[e]} \ {IDX_NULL})
  /\ UNCHANGED best

\* MaCaco_GetLastIn(id) == id.
LastInIsData(n) == Find(l_idx, n) # BUFSIZE

\* Mutant: the data is taken from the entry of the same number as the node.
GetData_ByNode(n) == l_out[n % BUFSIZE]

GetData(n) == l_out[Find(l_idx, n)]

\* The interface finds data of node n, reads it and clears it.
ReadLastIn(n) ==
  /\ LastInIsData(n)
  /\ best' = [best EXCEPT ![n] = IF GetData(n) > @ THEN GetData(n) ELSE @]
  /\ l_idx' = Cleared(l_idx, n)
  /\ UNCHANGED <<l_out, last, l_overwritten>>

LastInNext == \E n \in Node : DataIn(n) \/ ReadLastIn(n)

LastInSpec == LastInInit /\ [][LastInNext]_lastinVars
-----------------------------------------------------------------------------
(* Properties.                                                             *)

\* Every variable keeps its type; the byte behind the index list is
\* never written.
LastInTypeOK ==
  /\ l_idx \in IndexList /\ l_idx[BUFSIZE] = 0
  /\ l_out \in [Entry -> Sample]
  /\ last \in [Node -> Sample]
  /\ best \in [Node -> Sample]
  /\ l_overwritten \subseteq Node

\* The last data of a node has been read or is in an entry of that node,
\* unless one of its entries was overwritten.
LastDataKept ==
  \A n \in Node \ l_overwritten :
    best[n] = last[n] \/ \E e \in Entry : l_idx[e] = n /\ l_out[e] = last[n]
=============================================================================
