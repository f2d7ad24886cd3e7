-------------------------------- MODULE VNet --------------------------------
(***************************************************************************)
(* The virtual network (frame/vNet/vNet.cpp): devices on radio channels    *)
(* and buses, supernodes that bridge them, broadcasts that are repeated    *)
(* from one medium to the others and teach routes on their way.            *)
(*                                                                         *)
(* An address is <<subnet, host>>; the subnet tells the medium.  A bus     *)
(* carries one subnet, the radio all of its own.  Frames are not lost, and *)
(* those a device gets over one medium keep their order.  Multicast and    *)
(* Ethernet are left out.                                                  *)
(***************************************************************************)
EXTENDS Integers, Sequences, FiniteSets, FiniteSetsExt, Functions

CONSTANTS
  Networks,            \* networks, see NetworkType
  VNET_ROUTING_TABLE   \* routes a supernode can learn             (code: 10)

RADIO == 2
BUS == 5
BRDC == <<255, 255>>
wBRDC == <<254, 255>>
nBRDC == <<253, 255>>
Broadcasts == {BRDC, wBRDC, nBRDC}

VARIABLES
  nw,     \* the network, one of Networks
  route,  \* routing table of each device: a sequence of [subn, dest]
  inbox,  \* frames each device has got over each medium, oldest first
  sent,   \* history: the messages, [from, dst, as]; as tells the sources under
          \* which each device has got frames of the message
  got     \* history: who has processed each message

vnetVars == <<nw, route, inbox, sent, got>>

Device == DOMAIN nw.addr
vNet_GetMedia(a) == IF a[1] < 188 THEN RADIO ELSE BUS
Media(d) == {vNet_GetMedia(a) : a \in nw.addr[d]}
Addr(d, m) == CHOOSE a \in nw.addr[d] : vNet_GetMedia(a) = m
Super(d) == d \in nw.super
FirstOf(subnet) == <<subnet, 1>>

\* What a network is.  addr gives each device one address per medium, super
\* are the supernodes; loops is VNET_LOOPS; deaf are pairs of devices whose
\* radios do not reach each other; max bounds the messages that are sent.
NetworkType(n) ==
  /\ n.super \subseteq DOMAIN n.addr /\ n.loops \in BOOLEAN
  /\ \A d \in DOMAIN n.addr : \A a, b \in n.addr[d] :
       a \notin Broadcasts /\ (a # b => vNet_GetMedia(a) # vNet_GetMedia(b))
  /\ n.deaf \subseteq SUBSET DOMAIN n.addr /\ n.max \in Nat

ASSUME VNetConstants ==
  /\ VNET_ROUTING_TABLE \in Nat
  /\ \A n \in Networks : NetworkType(n)

VNetInit ==
  /\ nw \in Networks
  /\ route = [d \in Device |-> << >>]
  /\ inbox = [d \in Device |-> [m \in Media(d) |-> << >>]]
  /\ sent = << >> /\ got = << >>
-----------------------------------------------------------------------------
(* The media.                                                              *)

Reaches(d, e, m) ==
  /\ d # e /\ m \in Media(d) \cap Media(e)
  /\ CASE m = RADIO -> {d, e} \notin nw.deaf
       [] m = BUS -> Addr(d, BUS)[1] = Addr(e, BUS)[1]

\* The frames a device sends, [media, to, dst, o_src, id], as others get them.
Heard(d, frames, e, m) ==
  LET for == {f \in frames : /\ f.media = m /\ Reaches(d, e, m)
                             /\ f.to \in Broadcasts \cup {Addr(e, m)}}
  IN  {[src |-> Addr(d, m), dst |-> f.dst, o_src |-> f.o_src, id |-> f.id] : f \in for}

\* One frame per medium at most; box is the inbox before.
Transmit(d, frames, box) ==
  [e \in Device |-> [m \in Media(e) |->
     box[e][m] \o LET h == Heard(d, frames, e, m)
                  IN  IF h = {} THEN << >> ELSE <<CHOOSE f \in h : TRUE>>]]
-----------------------------------------------------------------------------
(* Paths.                                                                  *)

\* Mutant: the learnt routes are not looked up.
Route_None(rt, d, subnet) == {}
\* Routing tables are rt: a frame is looked at with what it has just taught.
Route(rt, d, subnet) == {k \in DOMAIN rt[d] : rt[d][k].subn = subnet}

\* Mutant: a supernode looks for a route first.
Direct_LearntFirst(d, a) ==
  ~(Super(d) /\ Route(route, d, a[1]) # {})
    /\ \E b \in nw.addr[d] : vNet_GetMedia(a) = vNet_GetMedia(b) /\ a[1] = b[1]

\* The device has an address of the subnet itself.
Direct(d, a) ==
  \E b \in nw.addr[d] : vNet_GetMedia(a) = vNet_GetMedia(b) /\ a[1] = b[1]

\* Where device d sends a frame for address a: the link address, or nothing
\* when there is no path.
OutPath(rt, d, a) ==
  CASE Direct(d, a) -> {a}
    [] ~Direct(d, a) /\ ~Super(d) ->
         {FirstOf(b[1]) : b \in nw.addr[d]}
    [] ~Direct(d, a) /\ Super(d) /\ Route(rt, d, a[1]) # {} ->
         {rt[d][Min(Route(rt, d, a[1]))].dest}
    [] ~Direct(d, a) /\ Super(d) /\ Route(rt, d, a[1]) = {} ->
         {FirstOf(a[1]) : m \in Media(d) \cap {vNet_GetMedia(a)}}

Unicast(rt, d, a, src, id) ==
  {[media |-> vNet_GetMedia(to), to |-> to, dst |-> a, o_src |-> src, id |-> id] :
     to \in OutPath(rt, d, a)}

OnAll(media, dst, src, id) ==
  {[media |-> m, to |-> BRDC, dst |-> dst, o_src |-> src[m], id |-> id] : m \in media}
-----------------------------------------------------------------------------
(* Sending.                                                                *)

Owner(a) == CHOOSE d \in Device : a \in nw.addr[d]

\* Addresses whose broadcasts device d has processed, as it saw them.
Known(d) == UNION {sent[k].as[d] : k \in {j \in DOMAIN sent : sent[j].dst \in Broadcasts}}

vNet_SendBroadcast(d, dst) ==
  LET id == Len(sent) + 1
      own == [m \in Media(d) |-> Addr(d, m)]
  IN  /\ inbox' = Transmit(d, OnAll(Media(d), dst, own, id), inbox)
      /\ sent' = Append(sent, [from |-> d, dst |-> dst, as |-> [e \in Device |-> {}]])
      /\ got' = Append(got, {})

vNet_Send(d, a) ==
  LET id == Len(sent) + 1
      out == OutPath(route, d, a)
      src == CHOOSE b \in nw.addr[d] : \E to \in out : vNet_GetMedia(to) = vNet_GetMedia(b)
  IN  /\ a \notin nw.addr[d]
      /\ inbox' = Transmit(d, IF out = {} THEN {} ELSE Unicast(route, d, a, src, id), inbox)
      /\ sent' = Append(sent, [from |-> d, dst |-> a, as |-> [e \in Device |-> {}]])
      /\ got' = Append(got, {})

Quiet == \A d \in Device : \A m \in Media(d) : inbox[d][m] = << >>

\* A broadcast when there is no traffic, or an answer to the source of one.
Send ==
  /\ Len(sent) < nw.max
  /\ \E d \in Device : \/ Quiet /\ \E dst \in {BRDC, nBRDC} : vNet_SendBroadcast(d, dst)
                       \/ \E a \in Known(d) : vNet_Send(d, a)
  /\ UNCHANGED <<nw, route>>
-----------------------------------------------------------------------------
(* A frame that was received over medium m.                                *)

\* A supernode learns who repeats the frames of a subnet, unless it is the
\* first address of that subnet, on a medium the device has.
Learns(d, f) ==
  /\ f.src # f.o_src
  /\ vNet_GetMedia(f.o_src) \in Media(d) => f.src # FirstOf(f.o_src[1])

vNet_ParseFrame(d, f) ==
  route' = IF /\ Super(d) /\ Learns(d, f) /\ Route(route, d, f.o_src[1]) = {}
              /\ Len(route[d]) < VNET_ROUTING_TABLE
             THEN [route EXCEPT ![d] = Append(@, [subn |-> f.o_src[1], dest |-> f.src])]
             ELSE route

Process(d, f) == got' = [got EXCEPT ![f.id] = @ \cup {d}]

\* The destination of a broadcast when it is repeated.
Repeated(dst) == IF dst = BRDC THEN wBRDC ELSE IF nw.loops THEN nBRDC ELSE wBRDC

\* Mutant: nothing is repeated over the medium it came from.
RepeatOn_Others(d, m, dst) == Media(d) \ {m}
\* The media a supernode repeats a broadcast on: also the radio it came from,
\* to extend its range, the first time.
RepeatOn(d, m, dst) ==
  IF dst = BRDC /\ m = RADIO THEN Media(d) ELSE Media(d) \ {m}

MayRoute(m, to) == vNet_GetMedia(to) = RADIO \/ vNet_GetMedia(to) # m

vNet_RoutingBridging(d, m, f, box) ==
  \/ /\ f.dst = Addr(d, m) \/ f.dst = nBRDC \/ (f.dst \in Broadcasts /\ ~Super(d))
     /\ inbox' = box /\ Process(d, f)
  \/ /\ f.dst \in {BRDC, wBRDC} /\ Super(d)
     /\ inbox' = Transmit(d, OnAll(RepeatOn(d, m, f.dst), Repeated(f.dst),
                                   [x \in Media(d) |-> f.o_src], f.id), box)
     /\ Process(d, f)
  \/ /\ f.dst \notin Broadcasts \cup {Addr(d, m)}
     /\ inbox' = Transmit(d, {g \in Unicast(route', d, f.dst, f.o_src, f.id) :
                                 Super(d) /\ MayRoute(m, g.to)}, box)
     /\ UNCHANGED got

vNet_RetrieveData(d, m) ==
  /\ inbox[d][m] # << >>
  /\ sent' = [sent EXCEPT ![Head(inbox[d][m]).id].as[d] = @ \cup {Head(inbox[d][m]).o_src}]
  /\ vNet_ParseFrame(d, Head(inbox[d][m]))
  /\ vNet_RoutingBridging(d, m, Head(inbox[d][m]), [inbox EXCEPT ![d][m] = Tail(@)])
  /\ UNCHANGED nw

Retrieve(d) == d \in Device /\ \E m \in Media(d) : vNet_RetrieveData(d, m)

VNetNext == Send \/ \E d \in Device : Retrieve(d)

\* The loops of the devices go on: some device that has got a frame takes it.
VNetFair == WF_vnetVars(\E d \in Device : Retrieve(d))
VNetSpec == VNetInit /\ [][VNetNext]_vnetVars /\ VNetFair
-----------------------------------------------------------------------------
(* Correctness.                                                            *)

Broadcast(k) == sent[k].dst = BRDC

\* The traffic that finitely many messages cause ends: no broadcast is repeated
\* for ever between supernodes, and no route leads in a circle.
TrafficEnds == <>[]Quiet

\* A broadcast has got to every device when the traffic has ended, although
\* nothing tells a copy from the original and each device repeats on its own.
\* One that starts on a bus takes one hop by radio only (VNET_ADDR_wBRDC).
BroadcastReaches ==
  Quiet => \A k \in DOMAIN sent :
             Broadcast(k) /\ (RADIO \in Media(sent[k].from) \/ nw.deaf = {})
               => Device \ {sent[k].from} \subseteq got[k]

\* The shape of a network in which that is possible.  A copy of a broadcast is
\* known by where it is heard, over which medium, and by its destination.
Place == Device \X {RADIO, BUS} \X Broadcasts

\* Where a broadcast of device d is heard, and what is made of a copy there.
Copies(d, media, dst) ==
  {c \in Place : c[2] \in media /\ Reaches(d, c[1], c[2]) /\ c[3] = dst}
Repeats(c) ==
  IF Super(c[1]) /\ c[3] # nBRDC
  THEN Copies(c[1], RepeatOn(c[1], c[2], c[3]), Repeated(c[3])) ELSE {}

\* The device that hears a copy, and those gets credits its repeats with.
HeardFrom(gets, c) == {c[1]} \cup UNION {gets[x] : x \in Repeats(c)}

\* gets credits no copy with more than its device and what its repeats are
\* credited with, and the copies of a sender with everyone else.
CoveredBy(gets) ==
  /\ \A c \in Place : gets[c] \subseteq HeardFrom(gets, c)
  /\ \A d \in Device : RADIO \in Media(d) \/ nw.deaf = {} =>
       Device \ {d} \subseteq UNION {gets[c] : c \in Copies(d, Media(d), BRDC)}

Covered == \E gets \in [Place -> SUBSET Device] : CoveredBy(gets)

\* Who has processed a broadcast can answer: the answer gets to its source by
\* the routes learnt on the way, in whatever order the copies came.  (A
\* supernode takes it only under the address of the medium it came by.)
ReplyArrives ==
  Quiet => \A k \in DOMAIN sent :
             LET d == Owner(sent[k].dst)
             IN  sent[k].dst \notin Broadcasts =>
                   got[k] = {d} \/ (Super(d) /\ got[k] = {} /\ sent[k].as[d] # {})
=============================================================================
