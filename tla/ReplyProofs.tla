----------------------------- MODULE ReplyProofs -----------------------------
(* That who has processed a broadcast can answer (VNet), in any network of *)
(* one radio channel and the buses behind its supernodes, with any number  *)
(* of devices and messages.  It begins with the shape of the network, then *)
(* comes the invariant, what a transmission, a route that is learnt and a  *)
(* frame that is taken make of it, and the steps.                          *)
EXTENDS NetworkProofs, MCVNet

-----------------------------------------------------------------------------
(* The network.                                                            *)

Subnets == {a[1] : a \in Addresses}

\* A radio channel with a bus behind each of its supernodes: all radios are in
\* one subnet and in reach, each bus has one supernode, whose address is the
\* first of the bus, the first radio address is a supernode's, and the routing
\* tables have room for all subnets.
Star ==
  /\ nw \in Networks /\ nw.deaf = {}
  /\ \A d, e \in Device : d # e => nw.addr[d] \cap nw.addr[e] = {}
  /\ \A d \in Device : IF Super(d) THEN RADIO \in Media(d)
                                   ELSE \E a \in nw.addr[d] : nw.addr[d] = {a}
  /\ \A a, b \in Addresses : vNet_GetMedia(a) = RADIO /\ vNet_GetMedia(b) = RADIO => a[1] = b[1]
  /\ \A a \in Addresses : \E s \in Device : Super(s) /\ FirstOf(a[1]) \in nw.addr[s]
  /\ \A s, t \in Device : Super(s) /\ Super(t) /\ s # t /\ BUS \in Media(s) \cap Media(t) =>
       Addr(s, BUS)[1] # Addr(t, BUS)[1]
  /\ IsFiniteSet(Subnets) /\ Cardinality(Subnets) <= VNET_ROUTING_TABLE

LEMMA MediaFacts ==
  /\ RADIO # BUS
  /\ \A a : vNet_GetMedia(a) \in {RADIO, BUS}
  /\ \A a, b : a[1] = b[1] => vNet_GetMedia(a) = vNet_GetMedia(b)
  /\ \A a : FirstOf(a[1])[1] = a[1] /\ vNet_GetMedia(FirstOf(a[1])) = vNet_GetMedia(a)
<1>1. RADIO # BUS
  BY DEF RADIO, BUS
<1>2. \A a : vNet_GetMedia(a) = IF a[1] < 188 THEN RADIO ELSE BUS
  BY DEF vNet_GetMedia
<1>3. \A a : FirstOf(a[1])[1] = a[1]
  BY DEF FirstOf
<1>. QED  BY <1>1, <1>2, <1>3

\* Each address is one device's, its only one on the medium.
LEMMA OwnerFacts ==
  ASSUME Star
  PROVE  /\ \A d \in Device : \A a \in nw.addr[d] :
              /\ Owner(a) = d /\ a \in Addresses /\ a \notin Broadcasts
              /\ vNet_GetMedia(a) \in Media(d) /\ a = Addr(d, vNet_GetMedia(a))
         /\ \A a \in Addresses : Owner(a) \in Device /\ a \in nw.addr[Owner(a)]
         /\ \A d \in Device : \A m \in Media(d) :
              /\ Addr(d, m) \in nw.addr[d] /\ vNet_GetMedia(Addr(d, m)) = m
              /\ Addr(d, m) \in Addresses /\ Owner(Addr(d, m)) = d
<1>1. nw \in Networks /\ NetworkType(nw)
  BY VNetConstants DEF Star
<1>2. \A d \in Device : \A a, b \in nw.addr[d] : vNet_GetMedia(a) = vNet_GetMedia(b) => a = b
  BY <1>1 DEF NetworkType, Device
<1>3. \A d, e \in Device : \A a \in nw.addr[d] : a \in nw.addr[e] => d = e
  BY DEF Star
<1>4. \A d \in Device : \A a \in nw.addr[d] : a \in Addresses /\ a \notin Broadcasts
  BY <1>1, NetworkFacts DEF Addresses
<1>5. ASSUME NEW d \in Device, NEW a \in nw.addr[d]
      PROVE  Owner(a) = d
  <2>1. \E e \in Device : a \in nw.addr[e]
    BY <1>5
  <2>2. Owner(a) \in Device /\ a \in nw.addr[Owner(a)]
    BY <2>1 DEF Owner
  <2>. QED  BY <1>3, <1>5, <2>2
<1>6. ASSUME NEW d \in Device, NEW m \in Media(d)
      PROVE  Addr(d, m) \in nw.addr[d] /\ vNet_GetMedia(Addr(d, m)) = m
  BY <1>6 DEF Media, Addr
<1>7. ASSUME NEW d \in Device, NEW a \in nw.addr[d]
      PROVE  vNet_GetMedia(a) \in Media(d) /\ a = Addr(d, vNet_GetMedia(a))
  <2>1. vNet_GetMedia(a) \in Media(d)
    BY <1>7 DEF Media
  <2>. QED  BY <1>2, <1>6, <1>7, <2>1
<1>8. \A a \in Addresses : \E d \in Device : a \in nw.addr[d]
  BY DEF Addresses
<1>. QED  BY <1>4, <1>5, <1>6, <1>7, <1>8

\* Who hears whom, and what is direct.
LEMMA ReachFacts ==
  ASSUME Star
  PROVE  /\ \A d, e \in Device : d # e /\ RADIO \in Media(d) /\ RADIO \in Media(e) => Reaches(d, e, RADIO)
         /\ \A d, e \in Device : \A m :
              Reaches(d, e, m) => d # e /\ m \in {RADIO, BUS} /\ m \in Media(d) /\ m \in Media(e)
         /\ \A d, e \in Device : Reaches(d, e, BUS) <=>
              /\ d # e /\ BUS \in Media(d) /\ BUS \in Media(e)
              /\ Addr(d, BUS)[1] = Addr(e, BUS)[1]
<1>1. \A d \in Device : Media(d) \subseteq {RADIO, BUS}
  BY NetworkFacts DEF Star
<1>2. nw.deaf = {}
  BY DEF Star
<1>3. ASSUME NEW d \in Device, NEW e \in Device, d # e, RADIO \in Media(d), RADIO \in Media(e)
      PROVE  Reaches(d, e, RADIO)
  BY <1>2, <1>3 DEF Reaches, RADIO, BUS
<1>4. \A d, e \in Device : \A m :
        Reaches(d, e, m) => d # e /\ m \in {RADIO, BUS} /\ m \in Media(d) /\ m \in Media(e)
  BY <1>1 DEF Reaches
<1>5. \A d, e \in Device : Reaches(d, e, BUS) <=>
        /\ d # e /\ BUS \in Media(d) /\ BUS \in Media(e)
        /\ Addr(d, BUS)[1] = Addr(e, BUS)[1]
  BY DEF Reaches, RADIO, BUS
<1>. QED  BY <1>3, <1>4, <1>5

LEMMA DirectFacts ==
  ASSUME Star
  PROVE  /\ \A d \in Device : \A a :
              Direct(d, a) <=> vNet_GetMedia(a) \in Media(d) /\ Addr(d, vNet_GetMedia(a))[1] = a[1]
         /\ \A d \in Device : \A a \in Addresses :
              RADIO \in Media(d) /\ vNet_GetMedia(a) = RADIO => Direct(d, a)
         /\ \A d \in Device : \A a \in Addresses :
              Direct(d, a) /\ d # Owner(a) => Reaches(d, Owner(a), vNet_GetMedia(a))
         /\ \A d \in Device : \A a \in nw.addr[d] : Direct(d, a)
         /\ \A d \in Device : \A a, b : a[1] = b[1] /\ Direct(d, a) => Direct(d, b)
<1>1. \A d \in Device : \A a :
        Direct(d, a) <=> vNet_GetMedia(a) \in Media(d) /\ Addr(d, vNet_GetMedia(a))[1] = a[1]
  <2>. SUFFICES ASSUME NEW d \in Device, NEW a
                PROVE  Direct(d, a) <=>
                         vNet_GetMedia(a) \in Media(d) /\ Addr(d, vNet_GetMedia(a))[1] = a[1]
    OBVIOUS
  <2>1. ASSUME Direct(d, a)
        PROVE  vNet_GetMedia(a) \in Media(d) /\ Addr(d, vNet_GetMedia(a))[1] = a[1]
    <3>1. PICK b \in nw.addr[d] : vNet_GetMedia(a) = vNet_GetMedia(b) /\ a[1] = b[1]
      BY <2>1 DEF Direct
    <3>. QED  BY <3>1, OwnerFacts
  <2>2. ASSUME vNet_GetMedia(a) \in Media(d), Addr(d, vNet_GetMedia(a))[1] = a[1]
        PROVE  Direct(d, a)
    BY <2>2, OwnerFacts DEF Direct
  <2>. QED  BY <2>1, <2>2
<1>2. \A d \in Device : \A a \in Addresses :
        RADIO \in Media(d) /\ vNet_GetMedia(a) = RADIO => Direct(d, a)
  BY <1>1, OwnerFacts DEF Star
<1>3. ASSUME NEW d \in Device, NEW a \in Addresses, Direct(d, a), d # Owner(a)
      PROVE  Reaches(d, Owner(a), vNet_GetMedia(a))
  <2>1. /\ vNet_GetMedia(a) \in Media(d) /\ Addr(d, vNet_GetMedia(a))[1] = a[1]
        /\ Owner(a) \in Device /\ vNet_GetMedia(a) \in Media(Owner(a))
        /\ Addr(Owner(a), vNet_GetMedia(a)) = a
    BY <1>1, <1>3, OwnerFacts
  <2>. QED  BY <1>3, <2>1, MediaFacts, ReachFacts
<1>4. \A d \in Device : \A a \in nw.addr[d] : Direct(d, a)
  BY DEF Direct
<1>5. \A d \in Device : \A a, b : a[1] = b[1] /\ Direct(d, a) => Direct(d, b)
  BY <1>1, MediaFacts
<1>. QED  BY <1>1, <1>2, <1>3, <1>4, <1>5

\* The supernodes.
LEMMA SuperFacts ==
  ASSUME Star
  PROVE  /\ \A d \in Device : Super(d) => RADIO \in Media(d)
         /\ \A d \in Device : ~ Super(d) => \A m, n \in Media(d) : m = n
         /\ \A s, t \in Device : Super(s) /\ Super(t) => ~ Reaches(s, t, BUS)
         /\ \A s, t \in Device : \A a : Super(s) /\ Super(t) /\ Direct(s, a) /\ Direct(t, a)
                                       /\ vNet_GetMedia(a) = BUS => s = t
         /\ \A s, d \in Device : \A a : Reaches(s, d, BUS) /\ vNet_GetMedia(a) = BUS =>
              (Direct(s, a) <=> Direct(d, a))
         /\ \A s, d \in Device : Reaches(s, d, BUS) => Direct(d, Addr(s, BUS))
<1>1. \A d \in Device : Super(d) => RADIO \in Media(d)
  BY DEF Star
<1>2. \A d \in Device : ~ Super(d) => \A m, n \in Media(d) : m = n
  BY DEF Star, Media
<1>3. \A s, t \in Device : Super(s) /\ Super(t) /\ s # t /\ BUS \in Media(s) /\ BUS \in Media(t) =>
       Addr(s, BUS)[1] # Addr(t, BUS)[1]
  BY DEF Star
<1>4. \A s, t \in Device : Super(s) /\ Super(t) => ~ Reaches(s, t, BUS)
  BY <1>3, ReachFacts
<1>5. \A s, t \in Device : \A a : Super(s) /\ Super(t) /\ Direct(s, a) /\ Direct(t, a)
                                 /\ vNet_GetMedia(a) = BUS => s = t
  BY <1>3, DirectFacts
<1>6. \A s, d \in Device : \A a : Reaches(s, d, BUS) /\ vNet_GetMedia(a) = BUS =>
        (Direct(s, a) <=> Direct(d, a))
  BY ReachFacts, DirectFacts
<1>7. \A s, d \in Device : Reaches(s, d, BUS) => Direct(d, Addr(s, BUS))
  BY ReachFacts, DirectFacts, OwnerFacts
<1>. QED  BY <1>1, <1>2, <1>4, <1>5, <1>6, <1>7

\* The first address of the subnet of a device that is no supernode.
LEMMA FirstFacts ==
  ASSUME Star, NEW d \in Device, ~ Super(d), NEW b \in nw.addr[d],
         NEW m, m = vNet_GetMedia(b), NEW s, s = Owner(FirstOf(b[1]))
  PROVE  /\ s \in Device /\ Super(s) /\ m \in Media(s) /\ Addr(s, m) = FirstOf(b[1])
         /\ Reaches(d, s, m) /\ nw.addr[d] = {b} /\ Media(d) = {m}
<1>1. b \in Addresses /\ b = Addr(d, m) /\ m \in Media(d) /\ m \in {RADIO, BUS}
  BY OwnerFacts, MediaFacts
<1>2. s \in Device /\ Super(s) /\ FirstOf(b[1]) \in nw.addr[s]
  <2>1. PICK t \in Device : Super(t) /\ FirstOf(b[1]) \in nw.addr[t]
    BY <1>1 DEF Star
  <2>2. Owner(FirstOf(b[1])) = t
    BY <2>1, OwnerFacts
  <2>. QED  BY <2>1, <2>2
<1>3. vNet_GetMedia(FirstOf(b[1])) = m /\ FirstOf(b[1])[1] = b[1]
  BY MediaFacts
<1>4. m \in Media(s) /\ Addr(s, m) = FirstOf(b[1])
  BY <1>2, <1>3, OwnerFacts
<1>5. d # s
  BY <1>2
<1>6. Reaches(d, s, m)
  BY <1>1, <1>2, <1>3, <1>4, <1>5, ReachFacts
<1>7. nw.addr[d] = {b}
  BY DEF Star
<1>8. Media(d) = {m}
  BY <1>7 DEF Media
<1>. QED  BY <1>2, <1>4, <1>6, <1>7, <1>8
-----------------------------------------------------------------------------
(* The invariant.                                                          *)

\* The invariant is stated of inboxes, routing tables, messages and who has got
\* them, for it has to hold also between the taking of a frame and the sending
\* of what it causes.

\* Supernode x has a path to the subnet of address a.
Finds(rt, x, a) == Direct(x, a) \/ \E i \in DOMAIN rt[x] : rt[x][i].subn = a[1]

\* It has, or will have from a frame that is before place n in its radio inbox.
FindsBefore(box, rt, x, a, n) ==
  \/ Finds(rt, x, a)
  \/ \E j \in DOMAIN box[x][RADIO] : j < n /\ box[x][RADIO][j].o_src[1] = a[1]
WillFind(box, rt, x, a) ==
  \/ Finds(rt, x, a)
  \/ \E j \in DOMAIN box[x][RADIO] : box[x][RADIO][j].o_src[1] = a[1]

\* Frame f, heard by device x over medium m: on the radio an address of a bus is
\* told by the supernode of that bus alone, and to a supernode only its own
\* devices send over its bus.
FrameStar(f, x, m, msgs) ==
  \E t \in Device :
    /\ Reaches(t, x, m) /\ f.src = Addr(t, m)
    /\ f.o_src \in Addresses
    /\ f.id \in DOMAIN msgs
    /\ f.dst \in Broadcasts => msgs[f.id].dst \in Broadcasts
    /\ f.dst \notin Broadcasts => f.dst = msgs[f.id].dst
    /\ m = RADIO /\ vNet_GetMedia(f.o_src) = BUS =>
         /\ Super(t) /\ Direct(t, f.o_src) /\ f.dst # BRDC
         /\ \/ f.dst \in Broadcasts
            \/ f.dst = Addr(x, RADIO)
            \/ vNet_GetMedia(f.dst) = BUS /\ Direct(x, f.dst)
    /\ m = BUS /\ Super(x) => vNet_GetMedia(f.o_src) = BUS /\ Direct(x, f.o_src)

FramesStar(box, msgs) ==
  \A x \in Device : \A m \in Media(x) : \A i \in DOMAIN box[x][m] :
    FrameStar(box[x][m][i], x, m, msgs)

\* A route to a bus leads to its supernode; a subnet has one route.
RouteStar(x, r) ==
  /\ r.subn \in Subnets
  /\ \A a \in Addresses : a[1] = r.subn /\ RADIO \in Media(x) /\ ~ Direct(x, a) =>
       \E y \in Device : Super(y) /\ y # x /\ r.dest = Addr(y, RADIO) /\ Direct(y, a)
RoutesStar(rt) ==
  /\ DOMAIN rt = Device
  /\ \A x \in Device :
    /\ IsSeq(rt[x])
    /\ \A i \in DOMAIN rt[x] : RouteStar(x, rt[x][i])
    /\ \A i, j \in DOMAIN rt[x] : rt[x][i].subn = rt[x][j].subn => i = j

\* Device e knows address a; it knows it or has it in its inbox of medium m.
KnownAs(msgs, e, a) == \E k \in DOMAIN msgs : msgs[k].dst \in Broadcasts /\ a \in msgs[k].as[e]
HeardOver(box, msgs, e, m, a) ==
  \/ \E i \in DOMAIN box[e][m] : box[e][m][i].dst \in Broadcasts /\ box[e][m][i].o_src = a
  \/ ~ Super(e) /\ KnownAs(msgs, e, a)

\* Of a source whose broadcast is known, supernodes know the way: who has
\* processed it, who hears the radio if it was heard there, and the supernode
\* of a bus if it was heard on the bus.
PathsStar(box, rt, msgs) ==
  /\ \A x \in Device : \A a : Super(x) /\ KnownAs(msgs, x, a) => Finds(rt, x, a)
  /\ \A e, x \in Device : \A a :
       RADIO \in Media(e) /\ HeardOver(box, msgs, e, RADIO, a) /\ Super(x) => WillFind(box, rt, x, a)
  /\ \A e, s \in Device : \A a :
       Super(s) /\ Reaches(s, e, BUS) /\ HeardOver(box, msgs, e, BUS, a) => Finds(rt, s, a)

StarInv(box, rt, msgs) == FramesStar(box, msgs) /\ RoutesStar(rt) /\ PathsStar(box, rt, msgs)

\* A frame for address a gets there from place i of the inbox of device x.
OnPath(box, rt, x, m, i, a) ==
  \/ x = Owner(a) /\ (Super(x) \/ m = vNet_GetMedia(a))
  \/ Super(x) /\ x # Owner(a) /\ Direct(x, a) /\ MayRoute(m, a)
  \/ /\ Super(x) /\ ~ Direct(x, a)
     /\ IF m = RADIO THEN FindsBefore(box, rt, x, a, i) ELSE Finds(rt, x, a)

\* Message k has got to its destination d, or gets there.
Arrived(msgs, gt, k, d) == d \in gt[k] \/ (Super(d) /\ msgs[k].as[d] # {})
Arrives(box, rt, k, a) ==
  \E x \in Device : \E m \in Media(x) : \E i \in DOMAIN box[x][m] :
    box[x][m][i].id = k /\ OnPath(box, rt, x, m, i, a)
RepliesStar(box, rt, msgs, gt) ==
  \A k \in DOMAIN msgs : msgs[k].dst \notin Broadcasts =>
    /\ msgs[k].dst \in Addresses
    /\ gt[k] \subseteq {Owner(msgs[k].dst)}
    /\ Arrived(msgs, gt, k, Owner(msgs[k].dst)) \/ Arrives(box, rt, k, msgs[k].dst)

\* What a transmission appends to an inbox.
LEMMA TransmitAt ==
  ASSUME NEW d, NEW frames, NEW box, NEW e \in Device, NEW m \in Media(e), IsSeq(box[e][m]),
         NEW r, r = Transmit(d, frames, box)
  PROVE  /\ IsSeq(r[e][m]) /\ Len(box[e][m]) \in Nat
         /\ DOMAIN box[e][m] = 1 .. Len(box[e][m])
         /\ \A i \in DOMAIN box[e][m] : i \in DOMAIN r[e][m] /\ r[e][m][i] = box[e][m][i]
         /\ \A i \in DOMAIN r[e][m] : i \in DOMAIN box[e][m] \/ r[e][m][i] \in Heard(d, frames, e, m)
         /\ Heard(d, frames, e, m) # {} =>
              \E i \in DOMAIN r[e][m] :
                i = Len(box[e][m]) + 1 /\ r[e][m][i] \in Heard(d, frames, e, m)
<1>. DEFINE s == box[e][m]
            h == Heard(d, frames, e, m)
            t == IF h = {} THEN << >> ELSE <<CHOOSE f \in h : TRUE>>
<1>1. r[e][m] = s \o t
  BY DEF Transmit
<1>2. s \in Seq(Range(s)) /\ Len(s) \in Nat /\ DOMAIN s = 1 .. Len(s)
  BY DEF IsSeq
<1>3. IsSeq(r[e][m])
  BY TransmitAdds
<1>4. CASE h = {}
  <2>1. t = << >>
    BY <1>4
  <2>. HIDE DEF t, s, h
  <2>2. s \o t = s
    BY <1>2, <2>1
  <2>. QED  BY <1>1, <1>2, <1>3, <1>4, <2>2 DEF s, h
<1>5. CASE h # {}
  <2>1. PICK f \in h : t = <<f>>
    BY <1>5
  <2>. DEFINE q == s \o <<f>>
  <2>. HIDE DEF t, s, h
  <2>2. s \in Seq(Range(s) \cup {f})
    BY <1>2
  <2>3. /\ q \in Seq(Range(s) \cup {f}) /\ DOMAIN q = 1 .. Len(s) + 1
        /\ \A i \in 1 .. Len(s) : q[i] = s[i]
        /\ q[Len(s) + 1] = f
    BY <1>2, <2>2
  <2>4. r[e][m] = q
    BY <1>1, <2>1
  <2>5. f \in Heard(d, frames, e, m)
    BY <2>1 DEF h
  <2>. HIDE DEF q
  <2>. DEFINE n == Len(s)
  <2>6. DOMAIN r[e][m] = 1 .. n + 1 /\ n \in Nat /\ DOMAIN s = 1 .. n
    BY <1>2, <2>3, <2>4
  <2>7. \A i \in DOMAIN s : i \in DOMAIN r[e][m] /\ r[e][m][i] = s[i]
    BY <2>3, <2>4, <2>6
  <2>8. n + 1 \in DOMAIN r[e][m] /\ r[e][m][n + 1] = f
    BY <2>3, <2>4, <2>6
  <2>9. \A i \in DOMAIN r[e][m] : i \in DOMAIN s \/ i = n + 1
    BY <2>6
  <2>. HIDE DEF n
  <2>10. n = Len(box[e][m]) /\ s = box[e][m]
    BY DEF n, s
  <2>. QED  BY <1>3, <2>5, <2>6, <2>7, <2>8, <2>9, <2>10
<1>. QED  BY <1>4, <1>5

\* Paths and places on them last: inboxes are appended to.
LEMMA TransmitKeeps ==
  ASSUME Star, NEW d, NEW frames, NEW box, NEW msgs, InboxesRight(box, msgs),
         NEW r, r = Transmit(d, frames, box), NEW rt
  PROVE  /\ \A x \in Device : \A a :
              Super(x) /\ WillFind(box, rt, x, a) => WillFind(r, rt, x, a)
         /\ \A k, a : Arrives(box, rt, k, a) => Arrives(r, rt, k, a)
<1>1. \A x \in Device : \A m \in Media(x) :
        IsSeq(box[x][m])
  BY DEF InboxesRight
<1>2. \A x \in Device : \A m \in Media(x) : \A i \in DOMAIN box[x][m] :
        i \in DOMAIN r[x][m] /\ r[x][m][i] = box[x][m][i]
  BY <1>1, TransmitAt
<1>3. \A x \in Device : \A a : Super(x) /\ WillFind(box, rt, x, a) => WillFind(r, rt, x, a)
  BY <1>2, SuperFacts DEF WillFind
<1>4. \A x \in Device : \A a, n :
        Super(x) /\ FindsBefore(box, rt, x, a, n) => FindsBefore(r, rt, x, a, n)
  BY <1>2, SuperFacts DEF FindsBefore
<1>5. \A x \in Device : \A m, i, a : OnPath(box, rt, x, m, i, a) => OnPath(r, rt, x, m, i, a)
  BY <1>4 DEF OnPath
<1>6. \A k, a : Arrives(box, rt, k, a) => Arrives(r, rt, k, a)
  BY <1>2, <1>5 DEF Arrives
<1>. QED  BY <1>3, <1>6

\* What may be transmitted.
LEMMA TransmitStar ==
  ASSUME Star, NEW d, NEW frames, NEW box, NEW msgs, InboxesRight(box, msgs),
         NEW r, r = Transmit(d, frames, box), NEW rt, StarInv(box, rt, msgs),
         \A e \in Device : \A m \in Media(e) : \A f \in Heard(d, frames, e, m) :
           /\ FrameStar(f, e, m, msgs)
           /\ f.dst \in Broadcasts /\ m = RADIO =>
                \A x \in Device : Super(x) => WillFind(r, rt, x, f.o_src)
           /\ f.dst \in Broadcasts /\ m = BUS =>
                \A s \in Device : Super(s) /\ Reaches(s, e, BUS) => Finds(rt, s, f.o_src)
  PROVE  StarInv(r, rt, msgs)
<1>1. \A x \in Device : \A m \in Media(x) : IsSeq(box[x][m])
  BY DEF InboxesRight
<1>2. \A x \in Device : \A m \in Media(x) : \A i \in DOMAIN r[x][m] :
        \/ i \in DOMAIN box[x][m] /\ r[x][m][i] = box[x][m][i]
        \/ r[x][m][i] \in Heard(d, frames, x, m)
  BY <1>1, TransmitAt
<1>3. FramesStar(r, msgs) /\ RoutesStar(rt)
  BY <1>2 DEF StarInv, FramesStar
<1>4. ASSUME NEW e \in Device, NEW x \in Device, NEW a,
             RADIO \in Media(e), HeardOver(r, msgs, e, RADIO, a), Super(x)
      PROVE  WillFind(r, rt, x, a)
  <2>1. CASE HeardOver(box, msgs, e, RADIO, a)
    BY <1>4, <2>1, TransmitKeeps DEF StarInv, PathsStar
  <2>2. CASE ~ HeardOver(box, msgs, e, RADIO, a)
    <3>1. \E f \in Heard(d, frames, e, RADIO) : f.dst \in Broadcasts /\ f.o_src = a
      BY <1>2, <1>4, <2>2 DEF HeardOver
    <3>. QED  BY <1>4, <3>1
  <2>. QED  BY <2>1, <2>2
<1>5. ASSUME NEW e \in Device, NEW s \in Device, NEW a,
             Super(s), Reaches(s, e, BUS), HeardOver(r, msgs, e, BUS, a)
      PROVE  Finds(rt, s, a)
  <2>1. CASE HeardOver(box, msgs, e, BUS, a)
    BY <1>5, <2>1 DEF StarInv, PathsStar
  <2>2. CASE ~ HeardOver(box, msgs, e, BUS, a)
    <3>1. BUS \in Media(e)
      BY <1>5, ReachFacts
    <3>2. \E f \in Heard(d, frames, e, BUS) : f.dst \in Broadcasts /\ f.o_src = a
      BY <1>2, <1>5, <2>2, <3>1 DEF HeardOver
    <3>. QED  BY <1>5, <3>1, <3>2
  <2>. QED  BY <2>1, <2>2
<1>6. PathsStar(r, rt, msgs)
  BY <1>4, <1>5 DEF StarInv, PathsStar
<1>. QED  BY <1>3, <1>6 DEF StarInv

\* An address of the radio is direct to supernodes; what one finds is found for
\* the whole subnet.
LEMMA FindsFacts ==
  ASSUME Star, NEW rt
  PROVE  /\ \A x \in Device : \A a, b : a[1] = b[1] /\ Finds(rt, x, a) => Finds(rt, x, b)
         /\ \A x \in Device : \A a \in Addresses :
              Super(x) /\ ~ Direct(x, a) => vNet_GetMedia(a) = BUS
<1>1. \A x \in Device : \A a, b : a[1] = b[1] /\ Finds(rt, x, a) => Finds(rt, x, b)
  BY DirectFacts DEF Finds
<1>2. \A x \in Device : \A a \in Addresses : Super(x) /\ ~ Direct(x, a) => vNet_GetMedia(a) = BUS
  BY DirectFacts, SuperFacts, MediaFacts
<1>. QED  BY <1>1, <1>2

\* A route more for a device that has none to the subnet.
LEMMA RouteAdded ==
  ASSUME NEW rt, RoutesStar(rt), NEW d \in Device, NEW r, RouteStar(d, r), Route(rt, d, r.subn) = {},
         NEW new, DOMAIN new = Device, new[d] = Append(rt[d], r),
         \A x \in Device : x # d => new[x] = rt[x]
  PROVE  /\ RoutesStar(new)
         /\ \A x \in Device : \A a : Finds(rt, x, a) => Finds(new, x, a)
         /\ \A a : a[1] = r.subn => Finds(new, d, a)
<1>1. /\ DOMAIN rt = Device /\ rt[d] \in Seq(Range(rt[d]))
      /\ \A x \in Device : IsSeq(rt[x])
      /\ \A x \in Device : \A i \in DOMAIN rt[x] : RouteStar(x, rt[x][i])
      /\ \A x \in Device : \A i, j \in DOMAIN rt[x] : rt[x][i].subn = rt[x][j].subn => i = j
  BY DEF RoutesStar, IsSeq
<1>2. /\ DOMAIN new = Device /\ new[d] = Append(rt[d], r)
      /\ \A x \in Device : x # d => new[x] = rt[x]
  OBVIOUS
<1>3. /\ new[d] \in Seq(Range(rt[d]) \cup {r})
      /\ DOMAIN rt[d] = 1 .. Len(rt[d]) /\ Len(rt[d]) \in Nat
      /\ DOMAIN new[d] = 1 .. Len(rt[d]) + 1
      /\ \A i \in DOMAIN rt[d] : new[d][i] = rt[d][i]
      /\ new[d][Len(rt[d]) + 1] = r
  BY <1>1, <1>2
<1>4. \A i \in DOMAIN new[d] : i \in DOMAIN rt[d] \/ i = Len(rt[d]) + 1
  BY <1>3
<1>5. \A i \in DOMAIN rt[d] : rt[d][i].subn # r.subn
  BY DEF Route
<1>6. IsSeq(new[d])
  BY <1>3, SeqOf
<1>7. ASSUME NEW i \in DOMAIN new[d]
      PROVE  /\ RouteStar(d, new[d][i])
             /\ \A j \in DOMAIN new[d] : new[d][i].subn = new[d][j].subn => i = j
  BY <1>1, <1>3, <1>4, <1>5
<1>8. RoutesStar(new)
  BY <1>1, <1>2, <1>6, <1>7 DEF RoutesStar
<1>9. \A x \in Device : \A a : Finds(rt, x, a) => Finds(new, x, a)
  <2>. SUFFICES ASSUME NEW x \in Device, NEW a, Finds(rt, x, a)  PROVE Finds(new, x, a)
    OBVIOUS
  <2>1. CASE x = d
    <3>1. \A i \in DOMAIN rt[d] : i \in DOMAIN new[d]
      BY <1>3
    <3>. QED  BY <1>3, <2>1, <3>1 DEF Finds
  <2>2. CASE x # d
    BY <1>2, <2>2 DEF Finds
  <2>. QED  BY <2>1, <2>2
<1>10. \A a : a[1] = r.subn => Finds(new, d, a)
  <2>1. Len(rt[d]) + 1 \in DOMAIN new[d]
    BY <1>3
  <2>. QED  BY <1>3, <2>1 DEF Finds
<1>. QED  BY <1>8, <1>9, <1>10

\* A table without a route to some subnet has room for one.
LEMMA RouteRoom ==
  ASSUME Star, NEW rt, RoutesStar(rt), NEW d \in Device, NEW q \in Subnets, Route(rt, d, q) = {}
  PROVE  Len(rt[d]) < VNET_ROUTING_TABLE
<1>. DEFINE S == 1 .. Len(rt[d])
            T == Subnets \ {q}
            g == [i \in S |-> rt[d][i].subn]
<1>1. /\ rt[d] \in Seq(Range(rt[d])) /\ Len(rt[d]) \in Nat /\ DOMAIN rt[d] = S
      /\ \A i \in S : RouteStar(d, rt[d][i])
      /\ \A i, j \in S : rt[d][i].subn = rt[d][j].subn => i = j
  <2>1. IsSeq(rt[d])
    BY DEF RoutesStar
  <2>2. rt[d] \in Seq(Range(rt[d])) /\ Len(rt[d]) \in Nat /\ DOMAIN rt[d] = S
    BY <2>1 DEF IsSeq
  <2>. QED  BY <2>2 DEF RoutesStar
<1>2. VNET_ROUTING_TABLE \in Nat
  BY VNetConstants
<1>3. IsFiniteSet(S) /\ Cardinality(S) = Len(rt[d])
  BY <1>1, FS_Interval
<1>4. IsFiniteSet(T) /\ Cardinality(T) = Cardinality(Subnets) - 1 /\ Cardinality(Subnets) \in Nat
  BY FS_RemoveElement, FS_CardinalityType DEF Star
<1>5. Cardinality(Subnets) <= VNET_ROUTING_TABLE
  BY DEF Star
<1>6. \A i \in S : rt[d][i].subn \in T
  BY <1>1 DEF RouteStar, Route
<1>7. g \in [S -> T]
  BY <1>6
<1>8. \A i, j \in S : g[i] = g[j] => i = j
  BY <1>1
<1>. HIDE DEF S, T, g
<1>9. ~ (Cardinality(T) < Cardinality(S))
  BY <1>3, <1>4, <1>7, <1>8, FS_PigeonHole
<1>. QED  BY <1>1, <1>2, <1>3, <1>4, <1>5, <1>9

\* What a supernode learns from a frame is right, and then it finds its source.
LEMMA LearnStar ==
  ASSUME Star, RoutesStar(route), NEW d \in Device, NEW m \in Media(d), NEW msgs,
         NEW f, FrameStar(f, d, m, msgs), vNet_ParseFrame(d, f)
  PROVE  /\ RoutesStar(route')
         /\ \A x \in Device : \A a : Finds(route, x, a) => Finds(route', x, a)
         /\ Super(d) => \A a : a[1] = f.o_src[1] => Finds(route', d, a)
<1>. DEFINE r == [subn |-> f.o_src[1], dest |-> f.src]
            new == [route EXCEPT ![d] = Append(@, r)]
<1>1. PICK t \in Device :
        /\ Reaches(t, d, m) /\ f.src = Addr(t, m) /\ f.o_src \in Addresses
        /\ m = RADIO /\ vNet_GetMedia(f.o_src) = BUS => Super(t) /\ Direct(t, f.o_src)
        /\ m = BUS /\ Super(d) => Direct(d, f.o_src)
  BY DEF FrameStar
<1>2. t # d /\ m \in {RADIO, BUS} /\ m \in Media(t)
  BY <1>1, ReachFacts
<1>3. ASSUME Super(d), ~ Direct(d, f.o_src)
      PROVE  m = RADIO /\ vNet_GetMedia(f.o_src) = BUS /\ Super(t) /\ Direct(t, f.o_src) /\ Learns(d, f)
  <2>1. vNet_GetMedia(f.o_src) = BUS
    BY <1>1, <1>3, FindsFacts
  <2>2. m = RADIO
    BY <1>1, <1>2, <1>3
  <2>3. vNet_GetMedia(f.src) = RADIO /\ vNet_GetMedia(FirstOf(f.o_src[1])) = BUS
    BY <1>1, <1>2, <2>1, <2>2, OwnerFacts, MediaFacts
  <2>4. f.src # f.o_src /\ f.src # FirstOf(f.o_src[1])
    BY <2>1, <2>3, MediaFacts
  <2>. QED  BY <1>1, <2>1, <2>2, <2>4 DEF Learns
<1>4. r.subn = f.o_src[1] /\ r.dest = f.src
  OBVIOUS
<1>5. ASSUME Super(d)
      PROVE  RouteStar(d, r)
  <2>1. r.subn \in Subnets
    BY <1>1, <1>4 DEF Subnets
  <2>2. ASSUME NEW a \in Addresses, a[1] = r.subn, ~ Direct(d, a)
        PROVE  Super(t) /\ t # d /\ r.dest = Addr(t, RADIO) /\ Direct(t, a)
    <3>1. ~ Direct(d, f.o_src)
      BY <1>4, <2>2, DirectFacts
    <3>2. m = RADIO /\ Super(t) /\ Direct(t, f.o_src)
      BY <1>3, <1>5, <3>1
    <3>. QED  BY <1>1, <1>2, <1>4, <2>2, <3>2, DirectFacts
  <2>. QED  BY <2>1, <2>2 DEF RouteStar
<1>6. route' = IF /\ Super(d) /\ Learns(d, f) /\ Route(route, d, r.subn) = {}
                  /\ Len(route[d]) < VNET_ROUTING_TABLE
               THEN new ELSE route
  BY DEF vNet_ParseFrame
<1>. HIDE DEF r
<1>7. CASE Super(d) /\ Learns(d, f) /\ Route(route, d, r.subn) = {} /\ Len(route[d]) < VNET_ROUTING_TABLE
  <2>1. /\ DOMAIN route' = Device /\ route'[d] = Append(route[d], r)
        /\ \A x \in Device : x # d => route'[x] = route[x]
    <3>1. DOMAIN route = Device
      BY DEF RoutesStar
    <3>. QED  BY <1>6, <1>7, <3>1
  <2>2. RouteStar(d, r)
    BY <1>5, <1>7
  <2>. QED  BY <1>4, <1>7, <2>1, <2>2, RouteAdded
<1>8. CASE ~ (Super(d) /\ Learns(d, f) /\ Route(route, d, r.subn) = {} /\ Len(route[d]) < VNET_ROUTING_TABLE)
  <2>1. route' = route
    BY <1>6, <1>8
  <2>2. ASSUME Super(d)
        PROVE  Finds(route, d, f.o_src)
    <3>1. CASE Direct(d, f.o_src)
      BY <3>1 DEF Finds
    <3>2. CASE ~ Direct(d, f.o_src)
      <4>1. Route(route, d, r.subn) # {}
        <5>1. r.subn \in Subnets
          BY <1>1, <1>4 DEF Subnets
        <5>. QED  BY <1>3, <1>8, <2>2, <3>2, <5>1, RouteRoom
      <4>. QED  BY <1>4, <4>1 DEF Route, Finds
    <3>. QED  BY <3>1, <3>2
  <2>. QED  BY <2>1, <2>2, FindsFacts
<1>. QED  BY <1>7, <1>8

\* A frame is taken from an inbox: the others move up.
LEMMA TakenAt ==
  ASSUME Shaped, NEW d \in Device, NEW m \in Media(d), inbox[d][m] # << >>,
         NEW f, f = Head(inbox[d][m]), NEW b, b = Tail(inbox[d][m])
  PROVE  /\ 1 \in DOMAIN inbox[d][m] /\ f = inbox[d][m][1]
         /\ \A i \in DOMAIN inbox[d][m] :
              i \in Nat /\ (i = 1 \/ (i - 1 \in DOMAIN b /\ b[i - 1] = inbox[d][m][i]))
         /\ \A i \in DOMAIN b : /\ i \in Nat /\ i + 1 \in DOMAIN inbox[d][m]
                                /\ b[i] = inbox[d][m][i + 1]
<1>1. inbox[d][m] \in Seq(Range(inbox[d][m]))
  BY DEF Shaped, InboxesRight, IsSeq
<1>2. /\ Len(inbox[d][m]) \in Nat \ {0} /\ DOMAIN inbox[d][m] = 1 .. Len(inbox[d][m])
      /\ f = inbox[d][m][1]
  BY <1>1
<1>3. /\ DOMAIN b = 1 .. Len(inbox[d][m]) - 1
      /\ \A i \in 1 .. Len(inbox[d][m]) - 1 : b[i] = inbox[d][m][i + 1]
  BY <1>1
<1>4. ASSUME NEW i \in DOMAIN inbox[d][m]
      PROVE  i \in Nat /\ (i = 1 \/ (i - 1 \in DOMAIN b /\ b[i - 1] = inbox[d][m][i]))
  <2>1. i \in Nat /\ (i = 1 \/ (i - 1 \in 1 .. Len(inbox[d][m]) - 1 /\ (i - 1) + 1 = i))
    BY <1>2
  <2>2. i - 1 \in 1 .. Len(inbox[d][m]) - 1 => b[i - 1] = inbox[d][m][(i - 1) + 1]
    BY <1>3
  <2>. QED  BY <1>3, <2>1, <2>2
<1>5. \A i \in DOMAIN b : /\ i \in Nat /\ i + 1 \in DOMAIN inbox[d][m]
                          /\ b[i] = inbox[d][m][i + 1]
  BY <1>2, <1>3
<1>. QED  BY <1>2, <1>4, <1>5

\* Then what is on its way is as it was, and what it told is known.
LEMMA PopStar ==
  ASSUME Star, Shaped, StarInv(inbox, route, sent),
         NEW d \in Device, NEW m \in Media(d), inbox[d][m] # << >>,
         NEW f, f = Head(inbox[d][m]),
         NEW box, box[d][m] = Tail(inbox[d][m]),
         \A e \in Device : \A n \in Media(e) : e # d \/ n # m => box[e][n] = inbox[e][n],
         NEW rt, RoutesStar(rt),
         \A x \in Device : \A a : Finds(route, x, a) => Finds(rt, x, a),
         Super(d) => \A a : a[1] = f.o_src[1] => Finds(rt, d, a),
         NEW msgs, DOMAIN msgs = DOMAIN sent,
         \A k \in DOMAIN sent : msgs[k].dst = sent[k].dst,
         \A k \in DOMAIN sent : \A e \in Device : \A a \in msgs[k].as[e] :
           a \in sent[k].as[e] \/ (k = f.id /\ e = d /\ a = f.o_src)
  PROVE  /\ StarInv(box, rt, msgs)
         /\ \A k, a : Arrives(inbox, route, k, a) =>
              Arrives(box, rt, k, a) \/ (f.id = k /\ OnPath(inbox, route, d, m, 1, a))
<1>. DEFINE b == box[d][m]
<1>1. /\ 1 \in DOMAIN inbox[d][m] /\ f = inbox[d][m][1]
      /\ \A i \in DOMAIN inbox[d][m] :
           i \in Nat /\ (i = 1 \/ (i - 1 \in DOMAIN b /\ b[i - 1] = inbox[d][m][i]))
      /\ \A i \in DOMAIN b : /\ i \in Nat /\ i + 1 \in DOMAIN inbox[d][m]
                             /\ b[i] = inbox[d][m][i + 1]
  <2>1. b = Tail(inbox[d][m])
    OBVIOUS
  <2>. HIDE DEF b
  <2>. QED  BY <2>1, TakenAt
<1>. HIDE DEF b
<1>2. \A e \in Device : \A n \in Media(e) : \A i \in DOMAIN box[e][n] :
        \E j \in DOMAIN inbox[e][n] : box[e][n][i] = inbox[e][n][j]
  <2>. SUFFICES ASSUME NEW e \in Device, NEW n \in Media(e), NEW i \in DOMAIN box[e][n]
                PROVE  \E j \in DOMAIN inbox[e][n] : box[e][n][i] = inbox[e][n][j]
    OBVIOUS
  <2>1. CASE e = d /\ n = m
    BY <1>1, <2>1 DEF b
  <2>2. CASE e # d \/ n # m
    BY <2>2
  <2>. QED  BY <2>1, <2>2
<1>3. FramesStar(box, msgs)
  <2>1. \A g, e, n : FrameStar(g, e, n, sent) => FrameStar(g, e, n, msgs)
    BY DEF FrameStar
  <2>2. \A e \in Device : \A n \in Media(e) : \A i \in DOMAIN inbox[e][n] :
          FrameStar(inbox[e][n][i], e, n, sent)
    BY DEF StarInv, FramesStar
  <2>. QED  BY <1>2, <2>1, <2>2 DEF FramesStar
<1>4. FrameStar(f, d, m, sent)
  BY <1>1 DEF StarInv, FramesStar
<1>5. ASSUME NEW e \in Device, NEW n \in Media(e), NEW a, HeardOver(box, msgs, e, n, a)
      PROVE  HeardOver(inbox, sent, e, n, a)
  <2>1. CASE \E i \in DOMAIN box[e][n] : box[e][n][i].dst \in Broadcasts /\ box[e][n][i].o_src = a
    BY <1>2, <2>1 DEF HeardOver
  <2>2. CASE ~ Super(e) /\ KnownAs(msgs, e, a)
    <3>1. PICK k \in DOMAIN sent : sent[k].dst \in Broadcasts /\ a \in msgs[k].as[e]
      BY <2>2 DEF KnownAs
    <3>2. CASE a \in sent[k].as[e]
      BY <2>2, <3>1, <3>2 DEF HeardOver, KnownAs
    <3>3. CASE k = f.id /\ e = d /\ a = f.o_src
      <4>1. f.dst \in Broadcasts
        BY <1>4, <3>1, <3>3 DEF FrameStar
      <4>2. n = m
        BY <2>2, <3>3, SuperFacts
      <4>. QED  BY <1>1, <3>3, <4>1, <4>2 DEF HeardOver
    <3>. QED  BY <3>1, <3>2, <3>3
  <2>. QED  BY <1>5, <2>1, <2>2 DEF HeardOver
<1>6. ASSUME NEW x \in Device, NEW a, Super(x), WillFind(inbox, route, x, a)
      PROVE  WillFind(box, rt, x, a)
  <2>1. CASE Finds(route, x, a)
    BY <2>1 DEF WillFind
  <2>2. ASSUME NEW j \in DOMAIN inbox[x][RADIO], inbox[x][RADIO][j].o_src[1] = a[1]
        PROVE  WillFind(box, rt, x, a)
    <3>1. CASE x = d /\ m = RADIO /\ j = 1
      BY <1>1, <1>6, <2>2, <3>1 DEF WillFind
    <3>2. CASE x = d /\ m = RADIO /\ j # 1
      <4>1. j - 1 \in DOMAIN b /\ b[j - 1].o_src[1] = a[1]
        BY <1>1, <2>2, <3>2
      <4>2. box[x][RADIO] = b
        BY <3>2 DEF b
      <4>. QED  BY <4>1, <4>2 DEF WillFind
    <3>3. CASE x # d \/ m # RADIO
      <4>1. RADIO \in Media(x)
        BY <1>6, SuperFacts
      <4>2. box[x][RADIO] = inbox[x][RADIO]
        BY <3>3, <4>1
      <4>. QED  BY <2>2, <4>2 DEF WillFind
    <3>. QED  BY <3>1, <3>2, <3>3
  <2>. QED  BY <1>6, <2>1, <2>2 DEF WillFind
<1>7. PathsStar(box, rt, msgs)
  <2>1. ASSUME NEW x \in Device, NEW a, Super(x), KnownAs(msgs, x, a)
        PROVE  Finds(rt, x, a)
    <3>1. PICK k \in DOMAIN sent : sent[k].dst \in Broadcasts /\ a \in msgs[k].as[x]
      BY <2>1 DEF KnownAs
    <3>2. CASE a \in sent[k].as[x]
      <4>1. Finds(route, x, a)
        BY <2>1, <3>1, <3>2 DEF StarInv, PathsStar, KnownAs
      <4>. QED  BY <4>1
    <3>3. CASE k = f.id /\ x = d /\ a = f.o_src
      BY <2>1, <3>3
    <3>. QED  BY <3>1, <3>2, <3>3
  <2>2. ASSUME NEW e \in Device, NEW x \in Device, NEW a,
               RADIO \in Media(e), HeardOver(box, msgs, e, RADIO, a), Super(x)
        PROVE  WillFind(box, rt, x, a)
    <3>1. WillFind(inbox, route, x, a)
      BY <1>5, <2>2 DEF StarInv, PathsStar
    <3>. QED  BY <1>6, <2>2, <3>1
  <2>3. ASSUME NEW e \in Device, NEW s \in Device, NEW a,
               Super(s), Reaches(s, e, BUS), HeardOver(box, msgs, e, BUS, a)
        PROVE  Finds(rt, s, a)
    <3>1. BUS \in Media(e)
      BY <2>3, ReachFacts
    <3>2. Finds(route, s, a)
      BY <1>5, <2>3, <3>1 DEF StarInv, PathsStar
    <3>. QED  BY <3>2
  <2>. QED  BY <2>1, <2>2, <2>3 DEF PathsStar
<1>8. ASSUME NEW k, NEW a, Arrives(inbox, route, k, a)
      PROVE  Arrives(box, rt, k, a) \/ (f.id = k /\ OnPath(inbox, route, d, m, 1, a))
  <2>1. PICK x \in Device : \E n \in Media(x) : \E i \in DOMAIN inbox[x][n] :
          inbox[x][n][i].id = k /\ OnPath(inbox, route, x, n, i, a)
    BY <1>8 DEF Arrives
  <2>2. PICK n \in Media(x) : \E i \in DOMAIN inbox[x][n] :
          inbox[x][n][i].id = k /\ OnPath(inbox, route, x, n, i, a)
    BY <2>1
  <2>3. PICK i \in DOMAIN inbox[x][n] :
          inbox[x][n][i].id = k /\ OnPath(inbox, route, x, n, i, a)
    BY <2>2
  <2>4. CASE x = d /\ n = m /\ i = 1
    BY <1>1, <2>3, <2>4
  <2>5. CASE x = d /\ n = m /\ i # 1
    <3>1. i \in Nat /\ i - 1 \in DOMAIN b /\ b[i - 1].id = k
      BY <1>1, <2>3, <2>5
    <3>2. ASSUME Super(d), m = RADIO, FindsBefore(inbox, route, d, a, i)
          PROVE  FindsBefore(box, rt, d, a, i - 1)
      <4>1. CASE Finds(route, d, a)
        BY <4>1 DEF FindsBefore
      <4>2. ASSUME NEW j \in DOMAIN inbox[d][m], j < i, inbox[d][m][j].o_src[1] = a[1]
            PROVE  FindsBefore(box, rt, d, a, i - 1)
        <5>1. CASE j = 1
          BY <1>1, <3>2, <4>2, <5>1 DEF FindsBefore
        <5>2. CASE j # 1
          <6>1. /\ j \in Nat /\ j - 1 \in DOMAIN b /\ b[j - 1].o_src[1] = a[1]
            BY <1>1, <4>2, <5>2
          <6>2. j - 1 < i - 1
            BY <3>1, <4>2, <6>1
          <6>. QED  BY <3>2, <6>1, <6>2 DEF FindsBefore, b
        <5>. QED  BY <5>1, <5>2
      <4>. QED  BY <3>2, <4>1, <4>2 DEF FindsBefore
    <3>3. OnPath(box, rt, d, m, i - 1, a)
      BY <2>3, <2>5, <3>2 DEF OnPath
    <3>. QED  BY <3>1, <3>3 DEF Arrives, b
  <2>6. CASE x # d \/ n # m
    <3>1. box[x][n] = inbox[x][n]
      BY <2>6
    <3>2. n = RADIO /\ FindsBefore(inbox, route, x, a, i) => FindsBefore(box, rt, x, a, i)
      BY <3>1 DEF FindsBefore
    <3>3. OnPath(box, rt, x, n, i, a)
      BY <2>3, <3>2 DEF OnPath
    <3>. QED  BY <2>3, <3>1, <3>3 DEF Arrives
  <2>. QED  BY <2>4, <2>5, <2>6
<1>. QED  BY <1>3, <1>7, <1>8 DEF StarInv
-----------------------------------------------------------------------------
(* Links: where a frame is sent, and who hears it.                         *)

\* Whose frame it is that is heard, and what a frame to one address is.
LEMMA HeardFacts ==
  ASSUME NEW d, NEW frames, NEW e, NEW m, NEW f \in Heard(d, frames, e, m)
  PROVE  /\ Reaches(d, e, m) /\ f.src = Addr(d, m)
         /\ \E g \in frames : /\ g.media = m /\ g.to \in Broadcasts \cup {Addr(e, m)}
                              /\ g.dst = f.dst /\ g.o_src = f.o_src /\ g.id = f.id
<1>1. PICK g \in frames :
         /\ g.media = m /\ Reaches(d, e, m) /\ g.to \in Broadcasts \cup {Addr(e, m)}
         /\ f = [src |-> Addr(d, m), dst |-> g.dst, o_src |-> g.o_src, id |-> g.id]
  BY DEF Heard
<1>2. f.src = Addr(d, m) /\ f.dst = g.dst /\ f.o_src = g.o_src /\ f.id = g.id
  BY <1>1
<1>. QED  BY <1>1, <1>2

LEMMA UnicastFacts ==
  ASSUME NEW rt, NEW d, NEW a, NEW src, NEW id
  PROVE  /\ \A g \in Unicast(rt, d, a, src, id) :
              /\ g.to \in OutPath(rt, d, a) /\ g.media = vNet_GetMedia(g.to)
              /\ g.dst = a /\ g.o_src = src /\ g.id = id
         /\ \A to \in OutPath(rt, d, a) : \E g \in Unicast(rt, d, a, src, id) : g.to = to
<1>. DEFINE F(to) == [media |-> vNet_GetMedia(to), to |-> to, dst |-> a, o_src |-> src, id |-> id]
<1>1. Unicast(rt, d, a, src, id) = {F(to) : to \in OutPath(rt, d, a)}
  BY DEF Unicast
<1>2. \A to : /\ F(to).to = to /\ F(to).media = vNet_GetMedia(to)
             /\ F(to).dst = a /\ F(to).o_src = src /\ F(to).id = id
  OBVIOUS
<1>. HIDE DEF F
<1>. QED  BY <1>1, <1>2

\* Frames to one address are heard by the device that has the link address.
LEMMA HeardByLink ==
  ASSUME Star, NEW rt, NEW d \in Device, NEW a, NEW src, NEW id,
         NEW frames, frames \subseteq Unicast(rt, d, a, src, id),
         NEW e \in Device, NEW m \in Media(e), Reaches(d, e, m),
         NEW g \in frames, g.to = Addr(e, m)
  PROVE  Heard(d, frames, e, m) # {}
<1>1. g.media = m
  BY UnicastFacts, OwnerFacts
<1>2. g.to \in Broadcasts \cup {Addr(e, m)}
  OBVIOUS
<1>. QED  BY <1>1, <1>2 DEF Heard

\* Where frames for an address are sent.
LEMMA OutPathFacts ==
  ASSUME Star, NEW rt, RoutesStar(rt), NEW d \in Device, NEW a \in Addresses
  PROVE  /\ Direct(d, a) => OutPath(rt, d, a) = {a}
         /\ ~ Direct(d, a) /\ ~ Super(d) =>
              \E b \in nw.addr[d] : OutPath(rt, d, a) = {FirstOf(b[1])}
         /\ Super(d) /\ ~ Direct(d, a) /\ Finds(rt, d, a) =>
              \E y \in Device : /\ Super(y) /\ y # d /\ Direct(y, a)
                                /\ OutPath(rt, d, a) = {Addr(y, RADIO)}
         /\ Super(d) /\ ~ Direct(d, a) /\ ~ Finds(rt, d, a) =>
              OutPath(rt, d, a) \subseteq {FirstOf(a[1])}
                /\ \A to \in OutPath(rt, d, a) : vNet_GetMedia(a) \in Media(d)
<1>1. CASE Direct(d, a)
  BY <1>1 DEF OutPath
<1>2. CASE ~ Direct(d, a) /\ ~ Super(d)
  <2>1. OutPath(rt, d, a) = {FirstOf(b[1]) : b \in nw.addr[d]}
    BY <1>2 DEF OutPath
  <2>2. \E b \in nw.addr[d] : nw.addr[d] = {b}
    BY <1>2 DEF Star
  <2>. QED  BY <1>2, <2>1, <2>2
<1>3. CASE Super(d) /\ ~ Direct(d, a) /\ Finds(rt, d, a)
  <2>. DEFINE R == Route(rt, d, a[1])
  <2>1. R # {} /\ R \subseteq DOMAIN rt[d] /\ \A i \in R : rt[d][i].subn = a[1]
    BY <1>3 DEF Finds, Route
  <2>2. R \subseteq Nat
    <3>1. rt[d] \in Seq(Range(rt[d]))
      BY DEF RoutesStar, IsSeq
    <3>2. DOMAIN rt[d] = 1 .. Len(rt[d]) /\ Len(rt[d]) \in Nat
      BY <3>1
    <3>. QED  BY <2>1, <3>2
  <2>3. OutPath(rt, d, a) = {rt[d][Min(R)].dest}
    BY <1>3, <2>1 DEF OutPath
  <2>. HIDE DEF R
  <2>4. Min(R) \in R
    BY <2>1, <2>2, LeastElement DEF Min
  <2>5. RouteStar(d, rt[d][Min(R)]) /\ rt[d][Min(R)].subn = a[1]
    BY <2>1, <2>4 DEF RoutesStar
  <2>6. \E y \in Device : Super(y) /\ y # d /\ rt[d][Min(R)].dest = Addr(y, RADIO) /\ Direct(y, a)
    BY <1>3, <2>5, SuperFacts DEF RouteStar
  <2>. QED  BY <1>3, <2>3, <2>6
<1>4. CASE Super(d) /\ ~ Direct(d, a) /\ ~ Finds(rt, d, a)
  <2>1. Route(rt, d, a[1]) = {}
    BY <1>4 DEF Finds, Route
  <2>2. OutPath(rt, d, a) = {FirstOf(a[1]) : m \in Media(d) \cap {vNet_GetMedia(a)}}
    BY <1>4, <2>1 DEF OutPath
  <2>. QED  BY <1>4, <2>2
<1>. QED  BY <1>1, <1>2, <1>3, <1>4

\* A frame that is heard at a place from which it gets to its destination.
LEMMA ArrivesFrom ==
  ASSUME Star, NEW rt, NEW d \in Device, NEW a, NEW src, NEW id,
         NEW frames, frames \subseteq Unicast(rt, d, a, src, id),
         NEW box, NEW msgs, InboxesRight(box, msgs), NEW r, r = Transmit(d, frames, box),
         NEW e \in Device, NEW m \in Media(e), Reaches(d, e, m),
         NEW g \in frames, g.to = Addr(e, m),
         OnPath(r, rt, e, m, Len(box[e][m]) + 1, a)
  PROVE  Arrives(r, rt, id, a)
<1>1. Heard(d, frames, e, m) # {}
  BY HeardByLink
<1>2. IsSeq(box[e][m])
  BY DEF InboxesRight
<1>3. PICK i \in DOMAIN r[e][m] : i = Len(box[e][m]) + 1 /\ r[e][m][i] \in Heard(d, frames, e, m)
  BY <1>1, <1>2, TransmitAt
<1>4. r[e][m][i].id = id
  BY <1>3, HeardUnicast
<1>. QED  BY <1>3, <1>4 DEF Arrives

\* The supernode of a bus has a path to it over its radio.
LEMMA PathBySuper ==
  ASSUME Star, NEW a \in Addresses, vNet_GetMedia(a) = BUS,
         NEW y \in Device, Super(y), Direct(y, a), NEW box, NEW rt, NEW i
  PROVE  OnPath(box, rt, y, RADIO, i, a)
  BY MediaFacts DEF OnPath, MayRoute

\* A supernode passes a frame on.
LEMMA PassedStar ==
  ASSUME Star, NEW d \in Device, NEW m \in Media(d), Super(d), NEW rt, NEW box, NEW msgs,
         InboxesRight(box, msgs), StarInv(box, rt, msgs),
         NEW f, FrameStar(f, d, m, msgs), f.dst \in Addresses, f.dst # Addr(d, m),
         NEW passed,
         passed = {g \in Unicast(rt, d, f.dst, f.o_src, f.id) : Super(d) /\ MayRoute(m, g.to)},
         NEW r, r = Transmit(d, passed, box)
  PROVE  /\ StarInv(r, rt, msgs)
         /\ /\ d # Owner(f.dst)
            /\ (Direct(d, f.dst) /\ MayRoute(m, f.dst)) \/ (~ Direct(d, f.dst) /\ Finds(rt, d, f.dst))
            => Arrives(r, rt, f.id, f.dst)
<1>. DEFINE a == f.dst
            out == OutPath(rt, d, a)
<1>1. a \in Addresses /\ a \notin Broadcasts
  BY OwnerFacts
<1>2. RoutesStar(rt)
  BY DEF StarInv
<1>3. /\ passed \subseteq Unicast(rt, d, a, f.o_src, f.id)
      /\ \A to \in out : MayRoute(m, to) => \E g \in passed : g.to = to
      /\ \A g \in passed : g.to \in out
  BY UnicastFacts
<1>4. /\ Direct(d, a) => out = {a}
      /\ ~ Direct(d, a) => vNet_GetMedia(a) = BUS
      /\ ~ Direct(d, a) /\ Finds(rt, d, a) =>
              \E y \in Device : /\ Super(y) /\ y # d /\ Direct(y, a)
                                /\ out = {Addr(y, RADIO)}
      /\ ~ Direct(d, a) /\ ~ Finds(rt, d, a) => out \subseteq {FirstOf(a[1])}
  BY <1>1, <1>2, OutPathFacts, FindsFacts
<1>. HIDE DEF out, a
<1>5. PICK t \in Device :
        /\ Reaches(t, d, m) /\ f.o_src \in Addresses /\ f.id \in DOMAIN msgs
        /\ f.dst \notin Broadcasts => f.dst = msgs[f.id].dst
        /\ m = RADIO /\ vNet_GetMedia(f.o_src) = BUS =>
             f.dst \in Broadcasts \/ f.dst = Addr(d, RADIO)
               \/ (vNet_GetMedia(f.dst) = BUS /\ Direct(d, f.dst))
        /\ m = BUS /\ Super(d) => Direct(d, f.o_src)
  BY DEF FrameStar
<1>6. m \in {RADIO, BUS}
  BY <1>5, ReachFacts
<1>7. ASSUME NEW e \in Device, NEW n \in Media(e), NEW h \in Heard(d, passed, e, n)
      PROVE  FrameStar(h, e, n, msgs) /\ h.dst \notin Broadcasts
  <2>1. /\ Reaches(d, e, n) /\ h.src = Addr(d, n) /\ e # d /\ n \in {RADIO, BUS}
    BY <1>7, HeardFacts, ReachFacts
  <2>2. PICK g \in passed : /\ g.media = n /\ g.to \in Broadcasts \cup {Addr(e, n)}
                            /\ g.dst = h.dst /\ g.o_src = h.o_src /\ g.id = h.id
    BY <1>7, HeardFacts
  <2>3. /\ h.dst = a /\ h.o_src = f.o_src /\ h.id = f.id /\ n = vNet_GetMedia(g.to) /\ g.to \in out
    BY <1>3, <2>2, UnicastFacts
  <2>4. ASSUME n = RADIO, vNet_GetMedia(f.o_src) = BUS
        PROVE  /\ Direct(d, f.o_src)
               /\ h.dst = Addr(e, RADIO) \/ (vNet_GetMedia(h.dst) = BUS /\ Direct(e, h.dst))
    <3>1. CASE Direct(d, a)
      <4>1. g.to = a /\ vNet_GetMedia(a) = RADIO
        BY <1>4, <2>3, <2>4, <3>1
      <4>2. a = Addr(e, RADIO)
        BY <1>1, <2>2, <2>4, <4>1
      <4>3. m = BUS
        BY <1>1, <1>5, <1>6, <2>4, <4>1, MediaFacts DEF a
      <4>. QED  BY <1>5, <2>3, <4>2, <4>3
    <3>2. CASE ~ Direct(d, a)
      <4>1. Finds(rt, d, a)
        <5>1. g.to = FirstOf(a[1]) => vNet_GetMedia(g.to) = BUS
          BY <1>4, <3>2, MediaFacts
        <5>. QED  BY <1>4, <2>3, <2>4, <3>2, <5>1, MediaFacts
      <4>2. PICK y \in Device : Super(y) /\ Direct(y, a) /\ out = {Addr(y, RADIO)}
        BY <1>4, <3>2, <4>1
      <4>3. g.to = Addr(y, RADIO) /\ g.to \in Addresses /\ Owner(g.to) = y
        BY <2>3, <4>2, SuperFacts, OwnerFacts
      <4>4. g.to = Addr(e, RADIO)
        BY <2>2, <2>4, <4>3, OwnerFacts
      <4>5. y = e
        BY <2>4, <4>3, <4>4, OwnerFacts
      <4>6. Direct(d, f.o_src)
        <5>1. m # RADIO
          BY <1>1, <1>5, <2>4, <3>2 DEF a
        <5>. QED  BY <1>5, <1>6, <5>1
      <4>. QED  BY <1>4, <2>3, <3>2, <4>2, <4>5, <4>6
    <3>. QED  BY <3>1, <3>2
  <2>5. ~ (n = BUS /\ Super(e))
    BY <2>1, SuperFacts
  <2>6. h.dst \notin Broadcasts /\ h.dst # BRDC
    BY <1>1, <2>3, BroadcastsDiffer
  <2>7. h.dst = msgs[h.id].dst
    BY <1>1, <1>5, <2>3 DEF a
  <2>. QED  BY <1>5, <2>1, <2>3, <2>4, <2>5, <2>6, <2>7 DEF FrameStar
<1>8. StarInv(r, rt, msgs)
  BY <1>7, TransmitStar
<1>9. ASSUME d # Owner(a), Direct(d, a), MayRoute(m, a)
      PROVE  Arrives(r, rt, f.id, a)
  <2>. DEFINE e == Owner(a)
              n == vNet_GetMedia(a)
  <2>1. e \in Device /\ n \in Media(e) /\ Addr(e, n) = a
    BY <1>1, OwnerFacts
  <2>2. Reaches(d, e, n)
    BY <1>1, <1>9, DirectFacts
  <2>3. PICK g \in passed : g.to = Addr(e, n)
    BY <1>3, <1>4, <1>9, <2>1
  <2>4. \A i : OnPath(r, rt, e, n, i, a)
    BY DEF OnPath
  <2>5. passed \subseteq Unicast(rt, d, a, f.o_src, f.id)
    BY <1>3
  <2>. HIDE DEF e, n
  <2>. QED  BY <2>1, <2>2, <2>3, <2>4, <2>5, ArrivesFrom
<1>10. ASSUME ~ Direct(d, a), Finds(rt, d, a)
       PROVE  Arrives(r, rt, f.id, a)
  <2>1. PICK y \in Device : Super(y) /\ y # d /\ Direct(y, a) /\ out = {Addr(y, RADIO)}
    BY <1>4, <1>10
  <2>2. /\ RADIO \in Media(y) /\ Reaches(d, y, RADIO)
        /\ vNet_GetMedia(Addr(y, RADIO)) = RADIO
    BY <2>1, SuperFacts, ReachFacts, OwnerFacts
  <2>3. \E g \in passed : g.to = Addr(y, RADIO)
    BY <1>3, <2>1, <2>2 DEF MayRoute
  <2>4. \A i : OnPath(r, rt, y, RADIO, i, a)
    BY <1>1, <1>4, <1>10, <2>1, PathBySuper
  <2>. QED  BY <1>3, <2>1, <2>2, <2>3, <2>4, ArrivesFrom
<1>. QED  BY <1>8, <1>9, <1>10 DEF a

\* A supernode repeats a broadcast whose source it finds.
LEMMA RepeatedStar ==
  ASSUME Star, NEW d \in Device, NEW m \in Media(d), Super(d), NEW rt, NEW box, NEW msgs,
         InboxesRight(box, msgs), StarInv(box, rt, msgs),
         NEW f, FrameStar(f, d, m, msgs), f.dst \in {BRDC, wBRDC}, Finds(rt, d, f.o_src),
         NEW src, \A n \in Media(d) : src[n] = f.o_src,
         NEW frames, frames = OnAll(RepeatOn(d, m, f.dst), Repeated(f.dst), src, f.id),
         NEW r, r = Transmit(d, frames, box)
  PROVE  StarInv(r, rt, msgs)
<1>. DEFINE on == RepeatOn(d, m, f.dst)
            dst == Repeated(f.dst)
<1>1. on \subseteq Media(d) /\ (m \in on => f.dst = BRDC)
  BY DEF RepeatOn
<1>2. dst \in Broadcasts /\ dst # BRDC
  BY BroadcastsDiffer DEF Repeated
<1>3. frames = OnAll(on, dst, src, f.id)
  OBVIOUS
<1>. HIDE DEF on, dst
<1>4. PICK t \in Device :
        /\ Reaches(t, d, m) /\ f.o_src \in Addresses /\ f.id \in DOMAIN msgs
        /\ f.dst \in Broadcasts => msgs[f.id].dst \in Broadcasts
        /\ m = RADIO /\ vNet_GetMedia(f.o_src) = BUS => f.dst # BRDC
        /\ m = BUS /\ Super(d) => Direct(d, f.o_src)
  BY DEF FrameStar
<1>5. m \in {RADIO, BUS} /\ msgs[f.id].dst \in Broadcasts
  BY <1>4, ReachFacts, BroadcastsDiffer
<1>6. ASSUME NEW e \in Device, NEW n \in Media(e), NEW h \in Heard(d, frames, e, n)
      PROVE  /\ FrameStar(h, e, n, msgs)
             /\ h.dst \in Broadcasts /\ n = RADIO =>
                  \A x \in Device : Super(x) => WillFind(r, rt, x, h.o_src)
             /\ h.dst \in Broadcasts /\ n = BUS =>
                  \A s \in Device : Super(s) /\ Reaches(s, e, BUS) => Finds(rt, s, h.o_src)
  <2>1. /\ Reaches(d, e, n) /\ h.src = Addr(d, n) /\ e # d /\ n \in {RADIO, BUS}
    BY <1>6, HeardFacts, ReachFacts
  <2>2. h.id = f.id /\ h.dst = dst /\ h.o_src = f.o_src /\ n \in on
    <3>1. h.id = f.id /\ h.dst = dst /\ h.o_src = src[n] /\ n \in on
      BY <1>3, <1>6, HeardOnAll
    <3>. QED  BY <1>1, <3>1
  <2>3. n = RADIO /\ vNet_GetMedia(f.o_src) = BUS => Direct(d, f.o_src)
    BY <1>1, <1>4, <1>5, <2>2
  <2>4. ~ (n = BUS /\ Super(e))
    BY <2>1, SuperFacts
  <2>5. FrameStar(h, e, n, msgs)
    BY <1>2, <1>4, <1>5, <2>1, <2>2, <2>3, <2>4 DEF FrameStar
  <2>6. ASSUME n = RADIO, NEW x \in Device, Super(x)
        PROVE  WillFind(r, rt, x, h.o_src)
    <3>1. CASE x = d
      BY <2>2, <3>1 DEF WillFind
    <3>2. CASE x # d
      <4>1. RADIO \in Media(x) /\ Reaches(d, x, RADIO)
        BY <2>6, <3>2, SuperFacts, ReachFacts
      <4>2. Heard(d, frames, x, RADIO) # {} /\ IsSeq(box[x][RADIO])
        BY <1>3, <2>2, <2>6, <4>1, HeardOnAll DEF InboxesRight
      <4>3. PICK i \in DOMAIN r[x][RADIO] : r[x][RADIO][i] \in Heard(d, frames, x, RADIO)
        BY <4>1, <4>2, TransmitAt
      <4>4. r[x][RADIO][i].o_src = src[RADIO]
        BY <1>3, <4>3, HeardOnAll
      <4>5. src[RADIO] = f.o_src
        BY <1>1, <2>2, <2>6
      <4>. QED  BY <2>2, <4>3, <4>4, <4>5 DEF WillFind
    <3>. QED  BY <3>1, <3>2
  <2>7. ASSUME n = BUS, NEW s \in Device, Super(s), Reaches(s, e, BUS)
        PROVE  Finds(rt, s, h.o_src)
    <3>1. s = d
      BY <2>1, <2>7, ReachFacts DEF Star
    <3>. QED  BY <2>2, <3>1
  <2>. QED  BY <2>5, <2>6, <2>7
<1>. QED  BY <1>6, TransmitStar

\* A message more, of which no device has got a frame.
LEMMA MessageAdded ==
  ASSUME NEW box, NEW rt, NEW msgs, StarInv(box, rt, msgs),
         NEW next, DOMAIN msgs \subseteq DOMAIN next,
         \A k \in DOMAIN msgs : next[k] = msgs[k],
         \A k \in DOMAIN next : k \in DOMAIN msgs \/ \A e \in Device : next[k].as[e] = {}
  PROVE  StarInv(box, rt, next)
<1>1. \A e \in Device : \A a : KnownAs(next, e, a) => KnownAs(msgs, e, a)
  BY DEF KnownAs
<1>2. \A e \in Device : \A m, a : HeardOver(box, next, e, m, a) => HeardOver(box, msgs, e, m, a)
  BY <1>1 DEF HeardOver
<1>3. \A f, x, m : FrameStar(f, x, m, msgs) => FrameStar(f, x, m, next)
  BY DEF FrameStar
<1>4. FramesStar(box, next)
  BY <1>3 DEF StarInv, FramesStar
<1>5. PathsStar(box, rt, next)
  BY <1>1, <1>2 DEF StarInv, PathsStar
<1>. QED  BY <1>4, <1>5 DEF StarInv

\* What a device sends under its own address.
LEMMA OwnFrame ==
  ASSUME Star, NEW d \in Device, NEW e \in Device, NEW n \in Media(e), Reaches(d, e, n), NEW msgs,
         NEW f, f.src = Addr(d, n), f.o_src = Addr(d, n), f.id \in DOMAIN msgs,
         f.dst = msgs[f.id].dst
  PROVE  FrameStar(f, e, n, msgs)
<1>1. n \in Media(d) /\ n \in {RADIO, BUS}
  BY ReachFacts
<1>2. f.o_src \in Addresses /\ vNet_GetMedia(f.o_src) = n
  BY <1>1, OwnerFacts
<1>3. n = BUS => Direct(e, f.o_src)
  BY SuperFacts
<1>. QED  BY <1>1, <1>2, <1>3, MediaFacts DEF FrameStar

\* A new broadcast.
LEMMA BroadcastStar ==
  ASSUME Star, NEW d \in Device, NEW rt, NEW box, NEW msgs,
         InboxesRight(box, msgs), StarInv(box, rt, msgs),
         NEW id \in DOMAIN msgs, msgs[id].dst \in Broadcasts,
         NEW own, \A n \in Media(d) : own[n] = Addr(d, n),
         NEW frames, frames = OnAll(Media(d), msgs[id].dst, own, id),
         NEW r, r = Transmit(d, frames, box)
  PROVE  StarInv(r, rt, msgs)
<1>1. ASSUME NEW e \in Device, NEW n \in Media(e), NEW h \in Heard(d, frames, e, n)
      PROVE  /\ FrameStar(h, e, n, msgs)
             /\ h.dst \in Broadcasts /\ n = RADIO =>
                  \A x \in Device : Super(x) => WillFind(r, rt, x, h.o_src)
             /\ h.dst \in Broadcasts /\ n = BUS =>
                  \A s \in Device : Super(s) /\ Reaches(s, e, BUS) => Finds(rt, s, h.o_src)
  <2>1. Reaches(d, e, n) /\ h.src = Addr(d, n) /\ n \in Media(d)
    BY <1>1, HeardFacts, ReachFacts
  <2>2. h.id = id /\ h.dst = msgs[id].dst /\ h.o_src = Addr(d, n)
    BY <1>1, <2>1, HeardOnAll
  <2>3. FrameStar(h, e, n, msgs)
    BY <2>1, <2>2, OwnFrame
  <2>4. h.o_src \in Addresses /\ vNet_GetMedia(h.o_src) = n
    BY <2>1, <2>2, OwnerFacts
  <2>5. ASSUME n = RADIO, NEW x \in Device, Super(x)
        PROVE  WillFind(r, rt, x, h.o_src)
    BY <2>4, <2>5, SuperFacts, DirectFacts DEF WillFind, Finds
  <2>6. ASSUME n = BUS, NEW s \in Device, Super(s), Reaches(s, e, BUS)
        PROVE  Finds(rt, s, h.o_src)
    <3>1. Direct(e, h.o_src)
      BY <2>1, <2>2, <2>6, SuperFacts
    <3>2. Direct(s, h.o_src)
      BY <2>4, <2>6, <3>1, SuperFacts
    <3>. QED  BY <3>2 DEF Finds
  <2>. QED  BY <2>3, <2>5, <2>6
<1>. QED  BY <1>1, TransmitStar

\* A new message to an address that the device knows.
LEMMA SentStar ==
  ASSUME Star, NEW d \in Device, NEW rt, NEW box, NEW msgs,
         InboxesRight(box, msgs), StarInv(box, rt, msgs),
         NEW a \in Addresses, KnownAs(msgs, d, a), a \notin nw.addr[d],
         NEW id \in DOMAIN msgs, msgs[id].dst = a,
         NEW src,
         (\E b \in nw.addr[d] : \E to \in OutPath(rt, d, a) : vNet_GetMedia(to) = vNet_GetMedia(b))
           => /\ src \in nw.addr[d]
              /\ \E to \in OutPath(rt, d, a) : vNet_GetMedia(to) = vNet_GetMedia(src),
         NEW frames, frames = Unicast(rt, d, a, src, id),
         NEW r, r = Transmit(d, frames, box)
  PROVE  StarInv(r, rt, msgs) /\ Arrives(r, rt, id, a)
<1>. DEFINE out == OutPath(rt, d, a)
<1>1. RoutesStar(rt)
  BY DEF StarInv
<1>2. a \notin Broadcasts /\ d # Owner(a) /\ Owner(a) \in Device
  BY OwnerFacts
<1>3. /\ frames \subseteq Unicast(rt, d, a, src, id)
      /\ \A to \in out : \E g \in frames : g.to = to
      /\ \A g \in frames : /\ g.to \in out /\ g.media = vNet_GetMedia(g.to)
                            /\ g.dst = a /\ g.o_src = src /\ g.id = id
  <2>1. frames = Unicast(rt, d, a, src, id)
    OBVIOUS
  <2>2. /\ \A to \in out : \E g \in Unicast(rt, d, a, src, id) : g.to = to
        /\ \A g \in Unicast(rt, d, a, src, id) :
             /\ g.to \in out /\ g.media = vNet_GetMedia(g.to)
             /\ g.dst = a /\ g.o_src = src /\ g.id = id
    BY UnicastFacts
  <2>. HIDE DEF out
  <2>. QED  BY <2>1, <2>2, Zenon
\* The first link, to a device that has the link address.
<1>4. \E e \in Device : \E n \in Media(e) :
        /\ Reaches(d, e, n) /\ out = {Addr(e, n)}
        /\ OnPath(r, rt, e, n, Len(box[e][n]) + 1, a)
  <2>1. CASE Direct(d, a)
    <3>. DEFINE e == Owner(a)
                n == vNet_GetMedia(a)
    <3>1. n \in Media(e) /\ Addr(e, n) = a
      BY OwnerFacts
    <3>2. Reaches(d, e, n) /\ out = {Addr(e, n)}
      BY <1>1, <1>2, <2>1, <3>1, DirectFacts, OutPathFacts
    <3>3. OnPath(r, rt, e, n, Len(box[e][n]) + 1, a)
      BY DEF OnPath
    <3>. HIDE DEF e, n
    <3>4. e \in Device
      BY <1>2 DEF e
    <3>. QED  BY <3>1, <3>2, <3>3, <3>4
  <2>2. CASE ~ Direct(d, a) /\ Super(d)
    <3>1. Finds(rt, d, a) /\ vNet_GetMedia(a) = BUS
      BY <2>2, FindsFacts DEF StarInv, PathsStar
    <3>2. PICK y \in Device : Super(y) /\ y # d /\ Direct(y, a) /\ out = {Addr(y, RADIO)}
      BY <1>1, <2>2, <3>1, OutPathFacts
    <3>3. RADIO \in Media(y) /\ Reaches(d, y, RADIO)
      BY <2>2, <3>2, SuperFacts, ReachFacts
    <3>4. OnPath(r, rt, y, RADIO, Len(box[y][RADIO]) + 1, a)
      BY <3>1, <3>2, PathBySuper
    <3>. QED  BY <3>2, <3>3, <3>4
  <2>3. CASE ~ Direct(d, a) /\ ~ Super(d)
    <3>1. PICK b \in nw.addr[d] : out = {FirstOf(b[1])}
      BY <1>1, <2>3, OutPathFacts
    <3>. DEFINE s == Owner(FirstOf(b[1]))
                n == vNet_GetMedia(b)
    <3>2. /\ s \in Device /\ Super(s) /\ n \in Media(s) /\ Addr(s, n) = FirstOf(b[1])
          /\ Reaches(d, s, n)
      BY <2>3, FirstFacts
    <3>. HIDE DEF s, n
    <3>3. n \in {RADIO, BUS} /\ n \in Media(d)
      BY <3>2, ReachFacts
    <3>4. Reaches(s, d, n)
      BY <3>2, <3>3, ReachFacts
    <3>5. IsSeq(box[s][n])
      BY <3>2 DEF InboxesRight
    <3>6. CASE s = Owner(a) \/ Direct(s, a)
      <4>1. s # Owner(a) => MayRoute(n, a)
        <5>1. n = BUS /\ vNet_GetMedia(a) = BUS => ~ Direct(s, a)
          BY <2>3, <3>2, <3>4, SuperFacts
        <5>2. vNet_GetMedia(a) \in {RADIO, BUS}
          BY MediaFacts
        <5>3. s # Owner(a) => Direct(s, a)
          BY <3>6
        <5>4. vNet_GetMedia(a) = RADIO \/ vNet_GetMedia(a) # n \/ ~ Direct(s, a)
          BY <3>3, <5>1, <5>2
        <5>. QED  BY <5>3, <5>4 DEF MayRoute
      <4>2. OnPath(r, rt, s, n, Len(box[s][n]) + 1, a)
        BY <3>2, <3>6, <4>1 DEF OnPath
      <4>. QED  BY <3>1, <3>2, <4>2
    <3>7. CASE s # Owner(a) /\ ~ Direct(s, a)
      <4>1. HeardOver(box, msgs, d, n, a)
        BY <2>3 DEF HeardOver
      <4>2. CASE n = RADIO
        <5>1. WillFind(box, rt, s, a)
          BY <3>2, <3>3, <4>1, <4>2 DEF StarInv, PathsStar
        <5>2. /\ Len(box[s][RADIO]) \in Nat /\ DOMAIN box[s][RADIO] = 1 .. Len(box[s][RADIO])
              /\ \A j \in DOMAIN box[s][RADIO] : j \in DOMAIN r[s][RADIO] /\ r[s][RADIO][j] = box[s][RADIO][j]
          BY <3>2, <3>5, <4>2, TransmitAt
        <5>3. FindsBefore(r, rt, s, a, Len(box[s][RADIO]) + 1)
          <6>1. CASE Finds(rt, s, a)
            BY <6>1 DEF FindsBefore
          <6>2. ASSUME NEW j \in DOMAIN box[s][RADIO], box[s][RADIO][j].o_src[1] = a[1]
                PROVE  FindsBefore(r, rt, s, a, Len(box[s][RADIO]) + 1)
            <7>1. j < Len(box[s][RADIO]) + 1
              BY <5>2
            <7>. QED  BY <5>2, <6>2, <7>1 DEF FindsBefore
          <6>. QED  BY <5>1, <6>1, <6>2 DEF WillFind
        <5>4. OnPath(r, rt, s, n, Len(box[s][n]) + 1, a)
          BY <3>2, <3>7, <4>2, <5>3 DEF OnPath
        <5>. QED  BY <3>1, <3>2, <5>4
      <4>3. CASE n = BUS
        <5>1. Finds(rt, s, a)
          BY <3>2, <3>4, <4>1, <4>3 DEF StarInv, PathsStar
        <5>2. OnPath(r, rt, s, n, Len(box[s][n]) + 1, a)
          BY <3>2, <3>7, <4>3, <5>1, MediaFacts DEF OnPath
        <5>. QED  BY <3>1, <3>2, <5>2
      <4>. QED  BY <3>3, <4>2, <4>3
    <3>. QED  BY <3>6, <3>7
  <2>. QED  BY <2>1, <2>2, <2>3
<1>5. PICK e \in Device : \E n \in Media(e) :
        /\ Reaches(d, e, n) /\ out = {Addr(e, n)}
        /\ OnPath(r, rt, e, n, Len(box[e][n]) + 1, a)
  BY <1>4
<1>6. PICK n \in Media(e) :
        /\ Reaches(d, e, n) /\ out = {Addr(e, n)}
        /\ OnPath(r, rt, e, n, Len(box[e][n]) + 1, a)
  BY <1>5
<1>. HIDE DEF out
<1>7. n \in Media(d) /\ src = Addr(d, n)
  <2>1. n \in Media(d) /\ vNet_GetMedia(Addr(e, n)) = n
    BY <1>6, ReachFacts, OwnerFacts
  <2>2. \E b \in nw.addr[d] : \E to \in out : vNet_GetMedia(to) = vNet_GetMedia(b)
    <3>1. Addr(d, n) \in nw.addr[d] /\ vNet_GetMedia(Addr(d, n)) = n
      BY <2>1, OwnerFacts
    <3>. QED  BY <1>6, <2>1, <3>1
  <2>3. src \in nw.addr[d] /\ \E to \in out : vNet_GetMedia(to) = vNet_GetMedia(src)
    BY <2>2 DEF out
  <2>4. vNet_GetMedia(src) = n
    BY <1>6, <2>1, <2>3
  <2>. QED  BY <2>1, <2>3, <2>4, OwnerFacts
<1>8. \E g \in frames : g.to = Addr(e, n)
  BY <1>3, <1>6
<1>9. Arrives(r, rt, id, a)
  BY <1>3, <1>6, <1>8, ArrivesFrom
<1>10. ASSUME NEW x \in Device, NEW k \in Media(x), NEW h \in Heard(d, frames, x, k)
       PROVE  FrameStar(h, x, k, msgs) /\ h.dst \notin Broadcasts
  <2>1. Reaches(d, x, k) /\ h.src = Addr(d, k)
    BY <1>10, HeardFacts
  <2>2. PICK g \in frames : g.media = k /\ g.dst = h.dst /\ g.o_src = h.o_src /\ g.id = h.id
    BY <1>10, HeardFacts
  <2>3. /\ g.to \in out /\ k = vNet_GetMedia(g.to)
        /\ h.dst = a /\ h.o_src = src /\ h.id = id
    BY <1>3, <2>2
  <2>4. k = n
    BY <1>6, <2>3, OwnerFacts
  <2>. QED  BY <1>2, <1>7, <2>1, <2>3, <2>4, OwnFrame
<1>11. StarInv(r, rt, msgs)
  BY <1>10, TransmitStar
<1>. QED  BY <1>9, <1>11
-----------------------------------------------------------------------------
(* The steps.                                                              *)

\* A new message leaves the others as they were.
LEMMA MessageStar ==
  ASSUME Star, Shaped, StarInv(inbox, route, sent), RepliesStar(inbox, route, sent, got),
         NEW s, MessageRight(s), \A e \in Device : s.as[e] = {},
         sent' = Append(sent, s), got' = Append(got, {}), NEW id, id = Len(sent) + 1
  PROVE  /\ InboxesRight(inbox, sent') /\ StarInv(inbox, route, sent')
         /\ id \in DOMAIN sent' /\ sent'[id] = s
         /\ \A k \in DOMAIN sent : k \in DOMAIN sent' /\ sent'[k] = sent[k]
         /\ \A r : /\ \A k, a : Arrives(inbox, route, k, a) => Arrives(r, route, k, a)
                   /\ s.dst \notin Broadcasts => s.dst \in Addresses /\ Arrives(r, route, id, s.dst)
                   => RepliesStar(r, route, sent', got')
<1>1. /\ DOMAIN sent = 1 .. Len(sent) /\ Len(sent) \in Nat
      /\ DOMAIN sent' = 1 .. Len(sent) + 1
      /\ sent'[id] = s
      /\ \A k \in DOMAIN sent : sent'[k] = sent[k] /\ got'[k] = got[k]
  BY NewMessage
<1>2. id \in DOMAIN sent' /\ \A k \in DOMAIN sent' : k \in DOMAIN sent \/ k = id
  BY <1>1
<1>3. DOMAIN sent \subseteq DOMAIN sent'
  BY <1>1
<1>4. got'[id] = {}
  <2>1. got \in Seq(Range(got) \cup {{}}) /\ Len(got) = Len(sent)
    BY DEF Shaped, IsSeq
  <2>2. Append(got, {})[Len(got) + 1] = {}
    BY <2>1
  <2>. QED  BY <2>1, <2>2
<1>5. InboxesRight(inbox, sent')
  BY <1>1, <1>3 DEF Shaped, InboxesRight, FrameRight
<1>6. StarInv(inbox, route, sent')
  BY <1>1, <1>2, <1>3, MessageAdded
<1>7. ASSUME NEW r, \A k, a : Arrives(inbox, route, k, a) => Arrives(r, route, k, a),
             s.dst \notin Broadcasts => s.dst \in Addresses /\ Arrives(r, route, id, s.dst)
      PROVE  RepliesStar(r, route, sent', got')
  <2>1. ASSUME NEW k \in DOMAIN sent, sent'[k].dst \notin Broadcasts
        PROVE  /\ sent'[k].dst \in Addresses
               /\ got'[k] \subseteq {Owner(sent'[k].dst)}
               /\ \/ Arrived(sent', got', k, Owner(sent'[k].dst))
                  \/ Arrives(r, route, k, sent'[k].dst)
    <3>1. sent'[k] = sent[k] /\ got'[k] = got[k]
      BY <1>1
    <3>2. /\ sent[k].dst \in Addresses
          /\ got[k] \subseteq {Owner(sent[k].dst)}
          /\ \/ Arrived(sent, got, k, Owner(sent[k].dst))
             \/ Arrives(inbox, route, k, sent[k].dst)
      BY <2>1, <3>1 DEF RepliesStar
    <3>. QED  BY <1>7, <3>1, <3>2 DEF Arrived
  <2>2. ASSUME sent'[id].dst \notin Broadcasts
        PROVE  /\ sent'[id].dst \in Addresses
               /\ got'[id] \subseteq {Owner(sent'[id].dst)}
               /\ Arrives(r, route, id, sent'[id].dst)
    BY <1>1, <1>4, <1>7, <2>2
  <2>. QED  BY <1>2, <2>1, <2>2 DEF RepliesStar
<1>. QED  BY <1>1, <1>2, <1>3, <1>5, <1>6, <1>7

LEMMA SendBroadcastStar ==
  ASSUME Star, Shaped, StarInv(inbox, route, sent), RepliesStar(inbox, route, sent, got),
         NEW d \in Device, NEW dst \in Broadcasts, vNet_SendBroadcast(d, dst)
  PROVE  StarInv(inbox', route, sent') /\ RepliesStar(inbox', route, sent', got')
<1>. DEFINE id == Len(sent) + 1
            own == [m \in Media(d) |-> Addr(d, m)]
            s == [from |-> d, dst |-> dst, as |-> [e \in Device |-> {}]]
            frames == OnAll(Media(d), dst, own, id)
<1>1. /\ inbox' = Transmit(d, frames, inbox)
      /\ sent' = Append(sent, s) /\ got' = Append(got, {})
  BY DEF vNet_SendBroadcast
<1>2. MessageRight(s) /\ s.dst = dst /\ \A e \in Device : s.as[e] = {}
  BY DEF MessageRight
<1>3. id = Len(sent) + 1 /\ \A n \in Media(d) : own[n] = Addr(d, n)
  OBVIOUS
<1>4. frames = OnAll(Media(d), dst, own, id)
  OBVIOUS
<1>. HIDE DEF s, id, own, frames
<1>5. /\ InboxesRight(inbox, sent') /\ StarInv(inbox, route, sent')
      /\ id \in DOMAIN sent' /\ sent'[id] = s
      /\ \A r : /\ \A k, a : Arrives(inbox, route, k, a) => Arrives(r, route, k, a)
                /\ s.dst \notin Broadcasts => s.dst \in Addresses /\ Arrives(r, route, id, s.dst)
                => RepliesStar(r, route, sent', got')
  BY <1>1, <1>2, <1>3, MessageStar
<1>6. StarInv(inbox', route, sent')
  <2>1. sent'[id].dst = dst
    BY <1>2, <1>5
  <2>. QED  BY <1>1, <1>3, <1>4, <1>5, <2>1, BroadcastStar
<1>7. \A k, a : Arrives(inbox, route, k, a) => Arrives(inbox', route, k, a)
  BY <1>1, <1>5, TransmitKeeps
<1>. QED  BY <1>2, <1>5, <1>6, <1>7

LEMMA SendToStar ==
  ASSUME Star, Shaped, StarInv(inbox, route, sent), RepliesStar(inbox, route, sent, got),
         NEW d \in Device, NEW a \in Known(d), vNet_Send(d, a)
  PROVE  StarInv(inbox', route, sent') /\ RepliesStar(inbox', route, sent', got')
<1>. DEFINE id == Len(sent) + 1
            out == OutPath(route, d, a)
            src == CHOOSE b \in nw.addr[d] : \E to \in out : vNet_GetMedia(to) = vNet_GetMedia(b)
            s == [from |-> d, dst |-> a, as |-> [e \in Device |-> {}]]
            frames == Unicast(route, d, a, src, id)
<1>1. /\ inbox' = Transmit(d, frames, inbox) /\ a \notin nw.addr[d]
      /\ sent' = Append(sent, s) /\ got' = Append(got, {})
  <2>1. out = {} => frames = {}
    BY DEF Unicast
  <2>2. /\ inbox' = Transmit(d, IF out = {} THEN {} ELSE frames, inbox) /\ a \notin nw.addr[d]
        /\ sent' = Append(sent, s) /\ got' = Append(got, {})
    BY DEF vNet_Send
  <2>. HIDE DEF out, frames, s
  <2>. QED  BY <2>1, <2>2
<1>2. MessageRight(s) /\ s.dst = a /\ \A e \in Device : s.as[e] = {}
  BY DEF MessageRight
<1>3. id = Len(sent) + 1
  OBVIOUS
<1>4. frames = Unicast(route, d, a, src, id)
  OBVIOUS
<1>5. (\E b \in nw.addr[d] : \E to \in OutPath(route, d, a) : vNet_GetMedia(to) = vNet_GetMedia(b))
        => /\ src \in nw.addr[d]
           /\ \E to \in OutPath(route, d, a) : vNet_GetMedia(to) = vNet_GetMedia(src)
  OBVIOUS
<1>. HIDE DEF s, id, src, frames, out
<1>6. /\ InboxesRight(inbox, sent') /\ StarInv(inbox, route, sent')
      /\ id \in DOMAIN sent' /\ sent'[id] = s
      /\ \A k \in DOMAIN sent : k \in DOMAIN sent' /\ sent'[k] = sent[k]
      /\ \A r : /\ \A k, b : Arrives(inbox, route, k, b) => Arrives(r, route, k, b)
                /\ s.dst \notin Broadcasts => s.dst \in Addresses /\ Arrives(r, route, id, s.dst)
                => RepliesStar(r, route, sent', got')
  BY <1>1, <1>2, <1>3, MessageStar
<1>7. a \in Addresses /\ KnownAs(sent', d, a)
  <2>1. PICK k \in DOMAIN sent : sent[k].dst \in Broadcasts /\ a \in sent[k].as[d]
    BY DEF Known
  <2>2. a \in Addresses
    BY <2>1 DEF Shaped, MessageRight
  <2>. QED  BY <1>6, <2>1, <2>2 DEF KnownAs
<1>8. StarInv(inbox', route, sent') /\ Arrives(inbox', route, id, a)
  <2>1. sent'[id].dst = a
    BY <1>2, <1>6
  <2>. QED  BY <1>1, <1>4, <1>5, <1>6, <1>7, <2>1, SentStar
<1>9. \A k, b : Arrives(inbox, route, k, b) => Arrives(inbox', route, k, b)
  BY <1>1, <1>6, TransmitKeeps
<1>. QED  BY <1>2, <1>6, <1>7, <1>8, <1>9

\* The source is noted for the device and the message, nothing else.
LEMMA NotedAt ==
  ASSUME Shaped, NEW d \in Device, NEW m, vNet_RetrieveData(d, m),
         NEW f, f = Head(inbox[d][m]), f.id \in DOMAIN sent
  PROVE  /\ sent'[f.id].as[d] # {}
         /\ \A k \in DOMAIN sent : \A e \in Device :
              /\ \A a \in sent[k].as[e] : a \in sent'[k].as[e]
              /\ \A a \in sent'[k].as[e] :
                   a \in sent[k].as[e] \/ (k = f.id /\ e = d /\ a = f.o_src)
<1>. DEFINE new == sent[f.id].as[d] \cup {f.o_src}
            as == [sent[f.id].as EXCEPT ![d] = new]
            s == [sent[f.id] EXCEPT !.as = as]
<1>1. sent' = [sent EXCEPT ![f.id] = s]
  BY DEF vNet_RetrieveData
<1>2. DOMAIN sent[f.id] = {"from", "dst", "as"} /\ DOMAIN sent[f.id].as = Device
  BY DEF Shaped, MessageRight
<1>3. s.as = as
  BY <1>2
<1>4. as[d] = new /\ \A e \in Device : e # d => as[e] = sent[f.id].as[e]
  BY <1>2
<1>5. /\ \A a \in sent[f.id].as[d] : a \in new
      /\ \A a \in new : a \in sent[f.id].as[d] \/ a = f.o_src
      /\ f.o_src \in new
  OBVIOUS
<1>. HIDE DEF s, as, new
<1>6. sent'[f.id].as = as /\ \A k \in DOMAIN sent : k # f.id => sent'[k] = sent[k]
  BY <1>1, <1>3
<1>7. ASSUME NEW k \in DOMAIN sent, NEW e \in Device
      PROVE  /\ \A a \in sent[k].as[e] : a \in sent'[k].as[e]
             /\ \A a \in sent'[k].as[e] :
                  a \in sent[k].as[e] \/ (k = f.id /\ e = d /\ a = f.o_src)
  <2>1. CASE k # f.id
    BY <1>6, <2>1
  <2>2. CASE k = f.id /\ e # d
    BY <1>4, <1>6, <2>2
  <2>3. CASE k = f.id /\ e = d
    BY <1>4, <1>5, <1>6, <2>3
  <2>. QED  BY <2>1, <2>2, <2>3
<1>8. sent'[f.id].as[d] # {}
  BY <1>4, <1>5, <1>6
<1>. QED  BY <1>7, <1>8

LEMMA RetrieveStar ==
  ASSUME Star, Shaped, StarInv(inbox, route, sent), RepliesStar(inbox, route, sent, got),
         NEW d \in Device, NEW m \in Media(d), vNet_RetrieveData(d, m)
  PROVE  StarInv(inbox', route', sent') /\ RepliesStar(inbox', route', sent', got')
<1>. DEFINE f == Head(inbox[d][m])
            box == [inbox EXCEPT ![d][m] = Tail(@)]
            src == [x \in Media(d) |-> f.o_src]
            frames == OnAll(RepeatOn(d, m, f.dst), Repeated(f.dst), src, f.id)
            passed == {g \in Unicast(route', d, f.dst, f.o_src, f.id) : Super(d) /\ MayRoute(m, g.to)}
<1>1. /\ inbox[d][m] # << >> /\ vNet_ParseFrame(d, f)
      /\ sent' = [sent EXCEPT ![f.id].as[d] = @ \cup {f.o_src}]
      /\ vNet_RoutingBridging(d, m, f, box)
  BY DEF vNet_RetrieveData
<1>2. \/ /\ f.dst = Addr(d, m) \/ f.dst = nBRDC \/ (f.dst \in Broadcasts /\ ~Super(d))
         /\ inbox' = box /\ got' = [got EXCEPT ![f.id] = @ \cup {d}]
      \/ /\ f.dst \in {BRDC, wBRDC} /\ Super(d)
         /\ inbox' = Transmit(d, frames, box) /\ got' = [got EXCEPT ![f.id] = @ \cup {d}]
      \/ /\ f.dst \notin Broadcasts \cup {Addr(d, m)}
         /\ inbox' = Transmit(d, passed, box) /\ UNCHANGED got
  BY <1>1 DEF vNet_RoutingBridging, Process
<1>3. \A n \in Media(d) : src[n] = f.o_src
  OBVIOUS
<1>4. /\ f = Head(inbox[d][m])
      /\ frames = OnAll(RepeatOn(d, m, f.dst), Repeated(f.dst), src, f.id)
      /\ passed = {g \in Unicast(route', d, f.dst, f.o_src, f.id) : Super(d) /\ MayRoute(m, g.to)}
  OBVIOUS
<1>5. /\ DOMAIN box = Device /\ \A e \in Device : DOMAIN box[e] = Media(e)
      /\ \A e \in Device : \A n \in Media(e) :
           box[e][n] = IF e = d /\ n = m THEN Tail(inbox[d][m]) ELSE inbox[e][n]
  <2>1. DOMAIN inbox = Device /\ \A e \in Device : DOMAIN inbox[e] = Media(e)
    BY DEF Shaped, InboxesRight
  <2>. QED  BY <2>1
<1>. HIDE DEF f, box, src, frames, passed
<1>6. FrameStar(f, d, m, sent)
  <2>1. inbox[d][m] # << >>
    BY <1>1
  <2>2. f = Head(inbox[d][m])
    BY <1>4
  <2>3. PICK b : b = Tail(inbox[d][m])
    OBVIOUS
  <2>4. 1 \in DOMAIN inbox[d][m] /\ f = inbox[d][m][1]
    BY <2>1, <2>2, <2>3, TakenAt
  <2>. QED  BY <2>4 DEF StarInv, FramesStar
<1>7. FrameRight(f, sent) /\ InboxesRight(box, sent)
  <2>1. inbox[d][m] # << >>
    BY <1>1
  <2>2. f = Head(inbox[d][m])
    BY <1>4
  <2>. QED  BY <1>5, <2>1, <2>2, FrameTaken
<1>8. /\ f.id \in DOMAIN sent
      /\ f.dst \in Broadcasts => sent[f.id].dst \in Broadcasts
      /\ f.dst \notin Broadcasts => f.dst = sent[f.id].dst
  BY <1>6 DEF FrameStar
<1>9. /\ DOMAIN sent' = DOMAIN sent
      /\ \A k \in DOMAIN sent : sent'[k].dst = sent[k].dst
  BY <1>1, <1>7, SourceNoted
<1>10. /\ sent'[f.id].as[d] # {}
       /\ \A k \in DOMAIN sent : \A e \in Device :
            /\ \A a \in sent[k].as[e] : a \in sent'[k].as[e]
            /\ \A a \in sent'[k].as[e] :
                 a \in sent[k].as[e] \/ (k = f.id /\ e = d /\ a = f.o_src)
  <2>1. f = Head(inbox[d][m]) /\ f.id \in DOMAIN sent
    BY <1>4, <1>8
  <2>. QED  BY <2>1, NotedAt
<1>11. FrameStar(f, d, m, sent')
  BY <1>6, <1>9 DEF FrameStar
<1>12. InboxesRight(box, sent')
  BY <1>7, <1>9 DEF InboxesRight, FrameRight
<1>13. /\ RoutesStar(route')
       /\ \A x \in Device : \A a : Finds(route, x, a) => Finds(route', x, a)
       /\ Super(d) => \A a : a[1] = f.o_src[1] => Finds(route', d, a)
  <2>1. RoutesStar(route)
    BY DEF StarInv
  <2>. QED  BY <1>1, <1>6, <2>1, LearnStar
<1>14. /\ StarInv(box, route', sent')
       /\ \A k, a : Arrives(inbox, route, k, a) =>
            Arrives(box, route', k, a) \/ (f.id = k /\ OnPath(inbox, route, d, m, 1, a))
  <2>1. /\ box[d][m] = Tail(inbox[d][m])
        /\ \A e \in Device : \A n \in Media(e) : e # d \/ n # m => box[e][n] = inbox[e][n]
    BY <1>5
  <2>2. \A k \in DOMAIN sent : \A e \in Device : \A a \in sent'[k].as[e] :
          a \in sent[k].as[e] \/ (k = f.id /\ e = d /\ a = f.o_src)
    BY <1>10
  <2>3. inbox[d][m] # << >>
    BY <1>1
  <2>4. f = Head(inbox[d][m])
    BY <1>4
  <2>. QED  BY <1>9, <1>13, <2>1, <2>2, <2>3, <2>4, PopStar
<1>15. DOMAIN got = DOMAIN sent
  BY DEF Shaped, IsSeq
\* Where the frame that was taken was on its way, it has arrived or is passed on.
<1>16. ASSUME StarInv(inbox', route', sent'),
              \A k \in DOMAIN sent : got[k] \subseteq got'[k],
              \A k \in DOMAIN sent : \A e \in got'[k] :
                e \in got[k] \/ (k = f.id /\ e = d /\ (f.dst \in Broadcasts \/ f.dst = Addr(d, m))),
              \A k, a : Arrives(box, route', k, a) => Arrives(inbox', route', k, a),
              f.dst \notin Broadcasts /\ f.dst \in Addresses /\ OnPath(inbox, route, d, m, 1, f.dst) =>
                \/ Arrived(sent', got', f.id, Owner(f.dst)) \/ Arrives(inbox', route', f.id, f.dst)
       PROVE  StarInv(inbox', route', sent') /\ RepliesStar(inbox', route', sent', got')
  <2>1. ASSUME NEW k \in DOMAIN sent, sent[k].dst \notin Broadcasts
        PROVE  /\ sent[k].dst \in Addresses
               /\ got'[k] \subseteq {Owner(sent[k].dst)}
               /\ \/ Arrived(sent', got', k, Owner(sent[k].dst))
                  \/ Arrives(inbox', route', k, sent[k].dst)
    <3>. DEFINE a == sent[k].dst
    <3>1. /\ a \in Addresses /\ got[k] \subseteq {Owner(a)}
          /\ Arrived(sent, got, k, Owner(a)) \/ Arrives(inbox, route, k, a)
      BY <2>1 DEF RepliesStar
    <3>2. Owner(a) \in Device
      BY <3>1, OwnerFacts
    <3>3. k = f.id => f.dst = a /\ f.dst \notin Broadcasts
      BY <1>8, <2>1
    <3>. HIDE DEF a
    <3>4. got'[k] \subseteq {Owner(a)}
      <4>1. f.dst = Addr(d, m) => Owner(f.dst) = d
        BY OwnerFacts
      <4>. QED  BY <1>16, <2>1, <3>1, <3>3, <4>1
    <3>5. CASE Arrived(sent, got, k, Owner(a))
      <4>1. Arrived(sent', got', k, Owner(a))
        BY <1>10, <1>16, <2>1, <3>2, <3>5 DEF Arrived
      <4>. QED  BY <3>1, <3>4, <4>1 DEF a
    <3>6. CASE Arrives(inbox, route, k, a)
      <4>1. Arrives(box, route', k, a) \/ (f.id = k /\ OnPath(inbox, route, d, m, 1, a))
        BY <1>14, <3>6
      <4>2. Arrived(sent', got', k, Owner(a)) \/ Arrives(inbox', route', k, a)
        BY <1>16, <3>1, <3>3, <4>1
      <4>. QED  BY <3>1, <3>4, <4>2 DEF a
    <3>. QED  BY <3>1, <3>5, <3>6
  <2>2. RepliesStar(inbox', route', sent', got')
    BY <1>9, <2>1 DEF RepliesStar
  <2>. QED  BY <1>16, <2>2
<1>17. CASE /\ f.dst = Addr(d, m) \/ f.dst = nBRDC \/ (f.dst \in Broadcasts /\ ~Super(d))
            /\ inbox' = box /\ got' = [got EXCEPT ![f.id] = @ \cup {d}]
  <2>1. d \in got'[f.id]
    BY <1>8, <1>15, <1>17
  <2>2. \A k \in DOMAIN sent : got[k] \subseteq got'[k]
    BY <1>15, <1>17
  <2>3. \A k \in DOMAIN sent : \A e \in got'[k] :
          e \in got[k] \/ (k = f.id /\ e = d /\ (f.dst \in Broadcasts \/ f.dst = Addr(d, m)))
    BY <1>15, <1>17, BroadcastsDiffer
  <2>4. f.dst \notin Broadcasts => Arrived(sent', got', f.id, Owner(f.dst))
    <3>1. f.dst = Addr(d, m) => Owner(f.dst) = d
      BY OwnerFacts
    <3>. QED  BY <1>17, <2>1, <3>1, BroadcastsDiffer DEF Arrived
  <2>. QED  BY <1>14, <1>16, <1>17, <2>2, <2>3, <2>4
<1>18. CASE /\ f.dst \in {BRDC, wBRDC} /\ Super(d)
            /\ inbox' = Transmit(d, frames, box) /\ got' = [got EXCEPT ![f.id] = @ \cup {d}]
  <2>1. \A k \in DOMAIN sent : got[k] \subseteq got'[k]
    BY <1>15, <1>18
  <2>2. f.dst \in Broadcasts
    BY <1>18, BroadcastsDiffer
  <2>3. \A k \in DOMAIN sent : \A e \in got'[k] :
          e \in got[k] \/ (k = f.id /\ e = d /\ (f.dst \in Broadcasts \/ f.dst = Addr(d, m)))
    BY <1>15, <1>18, <2>2
  <2>4. StarInv(inbox', route', sent')
    <3>1. Finds(route', d, f.o_src)
      BY <1>13, <1>18
    <3>. QED  BY <1>3, <1>4, <1>11, <1>12, <1>14, <1>18, <3>1, RepeatedStar
  <2>5. \A k, a : Arrives(box, route', k, a) => Arrives(inbox', route', k, a)
    BY <1>12, <1>18, TransmitKeeps
  <2>. QED  BY <1>16, <2>1, <2>2, <2>3, <2>4, <2>5
<1>19. CASE /\ f.dst \notin Broadcasts \cup {Addr(d, m)}
            /\ inbox' = Transmit(d, passed, box) /\ UNCHANGED got
  <2>. DEFINE a == f.dst
  <2>1. f.dst \in Addresses
    BY <1>8, <1>19 DEF RepliesStar
  <2>2. \A k, b : Arrives(box, route', k, b) => Arrives(inbox', route', k, b)
    BY <1>12, <1>19, TransmitKeeps
  <2>3. CASE Super(d)
    <3>1. /\ StarInv(inbox', route', sent')
          /\ /\ d # Owner(f.dst)
             /\ \/ Direct(d, f.dst) /\ MayRoute(m, f.dst)
                \/ ~ Direct(d, f.dst) /\ Finds(route', d, f.dst)
             => Arrives(inbox', route', f.id, f.dst)
      BY <1>4, <1>11, <1>12, <1>14, <1>19, <2>1, <2>3, PassedStar
    <3>2. ASSUME OnPath(inbox, route, d, m, 1, f.dst)
          PROVE  \/ Arrived(sent', got', f.id, Owner(f.dst)) \/ Arrives(inbox', route', f.id, f.dst)
      <4>1. CASE d = Owner(f.dst)
        BY <1>10, <2>3, <4>1 DEF Arrived
      <4>2. CASE d # Owner(f.dst) /\ Direct(d, f.dst)
        BY <3>1, <3>2, <4>2 DEF OnPath
      <4>3. CASE d # Owner(f.dst) /\ ~ Direct(d, f.dst)
        <5>1. FindsBefore(inbox, route, d, f.dst, 1) => Finds(route, d, f.dst)
          <6>1. RADIO \in Media(d)
            BY <2>3, SuperFacts
          <6>2. IsSeq(inbox[d][RADIO])
            BY <6>1 DEF Shaped, InboxesRight
          <6>3. DOMAIN inbox[d][RADIO] = 1 .. Len(inbox[d][RADIO])
            BY <6>2 DEF IsSeq
          <6>4. \A j \in DOMAIN inbox[d][RADIO] : ~ (j < 1)
            BY <6>3
          <6>. QED  BY <6>4 DEF FindsBefore
        <5>2. Finds(route, d, f.dst)
          BY <3>2, <4>3, <5>1 DEF OnPath
        <5>. QED  BY <1>13, <3>1, <4>3, <5>2
      <4>. QED  BY <4>1, <4>2, <4>3
    <3>. QED  BY <1>16, <1>19, <2>2, <3>1, <3>2
  <2>4. CASE ~ Super(d)
    <3>1. passed = {}
      BY <1>4, <2>4
    <3>2. StarInv(inbox', route', sent')
      <4>1. \A e \in Device : \A n \in Media(e) : Heard(d, passed, e, n) = {}
        BY <3>1 DEF Heard
      <4>. QED  BY <1>12, <1>14, <1>19, <4>1, TransmitStar
    <3>3. ~ OnPath(inbox, route, d, m, 1, f.dst)
      <4>1. ~ (d = Owner(f.dst) /\ m = vNet_GetMedia(f.dst))
        BY <1>19, <2>1, OwnerFacts
      <4>. QED  BY <2>4, <4>1 DEF OnPath
    <3>. QED  BY <1>16, <1>19, <2>2, <3>2, <3>3
  <2>. QED  BY <2>3, <2>4
<1>. QED  BY <1>2, <1>17, <1>18, <1>19
-----------------------------------------------------------------------------
(* The theorem.                                                            *)

\* The network does not change, nor what is said of the other state in it.
LEMMA SameStar ==
  ASSUME UNCHANGED nw
  PROVE  /\ Star => Star'
         /\ StarInv(inbox', route', sent') => StarInv(inbox, route, sent)'
         /\ RepliesStar(inbox', route', sent', got') => RepliesStar(inbox, route, sent, got)'
<1>1. /\ Device' = Device /\ Addresses' = Addresses
      /\ \A d : Media(d)' = Media(d)
  BY SameNetwork
<1>2. \A d, m : Addr(d, m)' = Addr(d, m)
  BY DEF Addr
<1>3. \A d, e, m : Reaches(d, e, m)' <=> Reaches(d, e, m)
  BY <1>1, <1>2 DEF Reaches
<1>4. \A d, a : Direct(d, a)' <=> Direct(d, a)
  BY DEF Direct
<1>5. Subnets' = Subnets /\ \A a : Owner(a)' = Owner(a)
  BY <1>1 DEF Subnets, Owner
<1>6. \A d : Super(d)' <=> Super(d)
  BY DEF Super
<1>7. Star => Star'
  BY <1>1, <1>2, <1>5, <1>6 DEF Star
<1>8. FramesStar(inbox', sent') => FramesStar(inbox, sent)'
  <2>1. \A f, x, m : FrameStar(f, x, m, sent') => FrameStar(f, x, m, sent)'
    BY <1>1, <1>2, <1>3, <1>4, <1>6 DEF FrameStar
  <2>. QED  BY <1>1, <2>1 DEF FramesStar
<1>9. RoutesStar(route') => RoutesStar(route)'
  <2>1. \A x, r : RouteStar(x, r) => RouteStar(x, r)'
    BY <1>1, <1>2, <1>4, <1>5, <1>6 DEF RouteStar
  <2>. QED  BY <1>1, <2>1 DEF RoutesStar, IsSeq
<1>10. \A x, a : Finds(route, x, a)' <=> Finds(route', x, a)
  BY <1>4 DEF Finds
<1>11. PathsStar(inbox', route', sent') => PathsStar(inbox, route, sent)'
  <2>1. \A x, a : WillFind(inbox', route', x, a) => WillFind(inbox, route, x, a)'
    BY <1>10 DEF WillFind
  <2>2. \A e, a : KnownAs(sent, e, a)' => KnownAs(sent', e, a)
    BY DEF KnownAs
  <2>3. \A e, m, a : HeardOver(inbox, sent, e, m, a)' => HeardOver(inbox', sent', e, m, a)
    BY <1>6, <2>2 DEF HeardOver
  <2>. QED  BY <1>1, <1>3, <1>6, <1>10, <2>1, <2>2, <2>3 DEF PathsStar
<1>12. RepliesStar(inbox', route', sent', got') => RepliesStar(inbox, route, sent, got)'
  <2>1. \A x, m, i, a : OnPath(inbox', route', x, m, i, a) => OnPath(inbox, route, x, m, i, a)'
    <3>1. \A x, a, n : FindsBefore(inbox', route', x, a, n) => FindsBefore(inbox, route, x, a, n)'
      BY <1>10 DEF FindsBefore
    <3>. QED  BY <1>4, <1>5, <1>6, <1>10, <3>1 DEF OnPath
  <2>2. \A k, a : Arrives(inbox', route', k, a) => Arrives(inbox, route, k, a)'
    BY <1>1, <2>1 DEF Arrives
  <2>3. \A k, d : Arrived(sent', got', k, d) => Arrived(sent, got, k, d)'
    BY <1>6 DEF Arrived
  <2>. QED  BY <1>1, <1>5, <2>2, <2>3 DEF RepliesStar
<1>. QED  BY <1>7, <1>8, <1>9, <1>11, <1>12 DEF StarInv

ReplyInv == Star /\ StarInv(inbox, route, sent) /\ RepliesStar(inbox, route, sent, got)

LEMMA ReplyInit ==
  ASSUME VNetInit, Star
  PROVE  ReplyInv
<1>1. /\ sent = << >> /\ route = [d \in Device |-> << >>]
      /\ inbox = [d \in Device |-> [m \in Media(d) |-> << >>]]
  BY DEF VNetInit
<1>2. /\ \A x \in Device : IsSeq(route[x]) /\ DOMAIN route[x] = {}
      /\ \A x \in Device : \A m \in Media(x) : DOMAIN inbox[x][m] = {}
  BY <1>1, SeqSmall
<1>3. FramesStar(inbox, sent) /\ RoutesStar(route)
  BY <1>1, <1>2 DEF FramesStar, RoutesStar
<1>4. DOMAIN sent = {}
  BY <1>1
<1>5. PathsStar(inbox, route, sent)
  <2>1. \A e, a : ~ KnownAs(sent, e, a)
    BY <1>4 DEF KnownAs
  <2>2. \A e \in Device : \A m \in Media(e) : \A a : ~ HeardOver(inbox, sent, e, m, a)
    BY <1>2, <2>1 DEF HeardOver
  <2>. QED  BY <2>1, <2>2, ReachFacts DEF PathsStar
<1>6. RepliesStar(inbox, route, sent, got)
  BY <1>4 DEF RepliesStar
<1>. QED  BY <1>3, <1>5, <1>6 DEF ReplyInv, StarInv

LEMMA ReplyNext ==
  ASSUME VNetInv, ReplyInv, [VNetNext]_vnetVars
  PROVE  ReplyInv'
<1>1. Star /\ Shaped /\ StarInv(inbox, route, sent) /\ RepliesStar(inbox, route, sent, got)
  BY DEF VNetInv, ReplyInv
<1>2. UNCHANGED nw
  BY DEF VNetNext, Send, Retrieve, vNet_RetrieveData, vnetVars
<1>3. CASE Send
  <2>1. UNCHANGED route
    BY <1>3 DEF Send
  <2>2. PICK d \in Device :
          \/ \E dst \in {BRDC, nBRDC} : vNet_SendBroadcast(d, dst)
          \/ \E a \in Known(d) : vNet_Send(d, a)
    BY <1>3 DEF Send
  <2>3. CASE \E dst \in {BRDC, nBRDC} : vNet_SendBroadcast(d, dst)
    <3>1. PICK dst \in Broadcasts : vNet_SendBroadcast(d, dst)
      BY <2>3, BroadcastsDiffer
    <3>2. StarInv(inbox', route, sent') /\ RepliesStar(inbox', route, sent', got')
      BY <1>1, <3>1, SendBroadcastStar
    <3>. QED  BY <1>1, <1>2, <2>1, <3>2, SameStar DEF ReplyInv
  <2>4. CASE \E a \in Known(d) : vNet_Send(d, a)
    <3>1. StarInv(inbox', route, sent') /\ RepliesStar(inbox', route, sent', got')
      BY <1>1, <2>4, SendToStar
    <3>. QED  BY <1>1, <1>2, <2>1, <3>1, SameStar DEF ReplyInv
  <2>. QED  BY <2>2, <2>3, <2>4
<1>4. CASE \E d \in Device : Retrieve(d)
  <2>1. PICK d \in Device : \E m \in Media(d) : vNet_RetrieveData(d, m)
    BY <1>4 DEF Retrieve
  <2>2. PICK m \in Media(d) : vNet_RetrieveData(d, m)
    BY <2>1
  <2>3. StarInv(inbox', route', sent') /\ RepliesStar(inbox', route', sent', got')
    BY <1>1, <2>2, RetrieveStar
  <2>. QED  BY <1>1, <1>2, <2>3, SameStar DEF ReplyInv
<1>5. CASE UNCHANGED vnetVars
  <2>1. UNCHANGED <<nw, route, inbox, sent, got>>
    BY <1>5 DEF vnetVars
  <2>2. StarInv(inbox', route', sent') /\ RepliesStar(inbox', route', sent', got')
    BY <1>1, <2>1
  <2>. QED  BY <1>1, <1>2, <2>2, SameStar DEF ReplyInv
<1>. QED  BY <1>3, <1>4, <1>5 DEF VNetNext

LEMMA ReplyInvArrives ==
  ASSUME ReplyInv
  PROVE  ReplyArrives
<1>1. SUFFICES ASSUME Quiet, NEW k \in DOMAIN sent, sent[k].dst \notin Broadcasts,
                      NEW d, d = Owner(sent[k].dst)
               PROVE  got[k] = {d} \/ (Super(d) /\ got[k] = {} /\ sent[k].as[d] # {})
  BY DEF ReplyArrives
<1>2. ~ Arrives(inbox, route, k, sent[k].dst)
  BY <1>1 DEF Arrives, Quiet
<1>3. got[k] \subseteq {d} /\ Arrived(sent, got, k, d)
  BY <1>1, <1>2 DEF ReplyInv, RepliesStar
<1>. QED  BY <1>3 DEF Arrived

LEMMA StarBackbone == Star => Backbone
<1>. SUFFICES ASSUME Star PROVE Backbone
  OBVIOUS
<1>1. ASSUME NEW e \in Device
      PROVE  RADIO \in Media(e) \/ \E s \in Device : Super(s) /\ RADIO \in Media(s) /\ Reaches(s, e, BUS)
  <2>1. CASE Super(e)
    BY <2>1, SuperFacts
  <2>2. CASE ~ Super(e)
    <3>1. PICK b \in nw.addr[e] : nw.addr[e] = {b}
      BY <2>2 DEF Star
    <3>2. PICK s \in Device : Super(s) /\ Reaches(e, s, vNet_GetMedia(b)) /\ vNet_GetMedia(b) \in Media(e)
      BY <2>2, FirstFacts
    <3>3. vNet_GetMedia(b) = RADIO \/ Reaches(s, e, BUS)
      BY <3>2, MediaFacts, ReachFacts
    <3>. QED  BY <3>2, <3>3, SuperFacts
  <2>. QED  BY <2>1, <2>2
<1>. QED  BY <1>1 DEF Star, Backbone

\* Who has processed a broadcast can answer, in every network of this shape:
\* when the traffic has ended the answer has got to the source, whatever the
\* order in which the copies came and the routes were learnt.
THEOREM RepliesReach ==
  VNetSpec /\ Star => []ReplyArrives
<1>1. VNetInit /\ Star => VNetInv /\ ReplyInv
  BY StarBackbone, BackboneCovered, VNetInitInv, ReplyInit
<1>2. VNetInv /\ ReplyInv /\ [VNetNext]_vnetVars => VNetInv' /\ ReplyInv'
  BY VNetNextInv, ReplyNext
<1>3. ReplyInv => ReplyArrives
  BY ReplyInvArrives
<1>. QED  BY <1>1, <1>2, <1>3, PTL DEF VNetSpec

\* TwoBuses, a network of the network run, has the shape the theorem asks for.
LEMMA TwoBusesStar ==
  ASSUME nw = TwoBuses, TwoBuses \in Networks, VNET_ROUTING_TABLE >= 3
  PROVE  Star
<1>1. /\ Device = {"g", "s", "w", "b", "c"} /\ nw.super = {"g", "s"} /\ nw.deaf = {}
      /\ nw.addr["g"] = {<<101, 1>>, <<206, 1>>} /\ nw.addr["s"] = {<<101, 2>>, <<207, 1>>}
      /\ nw.addr["w"] = {<<101, 3>>} /\ nw.addr["b"] = {<<206, 2>>} /\ nw.addr["c"] = {<<207, 2>>}
  BY DEF TwoBuses, Device
<1>2. /\ vNet_GetMedia(<<101, 1>>) = RADIO /\ vNet_GetMedia(<<101, 2>>) = RADIO
      /\ vNet_GetMedia(<<101, 3>>) = RADIO
      /\ vNet_GetMedia(<<206, 1>>) = BUS /\ vNet_GetMedia(<<206, 2>>) = BUS
      /\ vNet_GetMedia(<<207, 1>>) = BUS /\ vNet_GetMedia(<<207, 2>>) = BUS
  BY DEF vNet_GetMedia
<1>0. RADIO # BUS
  BY DEF RADIO, BUS
<1>3. Addresses = {<<101, 1>>, <<206, 1>>, <<101, 2>>, <<207, 1>>, <<101, 3>>, <<206, 2>>, <<207, 2>>}
  BY <1>1 DEF Addresses
<1>4. Subnets = {101, 206, 207}
  BY <1>3 DEF Subnets
<1>5. IsFiniteSet(Subnets) /\ Cardinality(Subnets) = 3
  <2>1. ASSUME NEW S, IsFiniteSet(S), NEW x, x \notin S
        PROVE  IsFiniteSet(S \cup {x}) /\ Cardinality(S \cup {x}) = Cardinality(S) + 1
    BY <2>1, FS_AddElement
  <2>3. IsFiniteSet({101}) /\ Cardinality({101}) = 1
    BY FS_Singleton
  <2>4. ASSUME NEW S, S = {101}
        PROVE  IsFiniteSet(S \cup {206}) /\ Cardinality(S \cup {206}) = 2
    <3>1. IsFiniteSet(S) /\ Cardinality(S) = 1 /\ 206 \notin S
      BY <2>3, <2>4
    <3>. QED  BY <2>1, <3>1
  <2>5. ASSUME NEW S, S = {101, 206}
        PROVE  IsFiniteSet(S) /\ Cardinality(S) = 2
    <3>1. PICK R : R = {101}
      OBVIOUS
    <3>2. S = R \cup {206}
      BY <2>5, <3>1
    <3>. QED  BY <2>4, <3>1, <3>2
  <2>6. ASSUME NEW S, S = {101, 206}
        PROVE  IsFiniteSet(S \cup {207}) /\ Cardinality(S \cup {207}) = 3
    <3>1. IsFiniteSet(S) /\ Cardinality(S) = 2 /\ 207 \notin S
      BY <2>5, <2>6
    <3>. QED  BY <2>1, <3>1
  <2>7. {101, 206} \cup {207} = Subnets
    BY <1>4
  <2>. QED  BY <2>6, <2>7
<1>6. RADIO \in Media("g") /\ RADIO \in Media("s")
  <2>1. /\ Media("g") = {vNet_GetMedia(a) : a \in {<<101, 1>>, <<206, 1>>}}
        /\ Media("s") = {vNet_GetMedia(a) : a \in {<<101, 2>>, <<207, 1>>}}
    BY <1>1 DEF Media
  <2>. QED  BY <1>2, <2>1
<1>7. Addr("g", BUS) = <<206, 1>> /\ Addr("s", BUS) = <<207, 1>>
  <2>1. /\ Addr("g", BUS) = CHOOSE a \in nw.addr["g"] : vNet_GetMedia(a) = BUS
        /\ Addr("s", BUS) = CHOOSE a \in nw.addr["s"] : vNet_GetMedia(a) = BUS
    BY DEF Addr
  <2>2. \A a \in nw.addr["g"] : vNet_GetMedia(a) = BUS <=> a = <<206, 1>>
    BY <1>1, <1>2, <1>0
  <2>3. \A a \in nw.addr["s"] : vNet_GetMedia(a) = BUS <=> a = <<207, 1>>
    BY <1>1, <1>2, <1>0
  <2>4. <<206, 1>> \in nw.addr["g"] /\ <<207, 1>> \in nw.addr["s"]
    BY <1>1
  <2>5. Addr("g", BUS) \in nw.addr["g"] /\ vNet_GetMedia(Addr("g", BUS)) = BUS
    BY <2>1, <2>2, <2>4
  <2>6. Addr("s", BUS) \in nw.addr["s"] /\ vNet_GetMedia(Addr("s", BUS)) = BUS
    BY <2>1, <2>3, <2>4
  <2>. QED  BY <2>2, <2>3, <2>5, <2>6
<1>8. \A d, e \in Device : d # e => nw.addr[d] \cap nw.addr[e] = {}
  BY <1>1
<1>9. \A d \in Device : IF Super(d) THEN RADIO \in Media(d)
                                    ELSE \E a \in nw.addr[d] : nw.addr[d] = {a}
  <2>1. \A d : Super(d) <=> d \in {"g", "s"}
    BY <1>1 DEF Super
  <2>2. \A d \in {"w", "b", "c"} : \E a \in nw.addr[d] : nw.addr[d] = {a}
    <3>1. \E a \in nw.addr["w"] : nw.addr["w"] = {a}
      BY <1>1, Zenon
    <3>2. \E a \in nw.addr["b"] : nw.addr["b"] = {a}
      BY <1>1, Zenon
    <3>3. \E a \in nw.addr["c"] : nw.addr["c"] = {a}
      BY <1>1, Zenon
    <3>. QED  BY <3>1, <3>2, <3>3
  <2>3. \A d \in {"g", "s"} : RADIO \in Media(d)
    BY <1>6
  <2>4. \A d \in Device : d \in {"g", "s"} \/ d \in {"w", "b", "c"}
    BY <1>1
  <2>5. TAKE d \in Device
  <2>6. CASE Super(d)
    BY <2>1, <2>3, <2>6
  <2>7. CASE ~ Super(d)
    BY <2>1, <2>2, <2>4, <2>7
  <2>. QED  BY <2>6, <2>7
<1>10. \A a, b \in Addresses :
         vNet_GetMedia(a) = RADIO /\ vNet_GetMedia(b) = RADIO => a[1] = b[1]
  <2>1. \A a \in Addresses : vNet_GetMedia(a) = RADIO => a[1] = 101
    BY <1>2, <1>3, <1>0
  <2>. QED  BY <2>1
<1>11. \A a \in Addresses : \E s \in Device : Super(s) /\ FirstOf(a[1]) \in nw.addr[s]
  <2>1. \A a \in Addresses : a[1] \in {101, 206, 207}
    BY <1>3
  <2>2. FirstOf(101) = <<101, 1>> /\ FirstOf(206) = <<206, 1>> /\ FirstOf(207) = <<207, 1>>
    BY DEF FirstOf
  <2>3. Super("g") /\ Super("s") /\ "g" \in Device /\ "s" \in Device
    BY <1>1 DEF Super
  <2>4. FirstOf(101) \in nw.addr["g"] /\ FirstOf(206) \in nw.addr["g"] /\ FirstOf(207) \in nw.addr["s"]
    BY <1>1, <2>2
  <2>. QED  BY <2>1, <2>3, <2>4
<1>12. \A s, t \in Device : Super(s) /\ Super(t) /\ s # t /\ BUS \in Media(s) \cap Media(t) =>
         Addr(s, BUS)[1] # Addr(t, BUS)[1]
  BY <1>1, <1>7 DEF Super
<1>13. Cardinality(Subnets) <= VNET_ROUTING_TABLE
  BY <1>5
<1>14. nw \in Networks
  OBVIOUS
<1>. QED  BY <1>1, <1>5, <1>8, <1>9, <1>10, <1>11, <1>12, <1>13, <1>14 DEF Star
=============================================================================
