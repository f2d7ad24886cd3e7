------------------------------- MODULE Serial -------------------------------
(***************************************************************************)
(* A node on the RS485 bus (vNetDriver_usart.cpp): the parser of incoming  *)
(* frames, which keeps bytes in one buffer between two polls, and the      *)
(* collision avoidance of the sender, which reads into the same buffer.    *)
(*                                                                         *)
(* A frame is a preamble, the length of header, payload and CRC, the       *)
(* payload, the CRC and a postamble.  Bytes come in whenever they like: a  *)
(* poll may see a frame in pieces.  Other nodes put frames on the bus and  *)
(* tokens, which announce them; a frame may be cut off or have a byte      *)
(* changed.  The CRC is taken as ideal: no two payloads share one.         *)
(***************************************************************************)
EXTENDS Integers, Sequences, SequencesExt

CONSTANTS
  Messages,          \* the payloads the other nodes send, in this order
  MarkLen,           \* bytes of preamble and postamble          (code: 6)
  USART_FRAME_LEN,   \* bytes of the buffer
  USART_MAXRETRY,    \* tries of a send                          (code: 5)
  MaxTokens,         \* bound: tokens on the bus
  MaxFaults,         \* bound: frames that are damaged
  MaxSends           \* bound: frames of this node

ASSUME SerialConstants ==
  /\ \A k \in DOMAIN Messages : Len(Messages[k]) > 0
  /\ \A j, k \in DOMAIN Messages : Messages[j] = Messages[k] => j = k
  /\ {MarkLen, USART_FRAME_LEN, USART_MAXRETRY} \subseteq Nat \ {0}
  /\ {MaxTokens, MaxFaults, MaxSends} \subseteq Nat

PREAMBLE == 172
POSTAMBLE == 202
TOKEN == 170
HEADERLEN == 1
CRCLEN == 2

BUSFREE == 0
BUSBUSY == 3
BUSRECV == 5

VARIABLES
  wire,        \* bytes on the bus that have not been read
  usartframe,  \* the buffer
  l,           \* bytes in it
  busstate,
  retry,
  sending,     \* where vNet_Send_M5 is: "no", "try" or "wait" for its slot
  used,        \* bounds used up
  nsent,       \* history: frames the others have put on the bus,
  got,         \* the numbers of those that were retrieved,
  clean        \* and whether nothing has happened that may cost one

serialVars == <<wire, usartframe, l, busstate, retry, sending, used, nsent, got, clean>>
busVars == <<wire, nsent, got, clean>>

Offset == 0 .. USART_FRAME_LEN - 1
Zeros == [o \in Offset |-> 0]

\* Small bytes, which a node out of step may take for lengths; those of a
\* payload nobody sends are not on the bus.
Unknown == 0
MessageOf(p) == IF p \in Range(Messages) THEN CHOOSE k \in DOMAIN Messages : Messages[k] = p ELSE Unknown
CRC(p) == <<3 + 2 * MessageOf(p), 4 + 2 * MessageOf(p)>>

Mark(b) == [j \in 1 .. MarkLen |-> b]
FrameOf(p) ==
  Mark(PREAMBLE) \o <<Len(p) + HEADERLEN + CRCLEN>> \o p \o CRC(p) \o Mark(POSTAMBLE)

SerialInit ==
  /\ wire = <<>> /\ usartframe = Zeros /\ l = 0
  /\ busstate = BUSBUSY /\ retry = USART_MAXRETRY /\ sending = "no"
  /\ used = [tokens |-> 0, faults |-> 0, sends |-> 0]
  /\ nsent = 0 /\ got = <<>> /\ clean = TRUE

Using(what, top) == used[what] < top /\ used' = [used EXCEPT ![what] = @ + 1]
-----------------------------------------------------------------------------
(* The other nodes.                                                        *)

Others(bytes) ==
  /\ wire' = wire \o bytes
  /\ UNCHANGED <<usartframe, l, busstate, retry, sending, got>>

Token == Using("tokens", MaxTokens) /\ Others(<<TOKEN>>) /\ UNCHANGED <<nsent, clean>>

\* A frame that finds the one before unread is none a node has to catch.
Transmit ==
  /\ nsent < Len(Messages)
  /\ nsent' = nsent + 1
  /\ LET frame == FrameOf(Messages[nsent + 1]) IN
     \/ /\ Others(frame) /\ UNCHANGED used
        /\ clean' = (clean /\ Len(got) = nsent)
     \/ /\ Using("faults", MaxFaults) /\ clean' = FALSE
        /\ \E j \in 1 .. Len(frame) :
             \/ Others(SubSeq(frame, 1, j - 1))
             \/ \E b \in {0, PREAMBLE} : Others([frame EXCEPT ![j] = b])
-----------------------------------------------------------------------------
(* Reception.                                                              *)

\* Of the bytes on the bus n have come in and go to the buffer b of length k.
CanRead(n, k) == n <= Len(wire) /\ k + n <= USART_FRAME_LEN
Filled(b, k, n) == [o \in Offset |-> IF o \in k .. k + n - 1 THEN wire[o - k + 1] ELSE b[o]]
Consume(n) == wire' = SubSeq(wire, n + 1, Len(wire))

\* memmove(b, b + from, n).
Moved(b, from, n) == [o \in Offset |-> IF o < n THEN b[from + o] ELSE b[o]]

IsMark(b, from, byte) ==
  \A o \in from .. from + MarkLen - 1 : o \in Offset => b[o] = byte

\* The first preamble; k when there is none.
Preamble(b, k) ==
  CHOOSE i \in 0 .. k :
    /\ i = k \/ (i < k - MarkLen /\ IsMark(b, i, PREAMBLE))
    /\ \A j \in 0 .. i - 1 : ~ (j < k - MarkLen /\ IsMark(b, j, PREAMBLE))

IsComplete(b, i, len) ==
  /\ len # 0 /\ i + MarkLen + len < USART_FRAME_LEN
  /\ IsMark(b, i + MarkLen + len, POSTAMBLE)

\* The test reads past the buffer: what lies there may be a postamble or not.
ReadsBehind(i, len) == i + 2 * MarkLen + len > USART_FRAME_LEN

IsIncomplete(k, i, len) == k - i < len + 2 * MarkLen + HEADERLEN + CRCLEN

\* Mutant: no CRC is checked.
Intact_Always(crc, p) == TRUE
Intact(crc, p) == crc = CRC(p)

\* What is left of k bytes, meant to be those not parsed yet.
Remaining(k, len) == IF k > USART_FRAME_LEN - len THEN k - (USART_FRAME_LEN - len) ELSE 0

\* vNet_RetrieveData_M5 with the frame at the start of b, of k bytes.  A
\* frame for this node or for all leaves the bus free.
RetrieveData(b, k, crc) ==
  LET len == (b[0] - HEADERLEN - CRCLEN) % 256
      p == [j \in 1 .. len |-> b[j]]
  IN  IF len = 0 \/ len > k
      THEN l' = 0 /\ usartframe' = b /\ busstate' = BUSBUSY /\ UNCHANGED got
      ELSE IF ~ Intact(crc, p)
      THEN l' = k /\ usartframe' = b /\ busstate' = BUSBUSY /\ UNCHANGED got
      ELSE /\ got' = Append(got, MessageOf(p))
           /\ usartframe' = Moved(b, len, USART_FRAME_LEN - len)
           /\ l' = Remaining(k, len)
           /\ busstate' \in {BUSBUSY, BUSFREE}

\* vNet_DataAvailable_M5 with the new bytes in the buffer b, of k bytes.
Parse(b, k) ==
  LET i == Preamble(b, k)
      len == b[i + MarkLen]
      crc == <<b[i + MarkLen + len - 2], b[i + MarkLen + len - 1]>>
      found == k >= 2 * MarkLen + HEADERLEN + CRCLEN /\ i # k
  IN  \/ /\ ~ found
         /\ usartframe' = b /\ l' = k /\ busstate' = BUSBUSY /\ UNCHANGED got
      \/ /\ found /\ IsComplete(b, i, len)
         /\ RetrieveData(Moved(b, i + MarkLen, len), k - i, crc)
      \/ /\ found /\ (IsComplete(b, i, len) => ReadsBehind(i, len))
         /\ IF IsIncomplete(k, i, len)
            THEN /\ usartframe' = Moved(b, i, USART_FRAME_LEN - i)
                 /\ l' = k - i /\ busstate' = BUSRECV
            ELSE usartframe' = Zeros /\ l' = 0 /\ busstate' = BUSBUSY
         /\ UNCHANGED got

\* One poll of the bus: a full buffer is thrown away first, and without new
\* bytes nothing is parsed.
Poll(n) ==
  LET isFull == l = USART_FRAME_LEN
      b == IF isFull THEN Zeros ELSE usartframe
      k == IF isFull THEN 0 ELSE l
  IN  /\ sending = "no"
      /\ CanRead(n, k) /\ Consume(n)
      /\ IF n = 0
         THEN /\ usartframe' = b /\ l' = k /\ UNCHANGED got
              /\ busstate' = IF busstate > BUSFREE THEN busstate - 1 ELSE BUSFREE
         ELSE Parse(Filled(b, k, n), k + n)
      /\ UNCHANGED <<retry, sending, used, nsent, clean>>
-----------------------------------------------------------------------------
(* Transmission.  The node's own bytes are not read back.                  *)

\* vNet_Send_M5 is called; on a free bus, or after a send that failed, it
\* transmits at once.
CallSend ==
  /\ sending = "no"
  /\ Using("sends", MaxSends)
  /\ IF busstate = BUSFREE \/ retry = 0
     THEN retry' = USART_MAXRETRY /\ UNCHANGED sending
     ELSE sending' = "try" /\ UNCHANGED retry
  /\ UNCHANGED busVars /\ UNCHANGED <<usartframe, l, busstate>>

\* Bytes that came in go to the buffer, where no poll looks at them before
\* there are more.
Yield(n) ==
  /\ sending # "no"
  /\ wire # <<>> /\ (n > 0 \/ l = USART_FRAME_LEN)
  /\ CanRead(n, l) /\ Consume(n)
  /\ usartframe' = Filled(usartframe, l, n) /\ l' = l + n
  /\ clean' = FALSE
  /\ retry' = retry - 1
  /\ sending' = IF retry' = 0 THEN "no" ELSE "try"
  /\ UNCHANGED <<busstate, used, nsent, got>>

\* Nothing is coming in: a token, and the wait for the slot.
Claim ==
  /\ sending = "try"
  /\ sending' = "wait"
  /\ UNCHANGED busVars /\ UNCHANGED <<usartframe, l, busstate, retry, used>>

\* Nobody has started meanwhile: the frame is sent.
TakeSlot ==
  /\ sending = "wait"
  /\ busstate' = BUSFREE
  /\ retry' = USART_MAXRETRY
  /\ sending' = "no"
  /\ UNCHANGED busVars /\ UNCHANGED <<usartframe, l, used>>

SerialNext ==
  \/ Token \/ Transmit
  \/ \E n \in 0 .. USART_FRAME_LEN : Poll(n)
  \/ CallSend \/ Claim \/ TakeSlot
  \/ \E n \in 0 .. USART_FRAME_LEN : Yield(n)

SerialSpec == SerialInit /\ [][SerialNext]_serialVars
-----------------------------------------------------------------------------
(* Properties.                                                             *)

\* What is retrieved are frames that were sent, each once and in their order,
\* whatever is cut off, changed, read in pieces or left in the buffer by
\* frames before; and of frames that come one at a time none is lost, in how
\* many pieces it may be read, behind the few tokens of the run: without a
\* bound they would fill the buffer, which is then thrown away.
Delivered ==
  /\ \A j \in DOMAIN got : got[j] \in 1 .. nsent /\ \A k \in 1 .. j - 1 : got[k] < got[j]
  /\ clean /\ wire = <<>> => Len(got) = nsent
=============================================================================
