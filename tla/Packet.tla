------------------------------- MODULE Packet -------------------------------
(***************************************************************************)
(* The packets of packet.c.  A u32 is the sequence of its four bytes as    *)
(* they lie in the memory of a little-endian machine, least significant    *)
(* byte first; a packet is the sequence of its bytes.  malloc succeeds.    *)
(***************************************************************************)
LOCAL INSTANCE Naturals
LOCAL INSTANCE Sequences

HEADER_SIZE == 12
DECODED_HEADER_SIZE == 7

SIGNATURE == 85

\* A number below 2^16 in a u32.
Word(n) == <<n % 256, n \div 256, 0, 0>>

\* htonl and ntohl
Swap(word) == <<word[4], word[3], word[2], word[1]>>

\* What encodeHeader does to the header it is given: the two u32 are swapped in place.
HeaderSwapped(head) == [head EXCEPT !.totalSize = Swap(@), !.token = Swap(@)]

encodeHeader(head) ==
    LET h == HeaderSwapped(head)
    IN  <<h.signature>> \o h.totalSize \o <<h.msgId, h.clntId>> \o h.token \o <<h.isLast>>

\* Variant: the size is only set once, in a message that has none yet.
SizedOnce(msg) ==
    [msg.header EXCEPT !.totalSize = IF @ = Word(0) THEN Word(HEADER_SIZE + Len(msg.payLoad)) ELSE @]

\* The size is set for each encoding.
Sized(msg) == [msg.header EXCEPT !.totalSize = Word(HEADER_SIZE + Len(msg.payLoad))]

\* The packet, and the message after it was encoded.
encodePacket(msg) == encodeHeader(Sized(msg)) \o msg.payLoad
Encoded(msg) == [msg EXCEPT !.header = HeaderSwapped(Sized(msg))]

\* The receiver reads five bytes, the signature and the size, first ...
SignatureOf(packet) == packet[1]
SizeOf(packet) == Swap(SubSeq(packet, 2, 5))

\* ... and decodes what follows them.
decodeHeader(buf) ==
    [msgId |-> buf[1], clntId |-> buf[2], token |-> Swap(SubSeq(buf, 3, 6)), isLast |-> buf[7]]

decodePacket(buf) ==
    [header |-> decodeHeader(buf),
     payLoad |-> SubSeq(buf, DECODED_HEADER_SIZE + 1, Len(buf))]

Decoded(packet) == decodePacket(SubSeq(packet, 6, Len(packet)))
=============================================================================
