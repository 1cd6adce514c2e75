-------------------------------- MODULE Nms --------------------------------
(***************************************************************************)
(* The head of an NMS packet (lib/nms.c): the payload's length, a uint16_t *)
(* sent as two bytes, low byte first.                                      *)
(***************************************************************************)
EXTENDS Naturals, Sequences

Byte   == 0..255
Uint16 == 0..65535

\* The conversion of nms_send's length parameter.
ToUint16(n) == n % 65536

\* Mutant of LengthBytes: the high byte first.
LengthBytesSwapped(n) == <<ToUint16(n) \div 256, ToUint16(n) % 256>>

\* The bytes nms_send writes: length & 0xFF, length >> 8.
LengthBytes(n) == <<ToUint16(n) % 256, ToUint16(n) \div 256>>

\* What nms_recv and nms_recv_no_alloc read back from them.
Length(head) == head[1] + head[2] * 256

=============================================================================
