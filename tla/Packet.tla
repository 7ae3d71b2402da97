------------------------------- MODULE Packet --------------------------------
(***************************************************************************)
(* The response packet of the media server and the client's Parse function *)
(* (main.cpp:228-368).                                                     *)
(*                                                                         *)
(* A packet is a common header, a run of length-prefixed texts and, after  *)
(* the text "filedata", a 4-byte length and that many payload bytes.  The  *)
(* unit of this module is the smallest piece Parse tells apart: the whole  *)
(* common header, one length-prefixed text, the payload's length field,    *)
(* one payload block.  A unit of which only some bytes have arrived is, to *)
(* Parse, a unit that has not arrived, so a sequence of units stands for   *)
(* every byte string it is the longest whole-unit prefix of.               *)
(***************************************************************************)
EXTENDS Integers, Sequences, FiniteSetsExt

CONSTANT ENC_KEY_LENGTH   (* size of wechat_channel.key, the XOR key        *)

ASSUME KeyAssumption == ENC_KEY_LENGTH \in Nat \ {0}

(***************************************************************************)
(* Units.  num is the number a unit carries: what atoi makes of a text, a  *)
(* length, or the position of a payload block in the file.  mask is the    *)
(* set of key positions XORed into a payload block; the plain block has an *)
(* empty mask, and XORing twice with one key byte gives the plain block.   *)
(***************************************************************************)
Kinds == {"start", "text", "length", "block"}

(* The keys a server may send, of which Parse looks for the first three,   *)
(* the text it stops at, and one for all the texts it does not look for.   *)
Keys  == {"totalsize", "X-enclen", "seq", "retcode"}
Texts == Keys \cup {"filedata", "value", "none"}

Units == [kind : Kinds, text : Texts, num : Nat, mask : SUBSET Nat]

Unit(kind, text, num, mask) ==
  [kind |-> kind, text |-> text, num |-> num, mask |-> mask]

Start(header_len)  == Unit("start", "none", header_len, {})
Text(text, num)    == Unit("text", text, num, {})
Length(len)        == Unit("length", "none", len, {})
Block(pos, mask)   == Unit("block", "none", pos, mask)

-----------------------------------------------------------------------------
(* The bytes do not begin with a packet: too short, or no 0xAB 0x00.       *)
Rejects(buf) == buf = <<>> \/ buf[1].kind # "start"

(* The loop over the texts stops at the first one that reads "filedata".   *)
(* The loop does not tell keys from values: every text is compared.        *)
IsMarker(buf, i) ==
  /\ buf[i].kind = "text"
  /\ buf[i].text = "filedata"
  /\ \A j \in 2..(i - 1) : buf[j].text # "filedata"

HasMarker(buf) == \E i \in 2..Len(buf) : IsMarker(buf, i)

MarkerAt(buf) == CHOOSE i \in 2..Len(buf) : IsMarker(buf, i)

(* The last text the loop reads: the marker, or the last that has arrived. *)
LastScanned(buf) == IF HasMarker(buf) THEN MarkerAt(buf) ELSE Len(buf)

(***************************************************************************)
(* A flag raised by the text `name` makes the next text its value (and is  *)
(* lowered by it), so the number kept is that of the last text read that   *)
(* directly follows `name`.                                                *)
(***************************************************************************)
ValuesOf(buf, name) == {i \in 3..LastScanned(buf) : buf[i - 1].text = name}

LastValue(buf, name, default) ==
  IF ValuesOf(buf, name) = {} THEN default ELSE buf[Max(ValuesOf(buf, name))].num

(* totalFileSize is an in-out parameter: it is assigned as soon as its     *)
(* value is read, also when the packet turns out to be incomplete.         *)
ParsedTotal(buf, totalFileSize) ==
  IF Rejects(buf) THEN totalFileSize
                  ELSE LastValue(buf, "totalsize", totalFileSize)

(* Parse got to the end: the length field and all the payload are there.   *)
IsComplete(buf) ==
  /\ ~Rejects(buf)
  /\ HasMarker(buf)
  /\ MarkerAt(buf) + 1 <= Len(buf)
  /\ MarkerAt(buf) + 1 + buf[MarkerAt(buf) + 1].num <= Len(buf)

FileSize(buf) == buf[MarkerAt(buf) + 1].num

(* packetSize stays 0 on every path but the one that writes the payload.   *)
PacketSize(buf) == IF IsComplete(buf) THEN FileSize(buf) + buf[1].num ELSE 0

(* What is written to the raw file: the payload as received.               *)
FileData(buf) == SubSeq(buf, MarkerAt(buf) + 2, MarkerAt(buf) + 1 + FileSize(buf))

(* Mutant: the payload is XORed whatever X-enclen says.                    *)
DecodeAlways(data, enclen) ==
  [i \in 1..Len(data) |->
     Block(data[i].num, SymDiff(data[i].mask, {(i - 1) % ENC_KEY_LENGTH}))]

(* What is written to the output file: when X-enclen is positive the whole *)
(* payload is XORed with the key, from the key's first byte on.            *)
Decode(data, enclen) ==
  IF enclen > 0
    THEN [i \in 1..Len(data) |->
            Block(data[i].num,
                  SymDiff(data[i].mask, {(i - 1) % ENC_KEY_LENGTH}))]
    ELSE data

DecodedData(buf) == Decode(FileData(buf), LastValue(buf, "X-enclen", 0))
=============================================================================
