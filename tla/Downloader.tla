------------------------------ MODULE Downloader ------------------------------
(***************************************************************************)
(* The download client of main.cpp: it asks a media server for one chunk   *)
(* of a file after the other over one TCP connection, cuts the answers     *)
(* into packets, decodes them and appends them to res.mp4.                 *)
(*                                                                         *)
(* The client's steps are its blocking calls: connect, send and recv, each *)
(* with all that the program does up to the next one.  The server and the  *)
(* connection are the environment: the server answers a request with the   *)
(* part of the file asked for, TCP delivers the units of an answer in      *)
(* order, some at a time, and may be cut anywhere.                         *)
(*                                                                         *)
(* File positions count from 0; a file is known by its length, and its     *)
(* block at position i is Block(i, {}).                                    *)
(***************************************************************************)
EXTENDS Packet

CONSTANTS
  RANGE,          (* a chunk is RANGE + 1 blocks                            *)
  RecvSize,       (* sizeof(recv_buffer)                                    *)
  IntMax,         (* the largest int                                        *)
  FileSizes,      (* the lengths a file may have                            *)
  EncLen,         (* how many blocks at a file's start the server masks     *)
  Layouts,        (* the keys of an answer's parameters, in order           *)
  ShortReplies,   (* may the server answer with less than was asked for?    *)
  ErrorReplies,   (* may it answer with parameters only, without filedata?  *)
  MaxRounds       (* bounds the requests of one connection it answers       *)

ASSUME ClientAssumption ==
  /\ RANGE \in Nat /\ RecvSize \in Nat \ {0} /\ IntMax \in Nat
  /\ MaxRounds \in Nat
  /\ (IntMax + 1) % (RANGE + 1) = 0   (* 2^31 values, chunks of 2^17 bytes *)

(* The number of units before the "filedata" of an answer.                 *)
ParamsEnd(fields) == 1 + 2 * Len(fields)

(* The server reports the length of the file it serves as an int; it masks *)
(* one chunk of it or none; an answer with a chunk fits the buffer.        *)
ASSUME ServerAssumption ==
  /\ FileSizes \subseteq 1..IntMax
  /\ EncLen \in {0, RANGE + 1}
  /\ Layouts \subseteq Seq(Keys)
  /\ \A fields \in Layouts :
       /\ \E i, j \in 1..Len(fields) :
            fields[i] = "totalsize" /\ fields[j] = "X-enclen"
       /\ ParamsEnd(fields) + 2 + RANGE + 1 <= RecvSize
  /\ ShortReplies \in BOOLEAN /\ ErrorReplies \in BOOLEAN

VARIABLES
  pc,                    (* where the client is                             *)
  seq,                   (* the next request's number                       *)
  total_file_size,       (* what the last answer said, 0 before             *)
  recv_total_file_size,  (* payload written so far                          *)
  recv_buffer,           (* received and not yet cut into a packet          *)
  req_bin,               (* req.bin: the requests as logged                 *)
  res_mp4,               (* res.mp4: the decoded payload                    *)
  res_bin,               (* res.bin: the payload as received                *)
  file,                  (* the length of the file the server serves        *)
  pending,               (* the request on its way to the server, if any    *)
  wire,                  (* the units on their way to the client            *)
  open                   (* the server's end of the connection is open      *)

counters == <<seq, total_file_size, recv_total_file_size>>
outputs  == <<res_mp4, res_bin>>
network  == <<pending, wire, open>>
vars == <<pc, counters, recv_buffer, req_bin, outputs, file, network>>

Finals  == {"complete", "disconnected", "killed"}
Waits   == {"connect", "request", "receive"}

(* MIN (Math.h) and its counterpart, on two numbers.                       *)
MIN(a, b) == IF a < b THEN a ELSE b
MAX(a, b) == IF a > b THEN a ELSE b

-----------------------------------------------------------------------------
(* Mutants: requests counted from 1, chunks that overlap, an end that is   *)
(* not part of the range.                                                  *)
RangeStartFromOne(s) == (RANGE + 1) * (s - 1)
RangeStartOverlap(s) == RANGE * s
RangeEndPast(s, total) == LET end == (RANGE + 1) * (s + 1)
                          IN IF total > 0 THEN MIN(end, total) ELSE end

(* Requests.  The server reads [start, end] as both ends included; end is  *)
(* cut to the file's length, one past the last position.                   *)
RangeStart(s)      == (RANGE + 1) * s
RangeEnd(s, total) == LET end == RangeStart(s) + RANGE
                      IN IF total > 0 THEN MIN(end, total) ELSE end

Request(s, total) == [start |-> RangeStart(s), end |-> RangeEnd(s, total)]

-----------------------------------------------------------------------------
(* Answers of a server whose file has `size` blocks.  Each parameter is a  *)
(* key text and a value text; a value reads like no key.  X-enclen is how  *)
(* many blocks of the answer are masked.                                   *)
Asked(size, req) == MAX(0, MIN(req.end + 1, size) - req.start)

Masked(req, n) == MAX(0, MIN(req.start + n, EncLen) - req.start)

ValueOf(size, key, req, n) ==
  CASE key = "totalsize" -> size
    [] key = "X-enclen"  -> Masked(req, n)
    [] OTHER             -> 0

ServedBlock(pos) ==
  Block(pos, IF pos < EncLen THEN {pos % ENC_KEY_LENGTH} ELSE {})

ParamUnit(size, fields, req, n, i) ==
  IF i % 2 = 0 THEN Text(fields[i \div 2], 0)
               ELSE Text("value", ValueOf(size, fields[i \div 2], req, n))

(* The answer to req with the first n of the blocks asked for.             *)
Reply(size, fields, req, n) ==
  LET p == ParamsEnd(fields)
  IN [i \in 1..(p + 2 + n) |->
        IF i = 1          THEN Start(p + 2)
        ELSE IF i <= p    THEN ParamUnit(size, fields, req, n, i)
        ELSE IF i = p + 1 THEN Text("filedata", 0)
        ELSE IF i = p + 2 THEN Length(n)
        ELSE ServedBlock(req.start + i - (p + 3))]

(* An answer that is all parameters.                                       *)
HeaderOnly(size, fields, req) ==
  LET p == ParamsEnd(fields)
  IN [i \in 1..p |->
        IF i = 1 THEN Start(p) ELSE ParamUnit(size, fields, req, 0, i)]

ReplySizes(size, req) ==
  IF ShortReplies THEN MIN(1, Asked(size, req))..Asked(size, req)
                  ELSE {Asked(size, req)}

-----------------------------------------------------------------------------
(* The files are opened with "wb+", which empties them.                    *)
Init ==
  /\ pc = "connect"
  /\ seq = 0 /\ total_file_size = 0 /\ recv_total_file_size = 0
  /\ recv_buffer = <<>>
  /\ req_bin = <<>> /\ res_mp4 = <<>> /\ res_bin = <<>>
  /\ file \in FileSizes
  /\ pending = <<>> /\ wire = <<>> /\ open = TRUE

Connect ==
  /\ pc = "connect"
  /\ pc' \in {"request", "disconnected"}
  /\ UNCHANGED <<counters, recv_buffer, req_bin, outputs, file, network>>

(* Mutant: the file is complete only when more than all of it is there.    *)
NextPcBeyond(total, got, connected) ==
  IF total > 0 /\ got > total THEN "complete"
  ELSE IF connected THEN "request" ELSE "disconnected"

(* What the outer loop does with the inner one's end.                      *)
NextPc(total, got, connected) ==
  IF total > 0 /\ got >= total THEN "complete"
  ELSE IF connected THEN "request" ELSE "disconnected"

(***************************************************************************)
(* send's result is not looked at: on a connection the server has closed   *)
(* the client goes on to recv, unless SIGPIPE ends it.  A process that is  *)
(* killed loses what stdio still holds of req.bin.                         *)
(***************************************************************************)
Prefixes(s) == {SubSeq(s, 1, k) : k \in 0..Len(s)}

(* Mutant: the request's number is not advanced.                           *)
SendRequestAgain ==
  LET req == Request(seq, total_file_size)
  IN /\ pc = "request" /\ pc' = "receive"
     /\ recv_buffer' = <<>>
     /\ req_bin' = Append(req_bin, req)
     /\ pending' = IF open THEN Append(pending, req) ELSE pending
     /\ UNCHANGED <<counters, outputs, file, wire, open>>

SendRequest ==
  LET req == Request(seq, total_file_size)
  IN /\ pc = "request"
     /\ seq' = seq + 1
     /\ recv_buffer' = <<>>
     /\ \/ /\ pc' = "receive"
           /\ req_bin' = Append(req_bin, req)
           /\ pending' = IF open THEN Append(pending, req) ELSE pending
        \/ /\ ~open
           /\ pc' = "killed"
           /\ req_bin' \in Prefixes(Append(req_bin, req))
           /\ pending' = pending
     /\ UNCHANGED <<total_file_size, recv_total_file_size, outputs, file,
                    wire, open>>

(* recv takes what has arrived, at most the size it was given.             *)
Received(n) == recv_buffer \o SubSeq(wire, 1, n)

Takes(n) ==
  /\ pc = "receive"
  /\ n \in 1..MIN(Len(wire), RecvSize)
  /\ wire' = SubSeq(wire, n + 1, Len(wire))
  /\ total_file_size' = ParsedTotal(Received(n), total_file_size)
  /\ UNCHANGED <<seq, file, pending, open>>

(* Mutant: a part that is no packet ends the inner loop, too.              *)
ReceivePartBreaks(n) ==
  /\ Takes(n)
  /\ PacketSize(Received(n)) = 0
  /\ recv_buffer' = Received(n)
  /\ pc' = "request"
  /\ UNCHANGED <<recv_total_file_size, req_bin, outputs>>

(* Mutant: recv stores at the buffer's start each time.                    *)
ReceivePartOver(n) ==
  /\ Takes(n)
  /\ PacketSize(Received(n)) = 0
  /\ recv_buffer' = SubSeq(wire, 1, n)
  /\ UNCHANGED <<pc, recv_total_file_size, req_bin, outputs>>

ReceivePart(n) ==
  /\ Takes(n)
  /\ PacketSize(Received(n)) = 0
  /\ recv_buffer' = Received(n)
  /\ UNCHANGED <<pc, recv_total_file_size, req_bin, outputs>>

(* Mutant: the whole packet is counted, its header with its payload.       *)
ReceivePacketCounted(n) ==
  /\ Takes(n)
  /\ PacketSize(Received(n)) > 0
  /\ res_mp4' = res_mp4 \o DecodedData(Received(n))
  /\ res_bin' = res_bin \o FileData(Received(n))
  /\ recv_total_file_size' = recv_total_file_size + PacketSize(Received(n))
  /\ recv_buffer' = <<>>
  /\ pc' = NextPc(total_file_size', recv_total_file_size', TRUE)
  /\ UNCHANGED req_bin

ReceivePacket(n) ==
  /\ Takes(n)
  /\ PacketSize(Received(n)) > 0
  /\ res_mp4' = res_mp4 \o DecodedData(Received(n))
  /\ res_bin' = res_bin \o FileData(Received(n))
  /\ recv_total_file_size' = recv_total_file_size + FileSize(Received(n))
  /\ recv_buffer' = <<>>
  /\ pc' = NextPc(total_file_size', recv_total_file_size', TRUE)
  /\ UNCHANGED req_bin

(* Mutant: res.bin is written first.                                       *)
KillWritingRawFirst(n) ==
  /\ Takes(n)
  /\ PacketSize(Received(n)) > 0
  /\ \E raw \in Prefixes(FileData(Received(n))) : res_bin' = res_bin \o raw
  /\ pc' = "killed"
  /\ UNCHANGED <<recv_total_file_size, recv_buffer, req_bin, res_mp4>>

(* The process is killed while Parse writes a packet: res.mp4 is flushed   *)
(* before res.bin is written.                                              *)
KillWriting(n) ==
  /\ Takes(n)
  /\ PacketSize(Received(n)) > 0
  /\ \E out \in Prefixes(DecodedData(Received(n))),
        raw \in Prefixes(FileData(Received(n))) :
       /\ raw # <<>> => Len(out) = FileSize(Received(n))
       /\ res_mp4' = res_mp4 \o out
       /\ res_bin' = res_bin \o raw
  /\ pc' = "killed"
  /\ req_bin' \in Prefixes(req_bin)
  /\ UNCHANGED <<recv_total_file_size, recv_buffer>>

(* Mutant: the end of the connection is seen only between two packets.     *)
ReceiveEndBetween ==
  /\ pc = "receive"
  /\ ~open /\ wire = <<>> /\ recv_buffer = <<>>
  /\ pc' = NextPc(total_file_size, recv_total_file_size, FALSE)
  /\ UNCHANGED <<counters, recv_buffer, req_bin, outputs, file, network>>

(* recv returns 0 or -1: all that was sent has arrived, the end is closed. *)
ReceiveEnd ==
  /\ pc = "receive"
  /\ ~open /\ wire = <<>>
  /\ pc' = NextPc(total_file_size, recv_total_file_size, FALSE)
  /\ UNCHANGED <<counters, recv_buffer, req_bin, outputs, file, network>>

(* Nothing times out: a stalled client is ended by its user.               *)
Kill ==
  /\ pc \in Waits
  /\ pc' = "killed"
  /\ req_bin' \in Prefixes(req_bin)
  /\ UNCHANGED <<counters, recv_buffer, outputs, file, network>>

(* Mutant: the files are opened to append.                                 *)
RestartAppending ==
  /\ pc \in Finals
  /\ pc' = "connect"
  /\ seq' = 0 /\ total_file_size' = 0 /\ recv_total_file_size' = 0
  /\ recv_buffer' = <<>> /\ req_bin' = <<>>
  /\ pending' = <<>> /\ wire' = <<>> /\ open' = TRUE
  /\ UNCHANGED <<file, outputs>>

(* The user runs the program again: all starts over, the files included.   *)
Restart ==
  /\ pc \in Finals
  /\ pc' = "connect"
  /\ seq' = 0 /\ total_file_size' = 0 /\ recv_total_file_size' = 0
  /\ recv_buffer' = <<>>
  /\ req_bin' = <<>> /\ res_mp4' = <<>> /\ res_bin' = <<>>
  /\ pending' = <<>> /\ wire' = <<>> /\ open' = TRUE
  /\ UNCHANGED file

-----------------------------------------------------------------------------
(* The server.                                                             *)
Answers ==
  /\ pc \in Waits /\ open /\ pending # <<>>
  /\ Len(req_bin) <= MaxRounds
  /\ pending' = Tail(pending)
  /\ UNCHANGED <<pc, counters, recv_buffer, req_bin, outputs, file, open>>

ServerReply ==
  /\ Answers
  /\ \E fields \in Layouts, n \in ReplySizes(file, Head(pending)) :
       wire' = wire \o Reply(file, fields, Head(pending), n)

ErrorReply ==
  /\ ErrorReplies
  /\ Answers
  /\ \E fields \in Layouts : 
       wire' = wire \o HeaderOnly(file, fields, Head(pending))

(* The connection breaks: some of what is on its way is lost.              *)
ServerClose ==
  /\ pc \in Waits /\ open
  /\ open' = FALSE
  /\ pending' = <<>>
  /\ wire' \in Prefixes(wire)
  /\ UNCHANGED <<pc, counters, recv_buffer, req_bin, outputs, file>>

-----------------------------------------------------------------------------
Receive == \E n \in 1..Len(wire) : ReceivePart(n) \/ ReceivePacket(n)

Next ==
  \/ Connect \/ SendRequest
  \/ \E n \in 1..Len(wire) : ReceivePart(n)
  \/ \E n \in 1..Len(wire) : ReceivePacket(n)
  \/ \E n \in 1..Len(wire) : KillWriting(n)
  \/ ReceiveEnd \/ Kill \/ Restart
  \/ ServerReply \/ ErrorReply \/ ServerClose

Spec == Init /\ [][Next]_vars

(* The client's calls return when they can, the server answers what it is  *)
(* asked.  Nothing makes it close, and nothing makes the user intervene.   *)
Fairness ==
  /\ WF_vars(Connect) /\ WF_vars(SendRequest)
  /\ WF_vars(Receive) /\ WF_vars(ReceiveEnd)
  /\ WF_vars(ServerReply)

FairSpec == Spec /\ Fairness

-----------------------------------------------------------------------------
(* Properties.                                                             *)

Requests == [start : Nat, end : Nat]

(* The shape of the client's variables (main.cpp:375-416).                 *)
TypeOK ==
  /\ pc \in Waits \cup Finals
  /\ seq \in Nat /\ total_file_size \in Nat /\ recv_total_file_size \in Nat
  /\ recv_buffer \in Seq(Units) /\ wire \in Seq(Units)
  /\ req_bin \in Seq(Requests) /\ pending \in Seq(Requests)
  /\ res_mp4 \in Seq(Units) /\ res_bin \in Seq(Units)
  /\ file \in FileSizes
  /\ open \in BOOLEAN

(* However the answers are cut by recv and wherever the connection or the  *)
(* process ends, res.mp4 is a prefix of the plain file: no block missing,  *)
(* repeated, out of order, or decoded with the wrong key byte              *)
(* (main.cpp:343-355, 428-438).                                            *)
OutputIsPrefix ==
  /\ Len(res_mp4) <= file
  /\ \A i \in 1..Len(res_mp4) : res_mp4[i] = Block(i - 1, {})

(* res.bin holds the blocks of res.mp4 as they were served; it is only     *)
(* ever behind, and only when the process was killed between the writes of *)
(* one packet (main.cpp:350-357).                                          *)
RawBesideOutput ==
  /\ Len(res_bin) <= Len(res_mp4)
  /\ Len(res_bin) < Len(res_mp4) => pc = "killed"
  /\ \A i \in 1..Len(res_bin) : res_bin[i] = ServedBlock(res_mp4[i].num)

(* "All data recv" is never said of a file with a hole in it: also when    *)
(* the server answers with less than was asked for (main.cpp:446-449).     *)
CompleteMeansWhole ==
  pc = "complete" =>
    /\ Len(res_mp4) = file
    /\ \A i \in 1..file : res_mp4[i] = Block(i - 1, {})

(* Also with short answers the output never goes back or repeats itself,   *)
(* and what is in it is decoded (main.cpp:163, 343-352).                   *)
OutputInOrder ==
  /\ \A i \in 1..Len(res_mp4) : res_mp4[i].mask = {} /\ res_mp4[i].num < file
  /\ \A i, j \in 1..Len(res_mp4) : i < j => res_mp4[i].num < res_mp4[j].num

(* The requests of a run cover the file without gap or overlap, and none   *)
(* begins past its end (main.cpp:163-168, 408, 446).                       *)
RequestsTile ==
  \A k \in 1..Len(req_bin) :
    /\ req_bin[k].start = IF k = 1 THEN 0 ELSE req_bin[k - 1].end + 1
    /\ req_bin[k].start < file

(* The next request's range and the count of what was written fit an int,  *)
(* up to a file of the largest length an int can say, although the end of  *)
(* the range is computed before it is cut (main.cpp:163-167, 433).         *)
IntegersFit ==
  /\ recv_total_file_size <= IntMax
  /\ pc = "request" => RangeStart(seq) + RANGE <= IntMax

(* The next request is sent only when nothing of the answer before it is   *)
(* still to come: Parse begins at a packet's first byte, and the bytes the *)
(* client drops with recv_buffer_offset = 0 are none (main.cpp:415, 436).  *)
RoundsAligned == pc = "request" => wire = <<>> /\ pending = <<>>

(* recv is given the whole size of the buffer although it stores behind    *)
(* what the buffer holds; one answer fits, so it stays inside it           *)
(* (main.cpp:415-426).                                                     *)
BufferFits == Len(recv_buffer) + Len(wire) <= RecvSize

(* A connected client ends up with the file unless the server closes the   *)
(* connection or the user ends the program (main.cpp:405-450).             *)
Completes == pc = "request" ~> (pc \in {"complete", "killed"} \/ ~open)

(* Once the server has closed the connection, the program comes to its     *)
(* end.  What has come of an incomplete packet is dropped (main.cpp:421,   *)
(* 440-443).                                                               *)
CloseEndsTheRun == (pc # "connect" /\ ~open) ~> pc \in Finals

(* The client implements Transfer.                                         *)
Status == CASE pc \in Waits     -> "running"
            [] pc = "complete"  -> "complete"
            [] OTHER            -> "given up"

PlainBlock(pos) == Block(pos, {})

T == INSTANCE Transfer WITH size <- file, output <- res_mp4, status <- Status

ImplementsTransfer == T!Spec

(* What the message of main.cpp:364 says, "Parse packet ok without         *)
(* filedata": a packet that is all parameters is taken as a packet.        *)
WholeHeader(buf) ==
  ~Rejects(buf) /\ ~HasMarker(buf) /\ Len(buf) >= buf[1].num

HeaderOnlyConsumed == ~(pc = "receive" /\ WholeHeader(recv_buffer))
-----------------------------------------------------------------------------
(* The inductive invariant of the proofs in DownloaderProof.               *)

(* The requests that have been answered, and the one that has not.         *)
Answered == IF pc = "receive" THEN seq - 1 ELSE seq
Current  == Request(seq - 1, IF seq = 1 THEN 0 ELSE file)

(* The positions the answered requests asked for.                          *)
Covered == IF pc \in Waits THEN MIN(RangeStart(Answered), file) ELSE file

AnswersTo(req) ==
  {Reply(file, fields, req, n) :
     fields \in Layouts, n \in ReplySizes(file, req)} \cup
  {HeaderOnly(file, fields, req) : fields \in Layouts}

Begins(buf, ans) ==
  /\ Len(buf) <= Len(ans)
  /\ \A i \in 1..Len(buf) : buf[i] = ans[i]

(* What the client has of the current answer and what is still to come are *)
(* together the beginning of one answer.                                   *)
NetInv ==
  /\ pc = "connect" =>
       seq = 0 /\ total_file_size = 0 /\ res_mp4 = <<>>
  /\ pc = "request" => total_file_size = IF seq = 0 THEN 0 ELSE file
  /\ pc = "receive" =>
       /\ seq >= 1
       /\ total_file_size = file \/ (total_file_size = 0 /\ seq = 1)
       /\ \/ wire = <<>> /\ recv_buffer = <<>> /\ pending \in {<<>>, <<Current>>}
          \/ /\ pending = <<>>
             /\ \E ans \in AnswersTo(Current) : Begins(recv_buffer \o wire, ans)
  /\ RoundsAligned
  /\ pc = "connect" => wire = <<>> /\ pending = <<>> /\ recv_buffer = <<>>
  /\ BufferFits

(* Blocks of the file below a position, in order, decoded; if as many as   *)
(* there are, then without a hole.                                         *)
FilledTo(out, pos) ==
  /\ Len(out) <= pos
  /\ \A i \in 1..Len(out) : /\ out[i] = Block(out[i].num, {})
                            /\ out[i].num \in (i - 1)..(pos - 1)
  /\ \A i, j \in 1..Len(out) : i < j => out[i].num < out[j].num
  /\ Len(out) = pos => \A i \in 1..Len(out) : out[i].num = i - 1

(* The output is what the answered requests asked for, or it has holes and *)
(* is shorter than that for good.                                          *)
OutInv ==
  /\ pc \in Waits \cup {"complete"} => recv_total_file_size = Len(res_mp4)
  /\ pc = "complete" => Len(res_mp4) >= file
  /\ FilledTo(res_mp4, Covered)
  /\ RawBesideOutput

(* With a server that answers in full, there are no holes, and a request   *)
(* begins inside the file.                                                 *)
FullServer == ~ShortReplies /\ ~ErrorReplies

FullInv ==
  /\ pc \in Waits => Len(res_mp4) = Covered
  /\ pc \in {"request", "receive"} => RangeStart(Answered) < file
  /\ \A i \in 1..Len(res_mp4) : res_mp4[i].num = i - 1
  /\ pc \in Waits => Len(req_bin) = seq
  /\ \A k \in 1..Len(req_bin) :
       /\ req_bin[k] = Request(k - 1, IF k = 1 THEN 0 ELSE file)
       /\ RangeStart(k - 1) < file
=============================================================================
