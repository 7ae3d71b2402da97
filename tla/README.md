# Specifications of WeChatChannelsDownloader

TLA+ modules, TLC configurations and TLAPS proofs for the download client
(`main.cpp`) and the library it is shipped with (`common/`).

    tlc -config MCDownloader.cfg MCDownloader.tla      # a run
    tlapm DownloaderProof.tla                          # a proof

## 1. The system

`main` connects to a media server, asks it for one range of a video after the
other, cuts what arrives into packets, decodes the XORed beginning of the video
with a key file, and appends the payload to `res.mp4` (decoded) and `res.bin` (as
it came); the requests go to `req.bin`. The first 0x20000 bytes of a video are
masked (the repository's README). `common/` is a library of its own: a log with
a thread, a configuration file, codecs, containers, locks, an allocation checker.
`main` uses none of it but a macro; its threads are those of the log.

| component | state | operations | meets | hard about it | right when |
|---|---|---|---|---|---|
| request loop, `main.cpp:370-460` | request number, total, received, buffer, three files | connect, send, recv, new run | socket, Parse, files | recv cuts anywhere, the connection or the process ends anywhere, short answers, a total read from a packet that is not complete | the output is a prefix of the plain file, "All data recv" means all of it, the loop ends |
| packets, `main.cpp:228-368` | none | Parse | the loop's total (in-out), both outputs | incomplete packets, two files written one after the other | only whole packets are taken, each block decoded with its key byte |
| requests, `main.cpp:18-222` | none | Req, Serialize | the loop | int range, inclusive ends | the ranges tile the file |
| log file, `LogFile.cpp` | FILE, memory block and its use, file length | Initialize, CreateLog, LogMsg, Mem2File, SetFlushBuffer, FlushMem2File, delete | the directory | rotation while the block holds part of the file, failing fopen, files named by the second | counters match contents; nothing lost but the block |
| log manager, `LogManager.cpp` | flags, level, two controllers, mMutex | Log, Start, Stop, settings | controllers, log thread, callers' threads | flags read without a lock, deletion while others may use | controllers used only while they are there, but by loggers that Stop overtakes; one order; Stop returns |
| log thread, `KThread.cpp` | thread id | Start, Stop | log manager | pthread_create may fail, join | at most one, gone before the controllers |
| configuration, `ConfFile.cpp` | map, file | Load, Get, Set, Erase, EraseSpace, EraseAll, Update | file system, Tea | replaced by unlink and rewrite, descriptors, a full disk | what is saved is read back |
| allocation checker, `CheckMemory*.cpp` | three lists | new, delete, report | every allocation of the program | two critical sections per delete; its own lists allocate | each block in one list; a report lists the leaks |
| codecs, `Arithmetic.cpp` | none | Base64, hex, URL, Tea, CRC, AES | configuration | 64-bit long, in-place strides | decode inverts encode (Tea does not) |
| containers, `KSafeList.h`, `KSafeMap.h`, `Buffer.h` | list and size, map, bytes | push, pop, find, write, toss | callers' locks | operations that leave the lock to the caller; limits | in order, none lost, size is the number of elements |
| locks and events, `event.hpp`, `KCond.h`, `KMutex.h`, `IAutoLock.cpp` | mutex, condition | lock, signal, wait | threads | a signal without memory | a waiter wakes and finds what it was signalled for |
| strings, `StringHandle.h` | none | find, split, replace, trim, search without case | | separators that overlap the end of a text | taking apart and putting together lose nothing |
| directories, `CommonFunc.cpp:26-285`, `LogFile.cpp:107,295`, `LogManager.cpp:283` | none | make, remove, clean | the file system, other processes | a look and a call are two steps | what was to be made is there, what was to be removed is gone |

`PROJECT.json` lists them all with what is modelled of each, the hazards found
in them at their lines, and the lines every definition translates.

## 2. The modules

Seven groups, the first two with an abstract specification on top.

**Downloader.** `Packet` (operators: what Parse makes of what is in the buffer) is
used by `Downloader` (the client's calls, the server, TCP), which implements
`Transfer` (a growing prefix, given up at any time, complete when whole).
`MCDownloader` instantiates it; `DownloaderProof` proves about it, and about the
bytes of a request (`RequestText`).

* The unit of `Packet` is the smallest piece Parse tells apart: the common header,
  a length-prefixed text, the length of the payload, one block of it. A unit of
  which not all bytes have come is one that has not come. Masking is the set of
  key positions XORed into a block, so decoding with the wrong byte shows.
* A step of `Downloader` is a blocking call of `main` with what follows up to the
  next: `SendRequest` is lines 405-416, `ReceivePart` and `ReceivePacket` a return of
  recv with Parse and the writes, `ReceiveEnd` a return of 0 or -1. `KillWriting`
  ends the process inside the writes of one packet; `Kill` at a call; `Restart` is
  the next run, with `wb+` files. What stdio still held of `req.bin` may be lost.
* The server is external: it serves `[start, end]` with both ends included, masks
  the file's first `EncLen` blocks and says how many in `X-enclen`. `ShortReplies`
  and `ErrorReplies` let it answer with less, or with parameters only.

**Log.** `FileCtrl` has an operator for each member function of `CFileCtrl`, from
the controller's state (directory included) to the next; they run under
`m_hMutex`, so a call is one step. `LogFile` is one directory over the life of
several processes; `LogManager` is two of them with the threads that log, the
main thread inside Start and Stop, the log thread, and mMutex. Both implement
`Journal`: records kept in order, each once, and only pending ones lost.
`FileCtrlProof` has the lemmas about the functions of the controller,
`LogFileProof` and `LogManagerProof` the theorems.

* A step of `LogManager` lies between two points at which another thread can see
  or change something. The flag is read before mMutex is taken (`Enter`, `Lock`),
  level and mode are read again for each directory (`LogNormal`, `LogDebug`), Stop
  is the flag, the join, one delete after the other.
* Nothing in Stop waits for a thread that has passed the flag in Log
  (`LogManager.cpp:91`), and Stop takes no mMutex. So Stop may overtake loggers, and
  delete a controller they are about to use or are using. `overtaken` notes which
  loggers were inside Log when the last Stop began, `fault` who has used a controller
  that was not there. Such a use has no defined outcome. The model has the thread go
  on with its record lost, or the process die; what else a write through a deleted
  object may destroy is not described, and no property is about it. A controller counts
  as there from the end of its OpenLogFile to the beginning of its delete, so that a call
  which the delete cuts short, or one on a controller half made, is a fault too.
* `ControllersThere` says how far the race goes: only loggers that Stop overtook,
  and only until they leave Log; the log thread, the settings, and a logger that
  has read the flag of a log not stopped since find both controllers. That the
  overtaken ones do use deleted controllers is a step of `LogNormal` and `LogDebug` that
  the run takes: the code does not exclude it.
* `time(NULL)` does not go back, nor does the local time that names the files
  (`LogFile.cpp:112-126`): the hour that is repeated when daylight saving ends is left out. `overwrites`, a variable that never changes, says
  whether two files may be created in one second. If so the later empties the
  earlier (`w+b`), and `Journal` allows for the loss of that file's records; if
  not, it allows for none. `LogFile` is checked against `Journal` for both.

**Configuration.** `ConfFile` is the map, the file as a sequence of lines, and
UpdateConfFile in its three steps. Reading follows strtok: an empty key takes the
value for the key, an empty line is an empty entry, the first of two entries of
one name counts, memory wins over the file. A cut line is a wrong entry. Texts
are numbers in the order of the strings. `ConfFileProof` proves about it, and about
the codecs, whose hex is the form a ciphered file would have.

**Allocation checker.** `CheckMemory` is the heap, the three lists, and for each
thread where it is in MyDelete. An operation of an `AllocList` runs under its lock
and is one step; DataList::Insert has none and is four: is there a head, the new
item, the walk, the link. Items of the `DataList` come from the operator new that
is checked, so they are blocks among the others, and the report, which has
emptied the list of blocks before it deletes them, makes each a lost block once
more. The program may leak, damage, and delete what has been freed and not given
out again; two threads do not delete one block at the same time, and the report
(`OutputMemoryLeakInfo`, which nothing in the repository calls) runs alone.
Operations that lose an item of the unlocked list are the outcomes of its data race.
`raced` notes that two threads were in it at once: without that nothing is lost.

**Texts.** `Codec`, `Cipher`, `Strings` and `RequestText` are operators, one for each
function of `Arithmetic` and `StringHandle` and for the bytes of a request; `Texts`
lets a text, a pattern and a request grow and states what they promise together.
A text is a sequence of bytes. Words of 32 bits are pairs of halves. A block
of AES is any invertible function. TEA is left out (section 5). A request's fixed texts are their lengths, each
filled with a byte of its own, so that a text in the wrong place shows. What the
codecs and a request promise stands beside them (`TextCodecsInvert`, `ReadsBack`): the
run checks it on the texts it grows, the proofs for all.

**Worker.** What the library offers to a program with a thread of its own, put
together: `KThread` by several owners under a recursive `IAutoLock` (which may
not be initialised), a `KSafeList`, an `Event`. An owner's call is a sequence of
steps in `todo`: Start looks and creates, Stop joins and forgets, a value is taken
back by Lock, the iterator, PopValueUnSafe and Unlock; a restart holds the
lock twice. The owners and the runnable are external.

**Directories.** The three makers of directories (`Mkdirs`, `MakeDir`, `MkDir`),
CreateLog on top of the first, and the removers, each of several processes in
one call, at the grain of a system call. A call fails only for what is there or missing:
permissions and symbolic links (which stat follows) are left out, and with them a
remove that fails (`CommonFunc.cpp:147`, unnoticed at 233). No call is for `/` alone,
which Mkdirs and IsDirExist cut to the empty text. Mkdirs never makes an absolute path: it
cuts it at its first slash, and mkdir of the empty text fails. MkDir tests a mode
that stat did not fill in for a level it has just made; at the first level that
is whatever the stack holds, and a nondeterministic choice. `DirectoriesProof`
proves about it.

## 3. The runs

| run | question | distinct states |
|---|---|---|
| `download` | a server that answers in full: prefix, both files, ranges, int, alignment, buffer, refinement, termination | 16 thousand |
| `download_short` | short answers and answers without payload: complete means whole, nothing goes back | 25 thousand |
| `download_header_only` | violated: "Parse packet ok without filedata" never happens | |
| `log_file` | counters, bounds, old files, the directory implements `Journal` | 0.19 million |
| `log_manager` | two threads, Stop at any moment: controllers, log thread, one order | 9 million |
| `log_manager_live` | one thread: `Journal`, Stop returns, the block is flushed | 1.6 million |
| `conf_file` | what is saved reads back; a cut file has one wrong entry at most | 1.9 million |
| `conf_file_erase` | violated: EraseSpace erases its space | |
| `check_memory` | two threads: each block in one list, the report tells the leaks and, without a race, what was deleted in vain, and ends | 0.5 million |
| `worker` | two owners, two threads, two values: one thread, order, nothing forgotten | 85 thousand |
| `directories` | three processes: makers among themselves, removers among themselves | 1 million |
| `texts` | decoders invert, strings agree, requests read back | 45 thousand |

*Bounds.* A chunk is 2 blocks, the key 2 bytes, files have 1 to 7 blocks: one chunk,
an exact multiple, one block over and under, four requests, and the largest
length an int of 3 bits can say, so that the range of the last request meets
`IntMax`. The receive buffer is the smallest that holds an answer. recv returns
every possible number of units. Two layouts of the parameters, one with the
length behind the masking and an unknown key between them. `MaxRounds` bounds only
the requests a server answers; with short answers it cuts runs that would not
end. Log: a record of one or two units, blocks none, just larger than a record, and
larger; a file full after three records; six records, three seconds: several
rotations and controllers, and a rotation in the second of a creation. Flushing every second turn of the
log thread instead of every sixth. Configuration: three spaces, two usable texts and one that begins
a comment, two entries in memory, two lines written by hand, one descriptor (so
that the second update of a process fails). Allocation checker: two allocations and two
deletes in vain, and as many addresses as these and their list items can take, since
an allocation that fails is not handled. Worker: two threads, so that one may be
left behind, and a restart within a start of the other owner; pthread_create fails at any time.
Directories: two levels below a relative and an absolute beginning, four trees to
start from (nothing, one level, both with files, a file in the way), processes
interchangeable. A race needs two, and a third that finds both at work. Texts: 10 octets,
at least one for each case of an encoder, in all combinations of three, which go
on with their period up to 18 bytes (three Base64 groups and more, a block of AES
and two bytes); searched texts of up to 4 letters of 4, two
of which differ in case, patterns of up to 3; requests at every change of the
number of digits and at the largest range that is an int.

Four runs do not check for deadlock. `log_file`: at the last second, with that
second's file there, nothing is left to do. `directories`: every process makes
one call. `texts`: the texts are full. `check_memory`: the report has ended.

*Fairness.* `download`: connect, send and recv return when they can, and the server
answers what it is asked. Nothing makes the server close or the user
intervene, so `Completes` allows for both. `log_manager_live`: the log thread and
the main thread inside Stop are scheduled; nobody has to log or to stop.
The process may be killed at any time under both. `check_memory`: the thread of the
report runs on. `worker`: owners and threads are scheduled. The thread's way into the list
is strongly fair, as the list's lock is given up again and again and a
`pthread_rwlock` does not starve for ever; the end of Event's second is a step of the
thread (nobody has to signal).

*What they show.* With a server that answers in full, the client writes the plain
file and nothing else, whatever recv, the connection and the user do, and ends. With
short answers it leaves holes, and then it never says that all is there, but asks
for ranges past the end for ever (`download_short` has no liveness property: there
is none). `src/main.cpp:421` gives recv more room than the buffer has left;
that is harmless because one request is out at a time and its answer fits. The log
loses what is in the block, and the files of one second; nothing else.

Every property of a passing run has a mutant of the code in `PROJECT.json` that
breaks it; mutants stand before the definition they change, with the bug in
their comment.

*Two disagreements between text and code.* An answer of parameters only is not
taken (`main.cpp:276` against the message of line 364). EraseSpace erases only the
entry with the empty key (`ConfFile.cpp:176` against `ConfFile.hpp:63`). Without a run,
as a reading shows them: AesEncrypt adds no block to a text of whole blocks
(`Arithmetic.cpp:426-440` against its comment in line 434), and two threads that delete
in vain at once may lose an entry of the report (`CheckMemoryList.cpp:248`).

## 4. The proofs

A theorem holds for every value of the constants that satisfies the assumptions
of its module; the runs show the same formula on one instance. All are safety:
invariants, two action properties, three refinements. Each rests on an inductive
invariant, which TLC had checked on the runs' instances before it was proved.

**Downloader** (`DownloaderProof`). For every chunk length, buffer, key, set of files and
layouts that satisfy the assumptions of `Packet` and `Downloader`:
`KeyAssumption`, `ClientAssumption` (the number of ints is a multiple of the
chunk: 2^31 and 2^17) and `ServerAssumption` (lengths are ints from 1 on; the
masked part is one chunk or nothing; an answer has both parameters and fits the
buffer).

*For any server*, also one that answers short or without payload:
`TypeCorrect`, `AnswersAligned`, `AnswersFit`, `CompleteIsWhole`, `OutputsInOrder`,
`RawAlwaysBeside`. They follow from
the inductive `TypeOK /\ NetInv /\ OutInv`. `NetInv` is needed because Parse runs on
parts: it says that what the buffer holds and what is on its way are together the
beginning of one answer to the current request, from which follows what Parse
sees at every cut (the lemmas at the beginning of the module), and that it fits. `OutInv`
says that the output is a selection of the blocks below what has been asked for,
each decoded, in order, so that when there are as many as positions there is no
hole; that is why the count at line 446 is enough.

*For a server that answers in full*: `PrefixAlways`, `RequestsCover`,
`NoOverflow`, `Refinement`. They add `FullInv`: no holes, and each request was
made with the range its number and the total give, starting inside the file.
`Refinement` maps the initial state and every step of `Downloader` to one of
`Transfer` or to a stutter.

*The bytes of a request* (`RequestsReadBack`), for every request number and every length
of a file: `ReadsBack`, the formula of the invariant `RequestReadsBack`. Its numbers
are unbounded, those of the code are ints; that the ranges stay ints is `NoOverflow`.
The parameters lie one behind the other, each beginning where those before it end;
a number has no more than the ten digits of an int, so both lengths of a parameter
fit 16 bits and the request its 4096 bytes; both lengths in the header are those of
what follows; and a reader that goes on from length to length finds the 23
parameters and is at the end.

**Log.** For records, files and memory blocks of every size (`FileAssumption`: the
lengths are positive; `MemAssumption`: a block is none or larger than a record).
`FileCtrlProof` proves what each function of the controller does to a
controller that is `Whole` (typed, its counters match, its files bounded) and
`Latest` (no file is newer than the one in use), and what it does to the sequence
of all its records: it adds one at the end, changes nothing, or loses the block.
The length of a file and the concatenation of the files are recursive functions
over a range of numbers; that they exist and are unique is proved by
induction on a set, from the library's well-founded relation on the naturals.

*One directory* (`LogFileProof`): `LogFileTypes`, `CountersAlwaysMatch`, `FilesAlwaysBounded`,
`OldFilesAlwaysKept` (an action property) and `JournalImplemented`, from
`Whole /\ Latest`. `Latest` is needed for the refinement: a new file comes
behind all others, or is the last one emptied.

*The manager* (`LogManagerProof`): `LogManagerTypes`, `ControllersAlwaysThere`,
`ThreadAlwaysBesideRun`, `OrderAlwaysSame`, `JournalImplemented`, for any number of
logging threads. `RunInv` says which controllers are there at each point of Start and
Stop, that a log thread means a log that runs or a Stop that waits for it, and that a
logger inside Log means a log that runs unless Stop has overtaken it; who is at
fault is among the overtaken, and they are still inside Log. `LockInv` gives each logger a record of its
own and at most one of them the mutex. `OrderInv` adds, for the common order, where the
record of each logger is: in neither directory before its turn, at the end of the
normal one between its two writes. This holds across a Stop and a new Start between the
two writes as well, since an overtaken logger keeps the mutex. One assumption is about names:
no logger is called "free", which stands for a mutex nobody holds, or "thread", the log
thread in `fault`. No theorem has a premise about when Stop is called; the outcomes of a
use of a deleted controller are those of section 2.

**Allocation checker** (`CheckMemoryProof`): `CheckMemoryTypes`, `BlocksAlwaysInOnePlace`,
`LeaksAlwaysTold`, `LostOnlyByRaces`, for any number of threads, addresses,
allocations and deletes in vain (`CheckAssumption`: an address is not NULL, the
thread of the report is none of the others). The inductive invariant has a part for each
reason a report could be wrong. `BlockInv`: no two threads delete one block, and
what a thread deletes is in no list or, before GetAndRemove, in the list of blocks.
`BoundsInv`: a broken block that was deleted is listed, told, or on its way to
the list. `ItemInv`: items of the list of lost blocks are allocated blocks which
the program does not have and no thread deletes, so the report deletes each once.
`OwnInv` counts: the checker's own blocks in the list, and the threads about to allocate
one, are no more than the deletes in vain; that is the bound on what the report names
beside the leaks. `LostInv`, while no two threads have met: at most one thread
is inside DataList::Insert and the list is still what it saw, so nothing is cut off.

**Worker** (`WorkerProof`): `WorkerTypes`, `OneThreadAlways`, `ListAlwaysInOrder`, for any
number of owners, threads and values. The calls of an owner are lists of
steps, so `LockInv` says that what is left of one is the rest of one of five
plans, and how often the lock is held before each step: this is why a
restart may hold the lock twice and still be alone. `ThreadInv` adds that an owner
about to create has seen no thread, `ListInv` that only who holds the
list's lock has an iterator.

**Configuration** (`ConfFileProof`): `ConfFileTypes`, `SavedAlwaysReadsBack`,
`CutAlwaysKeepsTheRest` (an action property), for any spaces, texts, entries in
memory, lines written by hand and descriptors (`ConfAssumption`). The inductive
invariant says that the map is typed and finite, and that after an update that
went through, until the next operation touches either, the file holds the lines
of the map and no update is under way. What has to be shown is then that
reading undoes writing. The lines *tell* the map: each entry's line stands behind
the header of its space with no other header between, and each entry has one. From
that follows what a reading finds for a name, the first line of that name in its
space; the exceptions are those in the property's own text, a key that begins
a comment and an empty key with a value, which is read as the key. That there is an order of spaces and of
entries to write in follows by counting; the concatenation of the spaces' lines is
a fold of the community modules, reasoned about by induction on the set of its
lengths. After a cut the argument runs on the part of the file that is left:
whatever the last, cut line reads as, names told before it are told as before.

*The codecs* (`CodecsInvert`, in the same module): `TextCodecsInvert`, the codecs' part of the
invariant `DecodersInvert`, for every text of bytes. An encoder's text is laid out of
pieces, one for each byte or group of three, each where the one before ends
(`Laying`). A decoder is a function that goes on from a place to a later one; that there
is one is proved from the end of the text backwards (`DecoderExists`). It then remains
to show for each codec that at the beginning of a piece the decoder reads what the
piece was made of and goes on behind it, whatever stands there: the six bits of a
Base64 digit, its padding and the line end behind it, the two digits of hex, a name of an
entity, which no other name begins like.

**Directories** (`DirectoriesProof`): `CallsAlwaysDeliver`, for any number of
processes, any paths and any trees to start from (`DirectoryAssumption`: there is
a process; paths are not empty and have no log's name in them; in a tree the level above
of everything is a directory; no directory has a log's name). Two arguments, as makers and
removers do not run together. With makers the tree only grows. A maker that is
about to make a level has the level above (`OnItsWay`), and one that fails at a level did so
because another made it after the look. `Succeeds` names who will deliver: among
those that have not failed one has come at least as far as the longest directory
made so far; when it is overtaken, the maker that overtakes takes its place.
So where nothing is in the way somebody always gets through, although no maker in
particular does. With removers
the tree only shrinks and stays closed. `Cleaning` says of each directory on a
remover's stack what may be in it: names still to be read, the directory the remover
went into, or the file at hand. At the end of the reading nothing is left, which is
why rmdir does not find it full.

*Only model-checked.* Liveness (`Completes`, `CloseEndsTheRun`, `StopReturns`,
`BlockIsFlushed`, `ReportEnds`, `Answered`), which TLAPS does not prove under fairness.
What AES, CRC and the string functions compute (`AesInverts` and `CrcMarks` in
`DecodersInvert`, and `StringsAgree`): the words of CRC are combined with the operator of
`Bitwise`, which a module with theorems cannot use, and `Texts`, which has them
beside the rest, cannot be proved about for that reason; so the invariants
`DecodersInvert` and `RequestReadsBack` themselves stay with the run, and the theorems
are about the formulas in them. The string functions stay with bounded
texts. Where a proof goes by induction over numbers, it takes the least element of a
set, from the library's theorem on well-founded relations: its induction
theorems take an operator, which no prover here can instantiate.

## 5. Not modelled, and why

The text of logs. Values beyond int in answers (atoi), and keys in answers
that are longer than Parse's 2048 bytes for them (`main.cpp:280`). The count
of received bytes (`recv_total_data_size`), which nothing reads. A missing key
file. Answers to a file of length 0. Of the log: LogUnSafe, STDMode, failing
fwrite, FileOpen and ReadMsg, the lazy singleton, daylight saving, and what the use of
a deleted controller does beside losing the record. Of the configuration: ciphers,
keys that begin with `[`, lines longer than fgets' buffer. Of the allocation
checker: the destructors of its lists, failing malloc. Of the codecs: ChangeCharset
(iconv), and TEA (`Arithmetic.cpp:81-125, 509-543`): it is written for longs of 4 bytes, and
the Makefiles build for the machine they run on, where a long has 8. There a block
reaches into the next, the key is read two longs past its end, and the sum that encipher
ends with is not the one decipher begins with, so that decoding does not give back the
text; the ciphered configuration file therefore has no model. Of the strings: empty patterns, for which
split and replace do not end; findStringBetween past its buffer. Of the helpers: CopyFile,
RenameFile, random numbers, the clock. `KSafeMap`, `KMutex`, `KCond` (a call of
pthread per member), TryLock, `Buffer` (one caller, nothing uses it). MD5 and AES are vendored.

## 6. Plan

In order of what can go wrong unseen:

1. Downloader group, with proofs: done.
2. Log group: `FileCtrl`, `LogFile`, `LogManager` over `Journal`, both meanings of a
   second, with proofs: done.
3. `CheckMemory`, `Worker`, with proofs: done but for the end of the process.
4. `ConfFile`, with proofs: done without cipher.
5. `Directories`, with proof: done.
6. `Codec`, `Cipher`, `Strings`, `RequestText` under `Texts`: done, the first and the
   last with proofs.
