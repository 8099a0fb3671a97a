# cifscp in TLA+

`cifscp` copies files between a local directory and an SMB/CIFS server. It is a
sequential C program over a small client library (`libcifs`): one process, one
TCP connection at a time, one request in flight. What makes it hard is not
threads but the world outside: a byte stream that is cut anywhere, packets that
are not the one waited for, replies that come in parts, reads and writes that do
less than was asked, files that change while they are copied, and a process that
is killed and started again over what it left behind.

The modules here follow the C files. `PROJECT.json` says for every definition
which lines it models.

## Inventory

| Part | Files | State | Operations | What makes it correct |
|---|---|---|---|---|
| buffer | `libcifs/buffer.c/.h` | begin, cursor, end, limit | new, resize, set, inc, range, writers | the cursor never leaves the allocation; sizes and offsets agree with what was written |
| transport | `libcifs/transport.c/.h`, `struct.h` | socket, input and output packet | `cifs_recv`, `cifs_recv_raw`, `cifs_recv_async`, `cifs_send`, `cifs_request`, NetBIOS session, resolve | never loses its place in the stream; messages in order, none lost |
| transactions | `libcifs/transact.c` | setup, param, data buffers, used again | request, receive | a reply is complete, and only this request's |
| protocol | `libcifs/proto.c` | capabilities, sizes, tree ids | connect, negotiate, session, tree, open, read, write, close, mkdir, unlink, rmdir | calls in the order the protocol allows; the result of a call is that of its reply |
| directory search | `libcifs/find.c` | search handle, entries left, resume position | mask, readdir, closedir, stat, scandir | every entry once; the handle closed |
| browser | `libcifs/rap.c` (`rpc.c` is an unbuilt copy) | tree switched to IPC$ and back | scannode | the tree is restored |
| download, upload | `cifscp.c` | handle, offset, rest | `cifs_download_file`, `cifs_upload_file` | the copy is a prefix at all times, and complete on success |
| cifscp | `cifscp.c` | arguments, connection, the recursion's place | list, browse, download, upload, recursion, main | the destination mirrors the sources; connections closed; every invocation ends |
| flow | `flow.c` | three marks and their bytes | flow | the window covers what it claims; the limit of `-s` is kept |
| human, uri | `human.c`, `uri.c` | none | parse and format | agree with the documented forms |
| cifscat | `cookie.c` | a position in a remote file | open, read, write, seek | the stream of the C library |
| codepages | `libcifs/codepage.c` | output buffer, room, place in the input | convert into a given or a growing buffer | all converted, inside the buffer |
| spider, fuse, rpc copy, logging, constants | `cifs_spider.c`, `fusecifs.c`, `rpc.c`, `debug.c`, headers | | | not modelled, see below |

How they interact: `cifscp.c` calls `proto.c` and `find.c`; these fill the output
packet and call `cifs_request`, or `cifs_send` followed by a receive of their own
(reads), or `cifs_trans_request` (searches, browser). All of them share the two
packets of the connection: a reply is looked at in the buffer in which the next
one will arrive. Nothing is matched by an identity, only by the command, so the
whole program relies on the transport never being one packet off.

## Modules

| Module | Models | How |
|---|---|---|
| `NetBuf` | `buffer.h`, `buffer.c` | a buffer is a record of offsets `[p, e, x]`; the macros are operators with the same arithmetic |
| `PacketDelivery` | abstract | messages are delivered in order, each once, control packets never |
| `Transport` | the receive half of `transport.c` | one action per `recv()` with everything up to the next one; `pc` says which loop the caller is in |
| `Transact` | `transact.c` | `Request` and one `Receive` per packet, over a connection that delivers whole packets in order; the server divides its reply in every way |
| `FileCopy` | abstract | a copy grows by the bytes that come next and never beyond its goal; success means that the goal is reached |
| `Download` | `cifs_download_file`, `cifs_open`, `cifs_read` | one action per request or system call; kill and restart; a remote file that changes its size |
| `Upload` | `cifs_upload_file`, `cifs_open`, `cifs_write` | the same in the other direction; writes whose client is gone may take effect later |
| `Find` | `find.c` and the walks of `cifscp.c` over server directories | one action per call with its request and reply; the searches of the client as a stack, those of the server as a table |
| `Session` | `cifs_connect` and all it calls, `cifs_request`, `cifs_mkdir`, `cifs_scannode` | one action per request with its reply; the header of the output packet keeps tree and user between calls |
| `Cifscp` | `main`, `cifs_list_node`, `cifs_upload_dir` | above `Session`: its actions are steps of `Session` with what the command does with them |
| `Packet` | the writers of `buffer.h`, `cifs_packet_setup`, `cifs_packet_unparse` and every request | operators over `NetBuf`: what a request says of itself, from the lengths of its parts |
| `Flow` | `flow.c` | one action per call with its sleep; a clock that ticks and may be set back |
| `Codepage` | `codepage.c` | one action per return of `iconv()` and what follows it |
| `Cookie` | `cookie.c`, the flags of `cifs_open` | one action per function of the stream, beside the stream that C11 promises |
| `Uri`, `Human` | `uri.c`, `cifs_decode_hsize` | operators and one action that takes an input; the documented form as reference |
| `MC...` | | instances for TLC; `MCClient` puts the last seven together, one to a behaviour |
| `...Proofs` | | theorems and their proofs |

`Transport` implements `PacketDelivery`, `Download` and `Upload` implement
`FileCopy`: the abstract specification is a PROPERTY of their runs. `Transact`
stands on what `Transport` shows (packets in order, whole), `Download` and
`Upload` on what both show (a request is answered by its own reply). `Cifscp` is
made of the actions of `Session`; for it a copy of a file (`Download`, `Upload`), a
search and a walk over the server's directories (`Find`) are one call.

Operators whose comment says *Mutant of* are plausible errors of the code. They
are used by no specification; put in the place of the definition they name, each
breaks the property that it is listed with in `PROJECT.json`.

### Transport

The stream is the sequence `sent` of the peer's packets and the positions
`starts` where they begin; `arrived` bytes are in the socket, `rd` have been read.
A byte is its position, so that "reading from the wrong place" can be said: the
header at a position that is no packet's start is any header (`Decode`). `buf` is
the input packet's buffer, `hdr` the last header the code decoded (with the
number of the packet it really came from), `left` counts down the raw header,
raw body and skip loops. `got` records which packet ended each call and how.

`recv()` may return any part of what was asked for. At the end of the stream it
returns 0 and every loop calls it again: the program spins, the model stutters. A
pending error is reported once (`link` goes from `rst` to `dead`), and a loop that
ignores it (`SkipBroken`: no caller of `cifs_recv_skip` looks at its result) goes
on without one. After that nothing is promised.

Callers call `cifs_recv` and `cifs_recv_raw` whenever none is running. A caller of
`cifs_recv_async` first polls when the buffer is used up (on a fresh connection
it is not: its buffer is open to its limit and the first poll would take in
anything) and, once it has begun a packet, polls until it is complete.

### Transact

A byte of a reply is the pair of its transaction and its index; `pmem`, `dmem` are
the contents of the parameter and data buffers, which stay from one transaction
to the next as in the code. A server's answer is a division of the totals into
fragments (`Plans`), with totals that may be larger in the first fragments than
in the last (`Piece`), or a packet that has to be refused (`Refusals`).
`Ordered` and `SetupInParts` say what servers may do beyond that.

### Download and Upload

A byte of a copy is its position in the source. The variables are those of the C
functions: `off`, `rem`, `res`, `fid`, `size`. `handles` is what the server holds
open. A reply without effect and a refusal are bounded by `MaxStalls`; all other
progress is bounded by the sizes of the files.

`Download`: the remote file may grow and shrink at any moment (`Resizes`). A raw
read returns what is there, or nothing for any reason. An ordinary read that is
refused (`ReadErrors`) is taken for an error or for an empty read, because
`cifs_read_andx_recv` does not look at the status.

`Upload`: a process that is killed, or whose connection fails, between a request
and its reply leaves the write behind in `late`; the server may perform any part
of it at any later time. `RefusedHard` is an error of the class that
`cifs_packet_errno` does not know: the call succeeds with the count of an earlier
reply.

### Find

A walk is `cifs_get_size_dir`, `cifs_download_dir` (`nested`: a directory is entered
as soon as it is found, with the searches above it open) or `cifs_list_dir` over
`cifs_scandir` (a directory is entered after its parent's search has been closed,
from the list `subs`). `stack` holds the `struct cifs_dir_s` of the walk with what is
left of their buffers; `searches` is the server's table of handles and how far each
search has come. `pending` are the directories still to be entered, `given` counts
how often an entry was handed to a caller. A server may divide a listing as it
likes and announce its end with the last entries or later (`Batches`); it may
refuse any request, and the connection may be lost (`MaxFaults` together). A
request and its reply are one step, as `Transact` shows for fragments in sequence.

`asked` is what the client believes to have closed: `cifs_find_close_req` sends
another command, so the server's table does not change.

### Session

`conn` is `struct cifs_connect_s` as far as it outlives a call: the tree of the
share, that of IPC$, and the tree and user that stand in the header of the output
packet. `link` is what the server knows: whether the NetBIOS session and the
negotiation are done, the user, the trees with their shares. `last` is the request
that came last with `link` as it was then, so that `InProtocol` can say what the
server could expect. `call` is the call under way; `ret` its result.

A reply is `ok`, `refused`, `hard` or `lost`. A `hard` refusal is one of the class ERRHRD or of
a class that does not exist: `cifs_packet_errno` returns 0 for it, and `cifs_request` and
`cifs_trans_recv` report success. The client then goes on with what stands in the header of
the refusal (the tree 0xFFFF, `NoTree`, is a number for it, the user is none) and with a
directory that was not made. `misled` collects what was refused to the connection in this
way; `InProtocol` and `Mirrored` name for each rule which of these refusals excuses it.

A request on a connection that is gone may end the process by SIGPIPE (`SigPipe`); a connection that the server
closes while its reply is awaited makes the receive loop spin (`Spin`). Servers may
listen on both ports, one or none, and not answer although they listen. Any client
of the calls is `SessionNext`; the commands are in `Cifscp`.

### Cifscp

`inv` is a command line with what it meets: the sources, the destination, the
server's files and directories. `pc` is the place in `main`, `i` the source, `left` the
matches or domains to come, `stack` the recursion of `cifs_upload_dir` with the entries
that each level still has. Local directories are a graph, for `stat()` follows links;
the system refuses a path with more than `MaxLinks` of them. Every examination and
every `opendir` may fail. A name may stand for a pipe, a socket or a device (`Specials`),
which `cifs_upload_dir` leaves out without a word (`SkipSpecial`). A copy that fails may have
made its file (`Copied`). `made`, `puts`, `failed` and `leaks` are histories for the properties.

### Packet

A packet is its words, where its bytes begin, and the buffer of its bytes. A
request is described by the lengths of what it contains (`n`, `m`), by Unicode or not,
and by the size the server accepts; `RequestOf` gives its packet and the offsets and
counts it states. `WellFormed` is what a server needs to take it apart.

### Flow, Codepage, Cookie, Uri, Human

`Flow`: `marks` is the total at the two marks, to compare `d` and `e` with. Differences
of times have no sign. `Codepage`: a character has an end in the input and one in the
output, and may be impossible to convert; `size` and `room` are counted apart as in the
code.
`Cookie`: `ref` is the stream with its position and length as C11 promises them for
the same calls: a write in a mode of "a" goes to the end of the file wherever the stream
is (`PromisedAt`), and a seek before the beginning fails and leaves it alone. The code does
neither; `astray` says that a client has made such a call, or has sought the end after the
file has grown. `Uri`: a text is a sequence of names, separators and escapes.
`Human`: a number, the letters after it, and the memory behind its end, which
`cifs_decode_hsize` looks at when there is no suffix. `LimitDecoded` is about arguments with a
suffix, `LimitAsDocumented` about those without.

## Runs

| Run | Shows |
|---|---|
| `Transport` | `TypeOK`, `Framed`, `IInv`, `DeliversInOrder`, `Answered` with all three kinds of receive call; `BlockingLosesNothing`: callers that have not used `cifs_recv_async` miss no message at all |
| `TransactOrdered` | `ReplyWhole`, `InSync`, `Accepted`, `Answered` for fragments in sequence |
| `TransactReordered` | counterexample to `ReplyWhole` when fragments change places |
| `Download` | `LocalIsPrefix`, `OffsetsAgree`, `HandleClosed`, `CopiesFile`, `Terminates` |
| `DownloadTruncated` | counterexample to `StopsAtEOF` |
| `UploadSafety` | `RemoteIsPrefix`, `NoGap`, `HandleClosed`, `CopiesFile` |
| `UploadLive` | `Terminates`, with hardware errors and a local file that shrinks |
| `UploadHardError` | counterexample to `RemoteIsPrefix` |
| `Find` | `SearchHeld`, `EntryOnce`, `Complete`, `Terminates` for both kinds of walk |
| `Client` | `InProtocol`, `ClosesConnections` for all commands and any client; `Mirrored`, `OneOrigin`, `Terminates` for the commands; `WindowRight`, `RateBound`, `Converted`, `StreamAgrees`, `UriRoundTrip`, `LimitDecoded`, `RequestsWellFormed` for the parts |
| `LimitSuffix` | counterexample to `LimitAsDocumented`: `-s` with a number and no suffix |
| `FindClose` | counterexample to `ClosedOnRequest` |

Bounds. *Transport*: a header of two bytes, so that it can arrive in two parts;
bodies of up to two bytes for the same reason; three packets, so that a control
packet can come before, between and after messages, and so that a mistake in one
packet meets a next one; raw buffers that hold all or none of the bodies. *Transact*:
two bytes of each kind and three fragments reach every order of "parameters
complete", "data complete" and "nothing new"; two transactions show what one
leaves for the next. *Download*, *Upload*: files of four bytes with a buffer of
three and reads or writes of two or three take several reads of several buffers;
two or three invocations let the remains of one meet the next; the handles 0 and
1 stand for the value that the cleanup takes for none and all others. *Find*: a tree
of three directories, one of them empty, with the dots in the middle of a listing;
up to four entries are divided in every way, and two searches are open at a time
beside the one that `cifs_stat` leaves behind; two failures let a second one meet
what the first has left. *Client*: two trees (the share's and that of IPC$) and one
user; servers that listen on both ports and may fail to answer on either; refusals of all
classes; command lines of two sources of every kind, so that each
meets what the one before left; a directory in a directory for the way back, a
link to the directory it lies in, followed twice, and a pipe; destinations that are the share, a
directory, a file, missing, or below a missing one. The clock reaches eight units
with an interval of one, so that the window moves several times; texts of three
characters in buffers that are too small, filled exactly, or doubled twice; names of
one character up to `PATH_MAX` in a buffer of the real size; for `Human` a factor of
four and an `int` of eight bits make every overflow happen.

Fairness. TCP delivers what was sent, and a process that can take a step takes it
(weak fairness on `Arrive` and `Run`, `Receive`, `Step`, `Client`, `Copy`). A server answers the
request it has received (`Answer`, and the server's half of `Step` and `Copy`) or its
connection ends; the code has no timeout for one that does neither. Nothing
obliges a peer to send, a caller to call, a user to start the program again, or a
connection to hold.

`CHECK_DEADLOCK FALSE` is in every configuration: a session in which the bounds
are used up and nobody calls is over.

## What the violations say

* `TransactReordered`: `cifs_trans_recv` recognises the end of a reply by the
  cursors of the fragment copied last. The protocol lets a server send fragments
  out of sequence; a last fragment that comes early ends the call, with bytes of
  the transaction before in its place, and its late fragment is read as the
  reply to the next request.
* `DownloadTruncated`: the loop of `cifs_download_file` ends only when all the bytes
  that the file had at its opening are there. After a truncation it reads zero
  bytes for ever.
* `UploadHardError`: `cifs_packet_errno` returns 0 for the class ERRHRD, and the count
  of an earlier write is taken for that of the refused one. On a full disk
  `cifscp` goes on behind a gap and reports success.
* `FindClose`: `cifs_find_close_req` has the command code of a negotiation. A
  server answers a second negotiation with an error and does nothing; a search
  that is given up before its end (a local directory that cannot be made, a
  failed or empty reply, a `cifs_stat` with several matches) stays open as long as
  the connection.

* `LimitSuffix`: the usage text has the suffix of `-s` in brackets. `cifs_decode_hsize` moves
  its pointer on also when there was none, looks behind the end of the argument, and returns
  -1 unless a zero lies there; a limit of -1 is none.

More of what the code does otherwise than a reader may expect is in the models and
not in a run of its own:

* `Transport`: `cifs_recv_async` hands over a message only after a body: the
  zero-length reply to a raw read at the end of a file is passed over (`LoseEmpty`).
* `Transact`: with `SetupInParts` a third fragment after setup words is refused, because
  the cursor of the setup buffer is not set back between fragments.
* `Session`: after a refused IPC$ the header keeps tree -1 (`denied`), and calls on
  files go to no tree. A refusal with the class ERRHRD is taken for success by every call:
  a user or tree that was not given is used, a directory that was not made is filled. A send on a lost connection ends the process by SIGPIPE; an
  orderly close by the server lets it spin.
* `Cifscp`: pipes, sockets and devices in an uploaded directory are skipped without a
  message. An address with an unknown scheme crashes `main` (`BadSource`: the result
  NULL is looked at). Sources on the wrong side are passed over in silence by list
  and download. A failed search in a download leaves its connection open (`Forget`).
  A list or upload ends at a server that cannot be reached, a download goes on. The
  exit status is 0 whatever copy has failed. Several matches of one mask with one
  destination that is not a directory are appended to each other.
* `Flow`: the limit of `-s` is exceeded, because a wait counts for two windows; by a
  factor of two at most (`RateBound`).
* `Human`: any other single letter than a suffix is accepted. The limit is an `int`: `2g` is
  negative and `4g` and every number of `t` are 0, so that none applies. `LimitDecoded` says
  that an `int` keeps what it can, not that this is what the user meant.
* `Cookie`: a failing read or write moves the stream back by a byte; the end that is
  sought is that of the opening; a write in a mode of "a" goes to where the stream was moved,
  not to the end of the file (C11 7.21.5.3); a seek before the beginning succeeds; a mode with another letter (`rb+`) is not read
  further, so that `wbx` overwrites a file that `wx` would refuse. A URI or connection
  that is not to be had crashes the way out.
* `Uri`: escapes are resolved before the address is taken apart (an escaped `@` in a
  password divides it), and a beginning of a scheme's name will do, also none.
* `Codepage`, `Packet`: a path whose conversion does not fit is left out, and the request
  has an empty one. The strings of the session setup are not aligned (a comment in
  `proto.c` says so). A write may exceed the server's limit by its header.

## Proofs

Checked by TLAPS for every value of the constants that the named assumptions of
the modules admit. These are, with what they ask for:

* `TransportAssumption`, `TransactAssumption`, `DownloadAssumption`, `UploadAssumption`,
  `FindAssumption`, `FlowAssumption`, `HumanAssumption`: natural numbers where the code has
  unsigned ones, buffers and headers of at least one byte, packets no longer than a header
  can say;
* `SessionAssumption`, `NoneAssumption`, `CifscpAssumption`: command lines and directories
  that are made of names, special files that are no directories, "no value" different from a
  connection; a server gives no tree the number 0xFFFF and no user the number 0;
* `TreeAssumption`: the directories of the server are a tree below the one where a walk
  begins (a name leads to one directory, and each is named once);
* `PacketAssumption`: a buffer of at most 65535 bytes (`CIFS_MAX_BUFFER`), and requests whose
  names leave room in it for the rest, as those up to `PATH_MAX` do;
* `TextAssumption`: the characters of a text lie one behind the other in the output, and a
  byte that cannot be converted takes three;
* `CookieAssumption`: the modes of C11 except `wbx`, of which the code misses the `x`;
* `UriAssumption`: a part of an address holds no separator that would end it (a host no
  ":", "/" or "@", a password no "/" or "@", a file no "/"), a port is a number with a name,
  and no token of an address is an escape or a backslash.

| Module | Theorems | Conditions |
|---|---|---|
| `TransportProofs` | `TypeCorrect`, `InvCorrect` (`IInv`), `FramedCorrect` (`Framed`), `DeliveryCorrect` (`Transport` implements `PacketDelivery`) | |
| | `BlockingCorrect` (`LosesNothing`) | `Async = FALSE` |
| `TransactProofs` | `TypeCorrect` | |
| | `InvCorrect`, `WholeCorrect` (`ReplyWhole`), `InSyncCorrect` (`InSync`), `AcceptedCorrect` (`Accepted`) | `Ordered = TRUE`, `SetupInParts = FALSE` |
| `DownloadProofs` | `TypeCorrect`, `PrefixCorrect`, `OffsetsCorrect`, `HandleCorrect`, `CopyCorrect` (`Download` implements `FileCopy`) | |
| `UploadProofs` | `TypeCorrect`, `HandleCorrect` | |
| | `PrefixCorrect`, `GapCorrect` | `HardErrors = FALSE` |
| | `CopyCorrect` (`Upload` implements `FileCopy`) | `HardErrors = FALSE`, `Shrinks = FALSE` |
| `FindProofs` | `TypeCorrect`, `HeldCorrect` (`SearchHeld`), `InvCorrect`, `OnceCorrect` (`EntryOnce`), `CompleteCorrect` (`Complete`) | |
| `SessionProofs` | `InvCorrect`, `ProtocolCorrect` (`InProtocol` for any client) | |
| `CifscpProofs` | `CommandCorrect`, `ProtocolKept` (`InProtocol` for the commands), `ConnectionsClosed` (`ClosesConnections`), `OriginCorrect` (`OneOrigin`), `MirroredCorrect` (`Mirrored`) | |
| `PartsProofs` | `RequestsCorrect` (`WellFormed` for every request), `WrittenCorrect` (`RequestsWellFormed`) | |
| | `InvCorrect` (its `IInv`), `WindowCorrect` (`WindowRight`), `RateCorrect` (`RateBound`) | |
| | `LimitCorrect` (`LimitDecoded`: arguments with a suffix), `ConvertedCorrect` (`Converted`), `StreamCorrect` (`StreamAgrees`), `RoundTripCorrect` (`UriRoundTrip`) | |

*Transport.* `Framed` alone is not inductive: that the next packet starts where the
code believes it to start after a header depends on that header being the true
one (`TrueHeader`), on packets standing one after the other in the stream
(`Layout`), and on what each place in the code says about its counters (`Shape`:
a raw header has between one byte and `NBT` bytes to go, a buffer that is larger
than a header has room for exactly the body of `hdr`). `Passed` adds that whatever
lies between the last delivery and the packet being read may be passed over,
which is what the refinement needs. `IInv` is the conjunction. The proof works
with `Where`, the same two facts spelled out for every value of `pc`
(`WhereIff`), because each action then touches one line of it. `NextHeader` is the heart of
it: four bytes read at the end of packet *k* can only be the header of packet
*k + 1*. The refinement is one lemma per receive call (`RecvAbs`, `SkipAbs`,
`RawAbs`, `PollAbs`): a step either delivers the packet of `hdr` or changes
neither `sent` nor `got`.

*Transact.* `OneReply` is the invariant: while a transaction runs, either its request is
unanswered and the buffers are as `cifs_trans_request` left them (`Waiting`), or one packet
that breaks a rule is on its way (`Refusing`), or some plan `q` and number `i` exist such
that the packets on their way are exactly the fragments behind the `i`-th and the buffers
hold what the first `i` brought (`Coming`, `Filled`). `PieceIs` is the arithmetic of a plan: a
fragment lies within the totals, and only the last one reaches both of them, which is
why two cursors are enough to recognise it (`TakeInv`). Both conditions are needed: fragments
out of sequence end the loop early (the run `TransactReordered`), setup words in several
fragments are refused by the third. `TypeCorrect` has no conditions: the checks of
`cifs_trans_recv` keep the cursors inside whatever a server sends.

*Download.* `IInv` adds to the properties what a loop iteration may rely on:
`Waiting` (a byte that was read waits to be written only in the writing part of
the loop, where the rest has already been counted down; the ordinary read is
used only when there is a rest) and `HandleHeld` (from the opening to the end of the loop
exactly `fid` is open at the server, on a failure at most `fid`). Without `Waiting`
`OffsetsAgree` is not preserved by a read; without `HandleHeld` a close could
leave another handle open. The refinement follows step by step: a write of the
buffer is the copy's growth, everything else begins, ends or leaves it alone.

*Upload.* Three invariants, each on the one before. `IInv` is what holds whatever
the server answers. `PInv` adds `RemoteIsPrefix`, `NoGap` (every write, present or
late, begins inside the remote file or at its end) and `SizeSeen` (the size seen at
the opening is not beyond the file); a write that keeps to them changes nothing
or appends what belongs there (`OverlayGrows`). With errors of the class `ERRHRD`
this is false (`UploadHardError`), hence `HardErrors = FALSE`. `CInv` adds
`WithinSize`: no write reaches beyond the local file, whose size must stay what it
was (`Shrinks = FALSE`) for success to mean that the copy is complete.

*Find.* `SearchHeld` needs `Apart`: searches that are open at the same time have different
handles, so that a step of one leaves the others where they are. `EntryOnce` and
`Complete` need to know where each directory is: pending, in the list of an outer search,
being listed, or done (`Waits`, `Entered`), never in two of these places (`Unique`), and found
before any of them (`Fresh`); what has been handed out of a directory is what lies before the
cursor of its search. `Covered` is the same from the other side, as long as nothing fails: a
directory that was found is in one of these places or wholly handed out. When the
walk ends there is no place left, so the directories that were found are all done, and
`TreeAssumption` says that a set with the root and all that its members name is everything.

*Flow.* The bound on the rate is not inductive: a call knows only what its window
holds. `AtMarks` bounds the totals at the marks and now: what had been counted at a
mark is covered by the time up to this mark and the time up to the next one. A
wait makes up for the window from `a`, so that the new total costs the time since `a`,
and what was counted before `a` the time until `b` twice at most. As the times up to
two successive marks are added, the factor is two.

*Session.* `SessionInv` has three parts: `Stages` says of every step of `cifs_connect` what
the server knows by then and that no tree is in use, `HeaderRight` of an established
connection that the tree in the header is the one the call under way needs, and
`InProtocol` itself. Each part is said under the refusals that leave it standing: a tree that
was refused and taken for given is `NoTree` in the header, and a stage that was refused
and taken for passed is in `misled`. There is one lemma for each action, and `Cifscp` cites them, as its steps
are made of these actions.

*Cifscp.* `CommandInv` adds the sockets (`SocketsRight`), the forgetting of a connection
(`ForgetRight`: only a download gets there, and between calls) and the origins of
local files. `UploadInv` carries `Mirrored`, under `Straight` (no mkdir, lookup or copy was refused and
taken for success) where it says that something is at the server: while the recursion runs, every entry of a
directory that was made is taken, failed, or still to be done by the level of the
stack that stands for this directory. The case of each action is a lemma.

*Packet.* Each writer moves the cursor by a bounded number of bytes (`PutIs`, `TextIs`,
`TextZIs`, `PadIs`); a packet that ends within its buffer states its sizes uncut
(`SizesFit`); `WellFormedIf` reduces `WellFormed` to the offsets and counts of a request, and
one lemma per request gives these.

*Human.* What lies in memory at each place of an argument (`MemoryIs`, `MoreIs`), then one case
per clause of `SuffixDecoded`.

*Codepage.* `Converting` says why `iconv()` stopped: a character that cannot be converted, or that
needs more than the room there is; the failure of a conversion follows from this
and from the order of the places in the output (`NextBytes`).

*Cookie.* `FlagsRight` is the table of modes: what the flags ask the server to do is what C11
promises. What follows is claimed as long as no call has failed and `astray` is false: then
the stream of the code and `ref` take the same steps, since a write in a mode of "a" has
found the stream at the end. `AtEnd` adds that `cifscat` never passes the end of the file, so that an empty
block can only mean the end or an error.

*Uri.* The search for a separator in a text of any length needs no induction: it is
enough that the parts before it do not hold it (`FirstAt`), or for `strrchr` those after
it (`LastAt`), and that a text is divided there into what it was joined from
(`JoinApart`, `Between`). One lemma per part of the address follows the parser (`UserIs`,
`HostIs`, `TreeIs`, `PlaceIs`), `RemoteIs` puts them together; `UnescapeIs` and `EscapedIs`
say that escapes stand for single tokens and nothing else is changed.

Only model-checked: the liveness properties (`Answered`, `Terminates`), which the
prover cannot do under fairness.

## Not modelled

* `fusecifs.c` (does not compile against this library), `rpc.c` (not built),
  `cifs_spider.c` (a demonstration of calls that belong to other parts).
* `debug.c`, the progress line, `cifs_hsize` and `cifs_htime`: output without state.
* Name resolution beyond its success or failure, and `iconv()` itself.
* The contents of replies: names, attributes, times, the records of the browser.
* `cifs_unlink`, `cifs_rmdir` and `cifs_tree_disconnect` are only modelled as requests: no
  program of the repository that compiles calls them.
* Errors of the class ERRHRD are in `Upload`, `Session` and `Cifscp`; in `Transport`, `Transact`,
  `Download` and `Find` an error is an error.
* Concurrency inside the process: there is none.

## Plan

1. Refinements: `Find` against a specification that only says which entries are handed out,
   `Transact` against one that delivers a reply in one step.
