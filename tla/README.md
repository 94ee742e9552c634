# Verification of the Haystack image store

This directory holds TLA+ modules that model the program in
`src/cs202-24-prj-netrunners` (an image store in one file, *imgFS*, with a
command line tool and an HTTP server in front of it), TLC configurations that
check them on small instances, and proofs that TLAPS checks for every value of
the constants. Paths below are relative to that source directory unless they
begin with `src/`. `src/grading/project01/done` is the first hand-in of the
project, a smaller library and a smaller `imgfscmd` on the same file format; what
differs there is modelled beside the final code. `src/grading/projectFinal/done` is
a copy of the final sources and is not modelled again.

    tlc -workers 2 -config MCImgfs.cfg MCImgfs      # one of the runs listed below
    tlapm ImgfsSafetyProofs.tla                     # one of the proof modules

`PROJECT.json` lists components, runs, theorems, hazards and findings, and maps
every definition to the lines it translates.

## 1. Inventory

### The system

    imgfscmd (one process per command)     clients
        |                                     |  TCP
        |                                 imgfs_server: main loop, http_net.c
        |                                     |  bytes received so far
        |                                 http_prot.c: http_parse_message
        |                                     |  struct http_message (callback)
        |                                 imgfs_server_service.c: handlers
        |                                     |
        +---------------- imgfs.h ------------+
              do_create do_open do_close do_insert
              do_read (lazily_resize) do_delete do_list
                          |
             struct imgfs_file: FILE*, header, metadata array
                          |  stdio buffer
                  the file: header | metadata array | images

The server is one process with one thread: the thread code in `http_net.c` and
the mutex calls in `imgfs_server_service.c` are commented out, although
`src/README.md:31` speaks of "a multi-threaded web server". Handlers therefore
never interleave; connections wait for each other instead.

### Components

**Core library** (`imgfs.h`, `imgfs_*.c`, `image_dedup.c`, `image_content.c`).
State: the header (`version`, `nb_files`, `max_files`), an array of `max_files`
entries (id, SHA-256, size and offset per resolution, `is_valid`), both once in
memory and once in the file, and the images appended behind the array. Nothing
is ever removed from the data region; deleting an image clears `is_valid`.
Operations: the calls of `imgfs.h`. Every change is written through in up to
three separate writes (image, entry or array, header). Hard: entries share
images (content deduplication) with others that are deleted later; a reused slot
holds the remains of its previous occupant; derived images are made on first
read and change the index; a write may fail after memory was changed; memory
and file must describe the same images after any of this. Correct when: memory
and file agree, the counter of images is right, every entry leads to the image
it was inserted with at every resolution, equal contents share one original, the
version moves with the content, and a caller sees a store of named images.

**HTTP parser** (`http_prot.c`). No state of its own; it writes into the
caller's `struct http_message` and `content_len`. It is run on everything
received so far after every read. Hard: it must give the same message however
the bytes are cut into reads; it searches a buffer of which only a part is
filled.

**HTTP connection and main loop** (`http_net.c`, `socket_layer.c`,
`imgfs_server.c`). State: the passive socket with its backlog, the connection in
hand, the receive buffer and the variables of the loop (`total_bytes_read`,
`content_len`, `max_read`, `already_extended`), and the message. A connection is
served until its client closes it; the buffer is extended once when a large body
is announced and reset after every message. Hard: reads end anywhere; clients
leave at any time or send ahead; memory is reused without being cleared; any
error of a connection ends the loop of `main`. Correct when: the callback is
handed what the client sent, once and in order; handling a
message of a client that waits for its answers never crashes the loop; every whole
request the parser recognises is answered;
a waiting connection gets its turn when the others leave.

**Request handlers** (`imgfs_server_service.c`): dispatch on the URI, extraction
of parameters, one library call, one reply. No state but the open file. Hard: a
reply can fail after the library has done its work, and the handler then tries a
second one; `http_get_var` does not end the string it copies, and two of the
handlers copy into an array they have not cleared. Correct when: what a client
is told is what happened to the file, and what was acknowledged stays.

**Durability and concurrent users**: what is in the `FILE*` buffer when a call
returns reaches the file with the next seek or `fclose`; a signal may end the
process inside a call (`imgfs_server.c:24`); a command may work on the file that
a server has open, each with its own copy of the index and without a lock. Hard:
the file may be left between any two writes of a call, and two processes write
whole entries and a whole array over each other's. Correct when: an entry never
leads to another image's bytes, what returned survives, the counters drift by no
more than what was cut off.

**Command line tool** (`imgfscmd*.c`): a process reads its words, creates or opens
the file, makes one call, closes it, and for `read` writes an image file. State:
`struct imgfs_file` with its two pointers, the image files beside it. Hard:
options in any order and number; error paths that close and free what the caller
closes and frees again; a last write that nobody looks at. Correct when: exit code
0 means done and any other means that nothing happened.

**First hand-in** (`src/grading/project01/done`): the library without `do_insert`
and `do_read`, its `lazily_resize` called by itself, and its `imgfscmd`. Files it
writes are read by the final programs and the other way round.

**Helpers** (`util.c`, `error.c`): conversions of numbers, and a table.

**Test programs** (`tcp-test-client.c`, `tcp-test-server.c`, `http-test-server.c`):
the first two are a protocol of their own over `socket_layer.c`: a size, an
answer, a file, an answer. Hard: every message is taken with a single read, into
a buffer that keeps what an earlier client sent.

## 2. Modules

| module | models | kind |
|---|---|---|
| `ImgfsIndex` | the index, its searches, deduplication, what an entry leads to | pure |
| `Imgfs` | the calls of the library on one file, with failing accesses | state machine |
| `ImgStore` | what the library promises its callers | abstract specification |
| `ImgfsSafety` | the properties of `Imgfs`, the refinement to `ImgStore` | properties |
| `ImgfsHandin` | the library as first handed in and the final one, in turn on one file | state machine |
| `ImgfsFaults` | both libraries with a memory of what failed calls were about | state machine |
| `ImgfsSessions` | the server and a command on one file, write by write, killed or interrupted | state machine |
| `ImgfsSessionsProps` | their properties, the refinement to `Imgfs` | properties |
| `ImgfsService` | server and commands: requests, answers, restarts, over `Imgfs` | state machine |
| `HttpRequests` | the text of requests over `ImgfsService`, and the refinement to it | state machine |
| `HttpProt` | the parser over an abstract stream | pure |
| `HttpServer` | clients, main loop, connection | state machine |
| `HttpServerProps` | safety and liveness of `HttpServer` | properties |
| `ToolArguments` | the words of a command line, and the language of the help text | pure |
| `ImgfsTool` | both `imgfscmd`, process after process, over `Imgfs` | state machine |
| `ImgfsToolProps` | what the exit code tells | properties |
| `TcpTest` | the test client and the test server | state machine, properties |
| `MC...` | instances for TLC | |
| `ImgfsIndexProofs` | lemmas about the operators of `ImgfsIndex` | proofs |
| `ImgfsSafetyProofs` | `Imgfs`, its properties and the refinement to `ImgStore` | proofs |
| `ImgfsFaultsProofs` | `ImgfsFaults` and `ImgfsHandin` | proofs |
| `ImgfsSessionsProofs` | `ImgfsSessions` and the refinement to `Imgfs` | proofs |
| `ImgfsServiceProofs` | `ImgfsService` and `HttpRequests` | proofs |
| `HttpServerProofs` | `HttpServer` | proofs |
| `TcpTestProofs` | `TcpTest` | proofs |
| `ImgfsToolProofs` | `ImgfsTool` | proofs |

A few definitions are used nowhere: each stands just before the definition it is
a faulty variant of (`DeleteDoneInMemory` before `DeleteDone`). They are the
faults that the properties are known to tell apart, one for every property of
every passing run (`mutants` in `PROJECT.json`).

### Imgfs and the code

The variables `header` and `metadata` are the members of `struct imgfs_file`,
`disk_header`, `disk_metadata` and `data` the three regions of the file, `reply`
the last call with its result. An image is an element of `Images`, which stands
for its bytes and for its SHA-256 at once (hashes do not collide); the data
region is a sequence of images at a resolution, an offset its position, and
`BytesAt` says what reading a size at an offset yields: an image when both
belong to one, otherwise bytes that are none. Offset 0 lies in the header, as in
the file, and is what the code takes for "not stored".

A call is one action per way it can end, and the process makes one call at a
time:

| code | actions |
|---|---|
| `do_create`, `do_open`, `do_close` | `Create`, `Open`, `Close` |
| `do_insert` | `InsertFull`, `InsertNowhere`, `InsertUndecodable`, `InsertRefused`, `InsertDone`, `InsertFailsAtData`, `-Metadata`, `-Header` |
| `do_name_and_content_dedup` | `DedupStops`, `DedupError`, `Deduped` (in the index module) |
| `do_delete` | `DeleteMissing`, `DeleteDone`, `DeleteFailsAtMetadata`, `-Header` |
| `do_read`, `lazily_resize` | `ReadMissing`, `ReadStored`, `ReadOutOfBounds`, `ReadUndecodable`, `ReadResized`, `ReadFailsAtMetadata`, `ReadFails` |
| `do_list` | `ListJson`, `ListStdout` |

A returned call has all its writes in the file: the stdio buffer is in
`ImgfsSessions`. With `Faults` a write fails where the code tests it; `"late"`
adds that a write which returned success is lost when the next `fseek` of the
call flushes it. `"read"` is a read that fails, and the memory and the work of libvips
and json-c that a read or a list takes (`ReadErrors`, `ListJson`).

`ImgfsHandin` adds the calls of the first hand-in, one process being built with one
library (`build`): the five that have not changed are the actions of `Imgfs`, and
its `lazily_resize` is four actions (`ResizeOutOfBounds`, `ResizeNeedless`,
`ResizeFails`, `ResizeDone`), the last of which may leave the entry unwritten and
return 0 all the same.

### ImgfsSessions and the code

The same calls, one step per write. `pc[u]` says where user `u`, the server or a
command, is in its call, `header[u]` and `metadata[u]` are its copies, and
`pending[u]` is the write in the buffer of its `FILE`. `Write(u, w)` is `fseek` and
`fwrite`: what was in the buffer goes to the file, `w` takes its place. The guards
and results of a call are not written again: `Mine(u)` is an instance of `Imgfs`
with the copies of `u` and the file as `u` would find it.

| code | steps |
|---|---|
| `do_insert` | `InsertImage`, `InsertEntry`, `InsertHeader`; with shared content `InsertShared`, `InsertHeader`; and the ends without a write |
| `do_delete` | `DeleteArray`, `DeleteHeader`; how much of the array is out of the buffer at once is any `k` |
| `do_read`, `lazily_resize` | `ReadStored`, `ReadUnresized`; `ResizeImage`, `ResizeEntry`, `ReadDerived` |
| `do_open`, `do_close`, `do_create` | `Open`, `Close`, `Create` |
| `signal_handler` | `Interrupt`: the file is closed, and so flushed, in the middle of a call |
| SIGKILL, SIGPIPE, and SIGINT to a command | `Kill`: the buffer is gone |

`Library`, an instance of `Imgfs` in `ImgfsSessionsProps`, is the refinement: a call
is done with its first write, so the header and the entry that the call is going to
write are taken for written.

### HttpServer and the code

A stream of bytes is cut into units, each beginning with the delimiter that the
parser looks for; a read returns any number of units, and one that ends inside a
unit is, for the parser, one that ends before it. Sizes are counted in units.
The parser's results are those of the code: 0, 1, or a pointer that is none (an
error code of `get_next_token` taken for a pointer), which crashes the process.

A step of the server is one turn of the loop of `handle_connection`: `Receive`
chooses how much `tcp_read` returns and then takes the branch of the code:
`ReadOverruns`, `ReadUndefined`, `ReadExtends`, `ReadMore`, `ExtendFails`,
`HandleWhole`, `HandleExceeding`, `HandleFails`, `HandleKilled`. The server is
"crashed" where the parser or the loop touches memory that is not its own, which is
what `CrashHasCause` is about, and "killed" where the process ends inside the callback:
SIGPIPE from a reply to a client that is gone, or `do_list` copying its text to NULL
when there is no memory for it (`imgfs_list.c:63`). A crash while a message that came
whole is handled is never excused as a cut request line (`LineCut`). `PeerClosed`
and `ReadFails` are the returns of 0 and of an error, `Accept` is
`http_receive` up to the loop, `Interrupt` the signal handler. The callback is
one step: nothing else runs in the process meanwhile. The buffer of a new
connection and the message may hold what an earlier one left, as C leaves their
contents open; a write behind the end of the buffer ends the process, since the
Makefile builds with the address sanitizer. (With its default options the
sanitizer also overwrites the beginning of a block that malloc returns, which
makes leftovers rare in that build and leaves the assumption of the parser,
zeros, just as unmet.) `leftover` is a history variable that names what a
connection found.

### ImgfsService and the code

`ImgfsService` extends `Imgfs` and leaves its variables to it: a handler or a
command is an action that contains one call of the library (`InsertCall`,
`DeleteCall`, `ReadCall`, `ListJson`, `ListStdout`) and looks at the `reply` of
that call, as the code looks at the value returned. `user` says who has the file
open, `answer` what the last request was answered, and `kept`, a history
variable, which images were acknowledged and not deleted since.

| code | actions |
|---|---|
| `server_startup`, `server_shutdown` | `Startup`, `Shutdown` |
| `handle_http_message` | `Handle`, `HandleOther` |
| `http_serve_file` | `HandlePage` |
| `handle_list_call` | `HandleList` |
| `handle_read_call` | `HandleRead`, `HandleReadRefused` |
| `handle_delete_call` | `HandleDelete`, `HandleDeleteRefused` |
| `handle_insert_call` | `HandleInsert`, `HandleInsertRefused` |
| `http_reply`, `reply_error_msg` | `Answers`, `Replies`, `RepliesError`, `NobodyIsAnswered` |
| `do_create_cmd`, `do_list_cmd`, `do_read_cmd`, `do_insert_cmd`, `do_delete_cmd` | `CommandCreates`; `CommandOpens`, one of `CommandLists`, `-Reads`, `-Inserts`, `-Deletes`, `CommandCloses` |
| `http_match_uri`, `http_match_verb`, `http_get_var` | `MatchUri`, `MatchVerb`, `GetVar` (`HttpRequests`) |

Every reply may fail (no memory, an error of the socket); the handlers that then
send the error may succeed or fail with that. When nothing got through the
handler returns the error and the server ends its loop (`user = "failing"`, then
`Shutdown`). A parameter is a value, missing (`Absent`) or too long
(`Overlong`). `Tails[id]` is what the id of a deletion or insertion may become
because its end is not marked; `handle_read_call` clears its array, so there it
is the id.

`HttpRequests` puts text before that: a request is what its client means (a verb, a
path, a list of parameters) and what lies behind the URI in the buffer. Text is a
sequence of tokens; a value has one token per character, a path or a name is one or
two. `MatchUri` compares the beginning of the URI only and `GetVar` searches the text
from the URI on without stopping at its end, as `strstr` and `strchr` do. `Asks(r)` is
`handle_http_message`. `UriIsObeyed` compares what was done with what the client
means, for requests in which nothing can be mistaken (`IsClear`): the path has no
`name=` in it and a value no `=`, no name before the parameter ends in its name
(`file` and `name` in `filename=`), no `&` lies behind the URI when the parameter is the
last, and no `name=` when it is not given at all. `TextAssumption` is what is meant by a
list of parameters: a name has no `=` in it, a value no `&`, and the URI ends at a space.
The others are still requests of `ImgfsService`: `RequestsAssumption` has the instance
name every id and resolution that the text may lead to.

`ImgfsService` and `HttpServer` meet in the callback: `HttpServer` hands it
requests, in the order they were sent and whole (`HandedAsSent`), and lets it
succeed, fail (`HandleFails`) or end the process (`HandleKilled`);
`ImgfsService` says what it does. They are not composed into one state space:
one connection is served at a time and the callback is one step of the loop, so
nothing that either does between two callbacks can be seen by the other.

### ImgfsTool and the code

`ToolArguments` holds the loop of `do_create_cmd`, the checks of the other commands and
the conversions of `util.c`; a word is a value, of a number it matters what
`strtoumax` reads of it (`Numeral`), and numerals count modulo `UINTMAX_LIMIT + 1`, so
that `-1` is a large number. `Divides`, `Usable` and `Asks` say the same from the help
text, as a language, without a loop.

`ImgfsTool` runs one process after another. `stage` is where it is: `Runs`, then
`Refuses` or `Helps`, or `CreateDone`, `CreateFails`, `CreateUnopened`, `OpenDone`,
`OpenFails`; `FailureExits` is the error path of the caller; `Inserts`, `Deletes`,
`Reads`, `Lists` each contain the call of `Imgfs`; then `Closes`, and for a read
`Exports`, `ExportFails` or `NamesNothing` (no memory for the name of the image file,
which `create_name` formats into NULL, `imgfscmd_functions.c:277`). `help` returns
`ERR_IO` when it cannot print. `MayFail` names what fails in the command itself, `Faults`
what fails inside the library's calls: their reads, and the memory and the work of
libvips; their writes do not, here. `file` and `array` are the two pointers of the struct
("dangling" when closed or freed and not reset), `extent` how much of the file there
is, `files` the image files, which a later insertion may take as its source. A
process is built as the final `imgfscmd` or as the first (`build`).

### TcpTest and the code

Both programs, with their sockets: `up` and `down` are the bytes on their way, `hung`
the sides that are closed. A step of the server is one `tcp_read` with what follows up
to the next (`TakesSize`, `TakesNoSize`, `Rejects`, `TakesFile`), or its failure
(`ServerFails`); of the client likewise (`Connects`, `SendsSize`, `SendsFile`,
`GivesUp`, `Finishes`, `HearsNothing`), and a client may be killed between any two.
`Strtol` reads a sign and gives the nearest `long` for what is too large; the size of a
pipe is -1 (`Size`). The server checks the upper limit only (`tcp-test-server.c:51`): a
negative size is waited for, and `AsSize` is what `tcp_read` makes of it. A read returns any first part of what has come; the rest
of the buffer keeps what it held (`Over`). The refusal of a large file is sent to the
listening socket (`tcp-test-server.c:53`), fails, and ends the server.

## 3. Runs and what they show

| run | instance | shows |
|---|---|---|
| `core` | 3 slots, 2 ids, 3 contents (one cannot be decoded), 1 derived resolution, 3 images in the data region, versions modulo 4 | `FileInSync`, `Counted`, `Intact`, `SharedOriginals`, `VersionFollowsContent`, and that `Imgfs` implements `ImgStore` |
| `failing` | 2 slots, 2 ids, 1 content, every access may fail, any number of times | `TypeOK`, the counters included: what they wrap to is still a counter |
| `faults` | 2 slots, 2 ids, 2 contents, all faults, at most 2 failed calls, the final and the first library | `Confined` |
| `sessions` | 2 slots, 2 ids, 3 contents (one cannot be decoded), 1 derived resolution, 3 calls, 2 cuts | `TypeOK`, `ImagesIntact`, `KeptSurvives`, `CountDrifts`, `ImplementsLibrary` |
| `service` | 2 slots, 3 ids, 2 contents, 32 requests, failing reads, lists and replies | `KeptIsStored`, `AnswerIsTrue`, `UriIsObeyed` |
| `http` | 2 clients, 5 kinds of request, 2 requests each, a buffer of 7 units, 2 header lines, failing allocations, `accept()` and callbacks | `HandedAsSent`, `ExtendedFits`, `CrashHasCause`, `Answered`, `PatientTurn` |
| `tool` | 2 slots, 2 ids, 2 contents, 17 command lines and every list of options up to a length, both builds; failing opens, creates, closes, allocations, image files and prints, and failing reads inside the library | `ToolTypeOK`, `ParsedAsUsage`, `ZeroIsDone`, `FailureIsHarmless`, `CrashesHaveCause` |
| `tcptest` | 2 clients, one of which may be killed, 7 files, buffers of 4 and 6 bytes, digits of base two | `TcpTypeOK`, `FileFits`, `DoneMeansReceived`, `EndHasCause`, `ClientsEnd` |

Runs that end in a violation, each a disagreement between the code and what it
says about itself (quoted in `PROJECT.json`, "findings"):

| run | property | what happens |
|---|---|---|
| `unique_ids` | `UniqueIds` | the search for duplicates stops at equal content in slot 0 and never sees the equal name in slot 1: two images share an id |
| `stored_is_readable` | `StoredIsReadable` | insert, insert, delete the first: the second image is refused at a derived resolution, its index not being below the *number* of images |
| `http_whole` | `WholeIsHandled` | a message with `Content-Length: 0` is never whole for the parser |
| `http_leftover` | `HandedFromAnyBuffer` | a cut message is completed with what an earlier connection left in the buffer |

### Why the bounds are enough

*Slots.* Three slots (`core`) give a duplicate in name and one in content on either
side of the slot being filled; two give a free one before a used one, a reused slot,
and sharing. *Ids, contents.* Two of each tell same from different; a
third content stands for what libvips refuses. *Resolutions.* One derived
resolution stands for both: they never meet in the code but in loops over all.
*Data region.* It only grows; two or three places allow an image and one of another
content or a derived one, and a bound in the guard (`MaxBlobs`) stops
insertions that would append more, not those that share. *Width.* `UINT32_MAX`
is 2 to 5, so the counters do wrap in the runs. *Failures.* Two failed calls
make one failure act on what another left; in `failing` there is no such bound, but
memory and file may differ in one slot at a time only (`OneSlotApart`).

*Sessions.* Three calls (`MaxCalls`) put one call of each of two processes inside a
session of the other and leave one to see the result; two cuts (`MaxCuts`) leave the
header wrong twice. Both count from the creation of the file, which resets them.

*Service.* That one id is the beginning of the other makes the unmarked end reach an
image that exists; the third is what the server makes of the first when an `&` lies in
the headers, so that a request can reach another image than its own. Ids have fewer
tokens than `MAX_IMG_ID`, resolutions at most `MAX_RES`. Requests, answers and
restarts are not bounded.

*HTTP.* A buffer of 7 units holds the head of every request (4 to 6 units) with
a small body but not a large one (6 units), so extension, overrun and the limit
all happen; two header lines are as many as `MAX_HEADERS` here, and one kind of request
has both; two requests on a connection exercise the reset between them, and
two clients the reuse of memory and waiting.

*Tool.* The limits stand to each other as those of the code do (thumb < small < 16
bits < 32 bits < 64 bits), and there is a numeral on either side of each, below zero,
and with letters behind. Lists of options: all up to two words, an option with any two
words, two options with numbers at their limits, repeated ones. They are run in an
empty directory; what `-max_files` asks for is not followed further, the size of the
array being a constant.

*TcpTest.* Files of every length around the server's limit, one made of digits (the
buffer of a later client then reads as a size), one that begins with a minus sign (the
size read is then negative), one made of an answer, and a pipe, whose size is -1.
`LONG_MAX` is 8, so that digits of a file and of a size together do reach it.

Ids are symmetric in the runs of the library and of the sessions: nothing compares
them but for equality. The runs with a `VIEW` leave out the last reply, which no action
reads, and the version, which none but counts up; the action properties that look at
either are evaluated at every step, also at those that lead to a state TLC has seen.
The view of `tool` leaves out what a process that has ended knew.

### Deadlock

The runs of the library, the sessions, the service and the tool check it: some call
is always possible. `HttpServer` does stop (its loop ends with any error), and so does
`TcpTest` (every client ends), so their runs do not.

### Fairness

`HttpServer` assumes that the process runs when it is not blocked: a connection
in the backlog is accepted while it waits in `accept()`, bytes that have come
are read, the end of a stream is noticed. This is what the loop of `main` and
that of `handle_connection` do, with blocking calls and no other thread, under a
kernel that delivers. Nothing is assumed of clients: `PatientTurn` says itself
that the others must leave (`OthersLeave`), because the code waits for an idle
client for ever, and `Answered` that the client stays. For reading, fairness is
stated with `Drains`, what every step of `Receive` does to the stream and
enabled exactly when one is; TLC decides its ENABLED far faster.

`TcpTest` assumes weak fairness of the server and of each client, for the same reason:
a blocking read returns once something has come or the other side has closed, and
`accept()` once a client waits. Nothing is assumed of a client's being killed.

`Answered` leaves out requests that the parser never takes for whole
(`Answerable`): those without any header line, and `Content-Length: 0`.

## 4. Proofs

`ImgfsIndexProofs` holds what the other modules need of the operators of the index: the
first slot of a set, what deduplication leaves of an entry, that an entry which leads to
its image still does when something is appended, how the number of valid entries moves
when one slot changes.

`ImgfsSafetyProofs`. **`TypeCorrect`**: `Spec => []TypeOK` for every file size, every
set of images and every set of faults. One lemma per kind of result (an entry
that is filled, deduplicated, placed, resized has the type of an entry; counters
that are moved stay in 32 bits), one step per action. **`LibrarySafe`**: while no write to the file fails
(`Faults \subseteq {"read"}`; a failed write really breaks them, which is what
`Confined` is about),
`FileInSync`, `Counted`, `Intact` and `SharedOriginals` hold for ever. The
invariant that is inductive is `Safe`, their conjunction with `TypeOK`; none of
the four is inductive alone:

- `Intact` needs `FileInSync`: entries are shared from memory and written to the
  file;
- `Intact` of a new entry needs that deduplication leaves offset 0 exactly when
  no valid entry has the content, which `SharedOriginals` and the positive
  offsets of intact entries give;
- `Counted` needs `FileInSync` for the slot that memory calls empty to be
  uncounted in the file, and a lemma on the cardinality of `Valid` when one slot
  changes (`FiniteSetTheorems`);
- the index guard of `do_name_and_content_dedup` (`index > nb_files`) never
  refuses the first empty slot: below it all slots are valid, so its index is at
  most their number, by `Counted`.

In the same module, **`LibraryImplementsStore`**: while no write fails, `Imgfs`
implements `ImgStore`, for any file and images. One lemma per call, each from `Safe`:
the store is the function from valid slots to id and content (`Visible`), a slot that
is filled or emptied changes it at one point, what an insertion is refused for is what
the store refuses, and a read hands out what the store holds because the entry is
intact. **`VersionCounts`**: `VersionFollowsContent` for every width of the counter,
its wrap included, while no write fails.

`ImgfsFaultsProofs`. **`DamageIsConfined`**: `Confined` for any number of failed calls of
either library. The inductive invariant `Contained` adds the types and that a closed file
has nothing in memory. A call does one of three things to a slot (`SlotBySlot`): nothing;
it leaves the same entry on both sides, which leads to its image unless its content is
hurt (`SlotWritten`); or it leaves no entry on either side that is spared (`SlotHurt`). The
second is what makes later calls safe that share an entry, resize it or write the whole
array: what they take over is intact or hurt already. The proof showed that the ids of the
failed calls need not be remembered: the contents alone bound the damage.

`ImgfsSessionsProofs`, for any number of processes. **`SessionsTypeCorrect`**: the types,
of what waits in the stdio buffers too. Each of the others needs more of where a process
is in its call than the one before.

- **`EntriesLead`** (`ImagesIntact`). The invariant is `Sessions`: a process that is not in
  the file has nothing pending (`Forgotten`); and, until two have clashed, `Placing`: what
  a pending write will put into the file is intact there, the place a process is about to
  fill lies at the end of the region, and nobody else is about to append.
- **`InsertedSurvives`** (`KeptSurvives`). `Told` adds the shape of a pending write at each
  point of a call (`Shaped`) and that a process is alone with the file until sessions have
  overlapped (`Sole`): an entry that the array about to be written leaves out is then one
  that was deleted.
- **`CountStaysNear`** (`CountDrifts`). `Counting` adds that the header is off by no more
  than the calls that were cut off, modulo 2^32, with the correction a process in the
  middle of its call has still to write (`Numbered`). The arithmetic of counters that
  wrap is in lemmas of its own.
- **`SessionsImplementLibrary`** (`ImplementsLibrary`). `Reading` adds that the copy of the
  index is the file as its writes will leave it (`Remembered`). Then each call is done
  with its first write, and each later one changes nothing that the refinement shows
  (`LaterUnchanged`); the refinement of a change of hands (`OpensLibrary`,
  `ClosesLibrary`) needs that the buffer is empty.

`ImgfsServiceProofs`. **`ServiceUsesLibrary`**: every step of the service is a
step of `Imgfs` or none, so that `TypeCorrect` and `LibrarySafe` hold of it.
**`ServiceTypeCorrect`**: its own variables keep their types, for every set of
faults. **`AcknowledgedIsKept`**: `KeptIsStored` holds while no write fails. The
inductive invariant is `ServiceSafe`, that is `Safe` with the type of `kept` and
`KeptIsStored`. `Safe` is needed three times: the slot an insertion fills is one
that is empty in the file too (`FileInSync`); an insertion that returns
`ERR_NONE` did store something, since a header that leaves room leaves a slot
(`Counted`, lemma `RoomIsFound`: after a failed write it need not, and
`do_insert` returns 0 without storing anything, `imgfs_insert.c:69`,
`InsertNowhere`); and a deletion, which writes the array in memory over the one in the
file, puts back the entries that were there. **`AnswersAreTrue`**: `AnswerIsTrue`
holds of every step from `ServiceSafe`; a read hands out the image of the id
because the entry is intact (`Intact`), at a derived resolution because the entry
does not call for a resize (`DerivedIntact`).

There too, from the lemma that each step of `HttpRequests` is one of `ImgfsService`
or none (by `RequestsAssumption`, which has the instance name every id and resolution
`http_get_var` may find): **`AcknowledgedRequestIsKept`** and **`AnswersToTextAreTrue`**: what is proved of the
service holds of the server with its text. **`ClearRequestsAreObeyed`** (`UriIsObeyed`)
is about the text itself, of any length and with any number of parameters. `Query` is
recursive; its unfolding (`QueryRuns`) shows where each parameter stands in the URI
(`Layout`), and a place where `strstr` could stop is in the path, at the end of a
parameter's name or behind the URI (`WhereFound`). So in a request that is clear the
first place found is that of the first parameter of the name, the next `&` or the end of
the URI is the end of its value, and `http_get_var` returns what the client means
(`GotIsMeant`). The rest follows handler by handler from `Safe`: an insertion fills a slot
that was empty, a deletion and a read change the entry they have found by its id.

`HttpServerProofs`, for a client that waits for its answers, on a connection that finds
nothing of an earlier one and requests with fewer than `MAX_HEADERS` lines, of any sizes
and cut in any way. The invariant is `PatientInv`: what was handed over matches what was
sent, and the buffer with the bytes under way is either empty or, unit by unit, a first
part of the one request not yet handled; then `content_len` is 0 or the length of its
body, and the size of the buffer follows from `already_extended`. It rests on `ParseCut`,
which says of the parser on a first part of a message (`Parses`): it follows a bad pointer
only before the second space, waits as long as something is missing, and finds the
message whole when all of it is there, with its body and no excess. From it
**`BufferIsLargeEnough`** (`ExtendedFits`), **`PatientIsHandedAsSent`** (`HandedAsSent`
for such clients) and **`ServerCrashHasCause`** (`CrashHasCause`): on such a connection
`HandleExceeding` is never reached, and a crash is one of the parser before the second
space has come, or an overrun of a buffer that was not extended.

`ImgfsToolProofs`, for every set of command lines, with either build, whatever fails in
`main`, `do_create`, `do_open`, `do_close` and the image files. The invariant has three
parts. `Processes` says where a process is: what each command has opened by then, and
what a failed `do_create` or `do_open` leaves dangling; it holds whatever the library's
calls do and whatever of `MayFail` fails, and gives **`ToolTypeCorrect`** and **`ToolCrashHasCause`** (`CrashesHaveCause`).
`Untouched`, while the writes of the calls work: until a call has succeeded the images
are those the process has found, and before its call the array in memory is that of the
file. It gives **`ToolFailureIsHarmless`** (`FailureIsHarmless`). `Achieved`: as long as
no close has lost the last buffer the state is `Safe`, and a call that returned `ERR_NONE`
has done what the command is for. `Safe` is needed for each: an insertion finds the slot
the header promises, a deletion puts nothing back, a read finds its image, a list is not
empty for a header that says 0. A lost close leaves a header that does not count the
array, and `Safe` is gone until the next create. It gives **`ToolZeroIsDone`**
(`ZeroIsDone`). The assumption `LinesAssumption`: a command line is a sequence, and one
that is accepted names an id and a resolution of the instance.

There too, **`CreateParsesUsage`** (`ParsedAsUsage`): the loop of `do_create_cmd` reads
exactly what the help describes, for lines of any length. The loop is a recursive
function. `LoopReads` says of each place in the line, from the last word back to the
first, that from there on the loop stops at an error or reads a list of options
(`OptionList`); `ListIsRead`, the converse, that it stops at no error inside such a list.
`OptionIsTaken` is about one option: the three conversions (`atouint16`, `atouint32`,
each with `strtoumax` and its cut to 32 bits) let a word through exactly when it denotes
a number of the range. It needs the limits to be natural numbers in order, and that no
word is both the name of an option and a number (`OptionsAssumption`): the names begin
with `-` and a letter.

`TcpTestProofs`, for any number of clients, any files and digits of any base. The
invariant `Inv` says of each connection where it stands (`Local`): a size that is not
yet read is all there is on the way (`Unread`), while a file is waited for the connection
is open on the server's side (`Uploads`), a client that was served has been hung up on
(`Left`), the second answer is sent only after the file was taken (`Answered`), and
while a file of negative size is waited for its client has a pipe or is gone, and what
it still has under way is short (`Negative`). One
lemma per action, and one that frames the other clients (`Frame`). It gives
**`TcpTypes`** (`TcpTypeOK`), **`FileFitsBuffer`** (`FileFits`: no negative size brings
a file that overruns the server's buffer, although recv() is told that anything fits),
**`SuccessIsHeard`** (`DoneMeansReceived`) and, since only
a client that has failed resets a connection that is served, **`EndIsCaused`**
(`EndHasCause`). `TcpAssumption`: at least two digits, all different, none of them in an
answer, and sizes of files that a `long` can hold.

The library's induction theorems take the claim as an operator, which the provers cannot
instantiate. `Induction`, in `ImgfsIndexProofs` and `TcpTestProofs`, is for a set of
numbers instead, from the well-foundedness of the strict order on subsets of `0 .. n`
(`Least`). So what a recursive function computes can be proved: the digits of a size,
`strtol`, the loop over the options.

Assumptions are those that the modules name: at least one slot, no
more slots than a `uint32_t` counts, an id among its own `Tails`, the values for "no
id" and "no image" outside the real ones, positive sizes, heads that fit into the
first buffer. The command line refuses `max_files` 0 (`imgfscmd_functions.c:124`).

### Checked by TLC only

`HandedAsSent` for clients that send ahead; and all liveness: fairness and ENABLED are
outside the reach of the prover. No module uses recursion but as a function.

## 5. Not modelled

- What is inside an image: decoding, resizing, sizes in pixels. So a request for a
  resolution larger than the original is one like any other.
- Accesses that fail while two processes have the file open, and `do_create` on a file
  that is open. An image in `ImgfsSessions` is a unit: of one larger than the buffer a
  part may be written at once, which is bytes that no entry names.
- The bytes of a reply. `http_net.c:343` sends an estimated size, larger than what was
  filled; the hazard is listed without a property.
- Ids that fill their array to the last byte. Several `Content-Length` lines, a header
  name that begins like `Content-Length` (`http_prot.c:48` compares prefixes).
- The parser and the text of the URI in one stream: `HttpProt` cuts a message at
  delimiters, `HttpRequests` reads the text of a whole one.
- A signal inside a handler is a signal inside a call (`ImgfsSessions`); in
  `ImgfsService` it comes between two requests.
- `http-test-server.c` (the loop of `HttpServer` with another callback), the set-up of
  sockets but for its failure in `TcpTest`, `accept()` that fails there.
- `do_name_and_content_dedup` of the first hand-in by itself: only its tests call it.
- Hash collisions; memory that runs out inside glib, which ends the process, and what
  json-c leaves out of a list without reporting it.

## 6. Plan

1. *(done)* `Imgfs`, `ImgStore`, `ImgfsSafety`, `ImgfsFaults`; `TypeCorrect`,
   `LibrarySafe`, `LibraryImplementsStore`, `VersionCounts`.
2. *(done)* `HttpProt`, `HttpServer`, with the limit of header lines.
3. *(done)* `ImgfsService`, `HttpRequests`; `ServiceUsesLibrary`,
   `AcknowledgedIsKept`, `AnswersAreTrue`, `ClearRequestsAreObeyed`.
4. *(done)* `ImgfsSessions`, `ImgfsTool`, `ImgfsHandin`, `TcpTest`.
5. *(done)* Proofs of the sessions and of `Confined`.
6. *(done)* Proofs of the test programs and of `ParsedAsUsage`.
7. *(done)* Proof of `UriIsObeyed`.
8. `HandedAsSent` for clients that send ahead, which needs the stream as a concatenation
   of messages.
