# Moonlight PS3 in TLA+

TLA+ models of the GameStream client in `src/`, the TLC runs that check them and
TLAPS proofs about them. Paths below are relative to `src/src/` unless they begin with
another directory; `PROJECT.json` maps every definition to the lines it models.

Run `tlc -config X.cfg M` and `tlapm M_proofs.tla` in this directory.

## 1. The system

One process, one thread of its own. `ui_run` is a loop over menu states; from it
everything else is called. Concurrency comes from outside: the network and the host,
the hardware of the PS3 audio port (which reads the ring the program writes to), the
decoder's own delay, and the end of the program at any moment (home menu, crash, power).

```
ui_run ──► hoststore ◄──► hosts.dat
   ├─────► mdns_discover ──► hoststore_add
   ├─────► pair_with_host ──► http (5 requests) ──► host
   ├─────► rtsp_applist, rtsp_launch ──► http ──► host
   └─────► run_stream ──► session_start ──► rtsp_connect/setup/play ──► host
                     │                 └──► udp_open, pipeline_create, reasm_create
                     ├──► session_pump: udp_recv ► reasm_feed ► decoder ► jitter ► renderer
                     │                  udp_recv ► reasm_feed ► decoder ► audio_playback ► port
                     └──► session_stop ──► udp_close, rtsp_teardown
```

| Component | State | Operations | What is hard | What makes it correct |
|---|---|---|---|---|
| Video reassembly `net/reassembly.c` | open frame, buffer, its length and capacity | `reasm_feed` | loss, duplication and reordering of datagrams; `realloc` failing in mid-frame; empty payloads | emitted frames are framed by SOF and EOF, a frame that arrived whole is emitted, order and at-most-once, no overrun |
| Jitter buffer `av/jitter.c` | linked list of frames with three planes each | create, push, pop, free, destroy | drop-oldest at capacity 1, a popped frame outliving the buffer, planes whose `malloc` fails | list well formed, no leak, double free or sharing; it is a FIFO |
| Session `proto/connection.c`, `net/rtsp.c`, `net/udp_stream.c` | RTSP socket, session id, UDP sockets and ports, pipeline, reassemblers | start, pump, stop | answers late, missing, for another request, longer than the buffers; the fourth of five steps failing; any part of the pipeline missing, or failing to grow | stream only after all requests were granted, close and free everything, read into no buffer past its end, stop the host, always return |
| Pipeline `av/pipeline.c`, decoders `av/video_ffmpeg.c`, `av/audio_ffmpeg.c` | packets in the decoders, jitter buffer, screen | create, submit, pump, destroy | decoder delay and bursts, undecodable packets, constructors failing half-way | nothing refused or dropped by the client, screen and sound in order, no frame and no object stays behind |
| Audio output `av/audio_playback_ps3.c` | staging buffer, ring, hardware position | submit | the hardware moves during a copy, several blocks in one call | never writes the playing block, order, nothing stuck or lost |
| Pairing `proto/pairing.c`, host store `common/hoststore.c` | records with certificate, key, `paired`; `hosts.dat` | pair, load, add, save | each of five requests failing, lost answers, a torn or unreadable file, restarts | paired means trusted by the host, pairings survive, one record per host |
| Menu `ui/ui.c` | state, marks, cached list | buttons | cached list and mark that outlive the host they belong to | only paired hosts stream; the list and the entry launched are real |
| HTTP `net/http.c` | socket, TLS contexts, buffer and response of a request | get, post, free | a dozen ways out, a host that sends in parts or never closes, a caller that reads a response that was not written | nothing but TLS contexts is left behind, no overrun, the request returns |
| Discovery `net/mdns.c` | the answers found | one scan at the start | repeated answers, an address left without its end | one record per host |
| Input `input/pad.c` | none kept | read | | modelled as the button held |
| Renderer, crypto, log, input packets, control encryption | none that outlives a call, or I/O | | | partly or not modelled, section 8 |

## 2. Modules

| Module | Models | Instance | Proofs |
|---|---|---|---|
| `Reassembly` | `reasm_create`, `reasm_feed`, `emit_video` | `MCReassembly` | `Reassembly_proofs` |
| `FrameStream` | abstract: what the decoder is promised | | |
| `VideoChannel` | EXTENDS `Reassembly`: host stream, lossy network, socket, `session_pump`; implements `FrameStream` | `MCVideoChannel` | `VideoChannel_proofs` |
| `DropOldestFifo` | abstract: what the jitter buffer promises | | |
| `Jitter` | `jitter.c` on a heap; implements `DropOldestFifo` | `MCJitter` | `Jitter_proofs` |
| `Pipeline` | `session_pump`'s video half and `pipeline_pump`, built on `DropOldestFifo` | `MCPipeline` | `Pipeline_proofs` |
| `Session` | `run_stream`, `session_start/stop`, `rtsp_*`, `udp_open/close`, with the host | `MCStreaming`, `MCSession` (finding) | `Session_proofs` |
| `Streaming` | EXTENDS `Session`: `pipeline_create/destroy` and all constructors below it, with every way they fail; what a turn of `session_pump` makes grow, and what each destroy function releases | `MCStreaming` | `Session_proofs` |
| `AudioPlayback` | `audio_playback_submit` and the port's hardware | `MCAudioPlayback` (finding) | `AudioPlayback_proofs` |
| `AudioPath` | EXTENDS `AudioPlayback`: `session_pump`'s audio half, decoder, `pipeline_pump`'s audio half | `MCAudioPath` | `AudioPlayback_proofs` |
| `Pairing` | `mdns_discover`, `pair_with_host`, `hoststore_*`, `hosts.dat`, restarts, hosts | `MCPairing` | `Pairing_proofs` |
| `Menu` | `ui_run` | `MCRequests` | `Menu_proofs` |
| `Requests` | EXTENDS `Menu`: `perform` and its callers in the middle of a turn | `MCRequests` | `Menu_proofs` |

The layers meet in two ways. At abstract specifications: `Pipeline` uses the FIFO that
`Jitter` is proved to implement, and `VideoChannel` runs `Reassembly` itself, step by
step, and is proved to implement `FrameStream`. And by extension: `Streaming`, `AudioPath` and `Requests`
take the module they extend as it is, add the variables of the code around it, and
make its actions happen when that code calls it. A run of the larger module checks the
properties of the smaller one again, in the behaviours that its callers leave.

### Correspondence to the code

* **Reassembly.** `cur_frame`, `have_frame`, `buf`, `buflen`, `bufcaps` are the fields of
  `struct reasm`; `buf` holds the datagrams appended and `buflen` counts their bytes.
  One `Feed(d)` is one call of `reasm_feed` with datagram `d`, through whichever return:
  `FeedRunt` (too short), `FeedIgnored` (continuation without SOF), `FeedOutOfMemory`
  (`realloc` failed), `FeedAppended` (appended, and emitted on EOF). `out`, `hist` and
  `oomAt` are histories for the properties. The capacity formula `(buflen + plen) * 2 + 4096` is
  kept, with 4096 a constant `Slack`.
* **VideoChannel.** The host sends the datagrams of frames 1..NFrames in order; the
  network may lose up to `MaxLoss`, but does not reorder. What arrives before `Bind`
  (`session_start` asks the host to play before `udp_open` binds the ports) or finds
  `SockCap` datagrams in the socket is lost too, without a bound. A turn of `session_pump`
  reads at most one.
* **Jitter.** Nodes and planes come from a heap of finite sets, so that leaks, double
  frees and sharing are visible; a plane's content is the timestamp of the frame whose
  pixels it holds. `frame_copy`'s loop and its repeated `dst->y = NULL` are modelled as
  written. The caller holds at most one popped frame, as `pipeline_pump` does.
* **Session.** `pc` says in which read or call `session_start` is. Bytes are tokens: CR, LF
  and runs of other characters, so that the byte-wise read of the headers is modelled by
  what it does: `ReadHeader` stores one byte, or, when the last three are LF CR CR,
  `ReadTrailing` stores one more in the same round, without a test of the room. The host
  ends the lines of an answer with any member of `LineEnds` (sequences of CR and LF) and
  puts into it any of the lengths `Declared`, which need not be that of the body; `Wanted` is
  what `rtsp_read_body` then asks of `recv`. Both buffers can be exceeded, as in the code:
  `After` says that either nothing comes of it or the program ends. The host is external:
  per request it grants, refuses, is silent, or is late; reads give up after two seconds
  (`HeadersTimeout`, enabled at any time, as a host may be arbitrarily slow).
* **Streaming.** `Steps` lists for each object what its constructor acquires, step by
  step; up to two steps of different objects fail in a session. `VideoUndone`, `AudioUndone`,
  `PlaybackUndone` and `RendererUndone` list what the error path of each step frees, closes
  or quits, read off the constructor; `Made` is what is then held of the object, which the
  caller knows as NULL. `held` is the set of what was acquired, with the session it belongs
  to. A `Turn` makes it grow: the frame buffer of the reassembler (`Collected`; a failing
  `realloc` loses the old one), the decoders' pictures and samples, queued copies of
  pictures and the luma planes lost with them (`Pictured`), staged samples. What no line
  tests after `malloc` or `realloc` ends the program (`TurnOutOfMemory`, and `Fatal` for the
  constructors). `VideoFreed` to `ReasmFreed` list what each destroy function releases.
  Steps of `Session` are unchanged: `ObjectsFollow` adds to the step that starts to stream
  the creation, to the one that ends it the destruction.
* **AudioPlayback.** `Submit` stages, `AskPort` and `Copy` are the two halves of the loop
  body, between which the hardware (`PlayNext`) may move by up to `MaxLag` blocks.
* **AudioPath.** A turn is `Receive` or `ReceiveNothing`, `PumpFrame` for each frame the
  decoder gives, `PumpEnds`. `af` is the local variable of `pipeline_pump`: junk, or what
  the turn before left there. A packet that cannot be decoded makes `ad_pump` return -1, which the
  loop takes for a frame: `af` is submitted once more, or, if it is junk, the program
  reads through it (`PumpJunk`).
* **Pipeline.** Control points of one turn: feed, drain, pop, present. The decoder is
  FFmpeg: first in first out, keeps at most `DecDelay` packets once drained, gives kept
  ones at any time, refuses a packet (EAGAIN) when `DecDelay + 2` are inside. `vf` is
  pipeline_pump's local variable, uninitialised at the start of a turn: either junk or what
  the previous turn left on the stack. An undecodable packet buffers `vf` again; if it is
  junk, `jitter_buf_push` copies from stray pointers, which gives some picture (`Junk`) or
  ends the program (`Crash`), as showing a picture without its luma plane may (finding 1).
  `newest` remembers the newest real frame shown.
* **Pairing.** `pc` is the request `pair_with_host` is at, or the half of `hoststore_save`
  being run. A record is `paired_host_t` cut down to ip, cert, key, paired, in the order the
  struct has them, because the file is written in that order and may end anywhere in it:
  after each character of an address (`Cut`), in the middle of a certificate or key
  (`Half`), before `paired`. `disk` is the records of the last save and how much of them
  is in the file. `Boot` is `hoststore_load`: it may find less than there is, down to
  nothing when the file does not open, and goes on with that. The store is saved twice after a
  pairing (`pairing.c` and `ui.c:130`), and each save may fail to open or fall short, which
  nobody notices. The steps of `pair_with_host` check what they need of the record (`Ready`: a half
  certificate cannot be read in step 3, without a key step 4 cannot sign) and of `perform`'s
  buffers for path and request (`Sendable`). A wrong PIN is a refusal in step 4. `won`
  is what was reported paired, `lost` what was not in the file when it was cut short.
  Each start runs `mdns_discover`: `Rounds` rounds, each silent or with the answer of some
  host, of which up to `MAX_DISCOVERED` are kept; a host may answer repeatedly. `LongIps` are
  the addresses of 15 characters, which `strncpy` does not terminate in the uninitialised
  `found[]`.
* **Menu.** One action per state and button. Lists, pairing and launching are results; the
  array `apps` remembers from which host each entry was written.
* **Requests.** `call` is the function the turn is in, `at` the place in `perform`, `held`
  what the request has acquired by then (socket, TLS contexts, the client's certificate,
  buffer, response). The action of `Menu` that a turn amounts to happens when the last
  request of the turn has returned; nobody else sees the turn's variables before. An
  applist request that fills the list is followed by the buttons in the same turn
  (`call = "turn"`), and so perhaps by a launch. `FreesUnwritten` is the undefined
  behaviour after a failed request: the program ends, or goes on.

## 3. Runs

| Run | What it shows | Bounds, and why they are enough |
|---|---|---|
| `reassembly` | `TypeOK`, `WithinCapacity`, `Framed`, `IntactRunEmitted`, `OneFramePerStart` over every sequence of datagrams, runts and failed reallocations | six datagrams of frames of one, two and three parts, two without payload: an open frame, an interrupting SOF and a complete frame after it fit in six. The theorems remove the bound |
| `video_channel` | `ImplementsStream`: refines `FrameStream`, its fairness included | five frames, ten datagrams, a socket of two, two losses besides those of the socket: enough for an EOF and the next SOF to be lost together, the case in which two frames are joined |
| `jitter` | `TypeOK`, `ListOK`, `NodesAccounted`, `PlanesIntact`, `ImplementsFifo` | capacities 1 to 3, five nodes (three queued, one held, one being pushed), three planes so that `malloc` fails; symmetric nodes and planes. The theorems remove the bounds |
| `session` | `TypeOK`, `BuffersKept`, `ProceedsOnlyIfGranted`, `ClosedWhenIdle`, `LeakedPortIsFatal`, `OnlyLostIsLeft`, `EachStreamEnds`, `StartReturns`, over `Streaming` | three scopes, of which a behaviour takes one (`scope` in `MCStreaming`): two sessions, so that the second meets what the first left; one session with lines ended by LF, CR LF and CR CR LF, the last of which is taken for an empty line, a header buffer in whose last byte LF CR CR can end and which the longest answers overfill, and a body buffer of one with declared lengths of one and two for bodies of none to two; one session with any two constructors failing at any step and every resource of a turn grown or not. Objects of two sessions never meet, and no object depends on the bytes |
| `audio_playback` | `TypeOK`, `NeverClobbers`, `SubmittedInOrder`, `FirstPlaysInOrder`, `EveryBlockEnds`, over `AudioPath` | three blocks of two samples; up to six blocks staged, so the ring wraps; the hardware moves one block during a copy, all the ring allows; three packets, so that a bad one comes first, in between and last; a decoder without delay, whose two places the third packet would overfill |
| `pairing` | `TypeOK`, `PairedMeansTrusted`, `OneRecordPerHost`, `PairingsKept`, `IdentityKept` | three hosts and a store of two, so that records left by a torn file can fill it; one address begins with another and is as long as the field, cut off after each of two characters; two certificates and three starts: two pairings, the second one's torn save or failed load and what the third start finds; three rounds and two answers at each start |
| `menu` | `TypeOK`, `OnlyPairedStreams`, `ListIsOfChosenHost`, `NothingFromTheStack`, `NothingButTLSLeaks`, `RequestsReturn`, over `Requests` | two hosts and lists of up to two: a longer list of one host followed by a shorter one of the other; a buffer of two reads that has to grow once; all six requests of pairing |
| `pipeline` | `TypeOK`, `NothingRefused`, `NothingDropped`, `ShownInOrder`, `NoFrameStays` | decoder delay 2 and capacity 4, the smallest allowed (in the code 8); seven frames, so buffer and decoder are filled and emptied |
| `jitter_planes`, `session_headers`, `audio_lost`, `pairing_path` | the four findings below | the smallest instance |

`CHECK_DEADLOCK FALSE` is set where the bounded input runs out (reassembly,
video_channel, session, pairing) and where the program quits or crashes (menu, pipeline,
session).

`pairing` sets `PathCap` to 16384, the size of the caller's URL buffer, and `ReqCap` to 512
more, because with the 512 bytes of `path` and the 1024 of `req` that `perform` really has
no pairing gets past its first request (run `pairing_path`) and every invariant would hold
emptily. It checks the protocol as it is once both buffers are large enough; enlarging
`path` alone would not do, since `http.c:150-165` sends as many bytes as the request would
have had.

The property names are explained where they are defined. Some remarks:

* `LeakedPortIsFatal` and `IdentityKept` describe consequences a reader of the code may not
  expect: one failed `bind` ends streaming until the program restarts; a failed key
  generation leaves a certificate without key that is never regenerated.
* Frames of which an EOF and the following SOF are lost are joined by `reasm_feed`, which
  compares no `frameIndex`. `ImplementsStream` allows such a frame to come out because it is
  damaged, and demands that it comes out under the first frame's number, in order and once.
* `PairingsKept` is about each pairing by itself: an interrupted save or a load that falls
  short loses those behind the place where it stopped, no others. It does not say that
  pairings survive such an event, because they do not: after a failed load the next save
  writes a file without them.
* `OneRecordPerHost` leaves out `LongIps`. For them it fails: `hoststore.h:39` says "Add or
  update a host by IP", but an address without its end is not found and added again, as an
  unpaired host. It also leaves out an address that another begins with, as a file cut off
  in the longer one leaves a record of the shorter. The pairing itself is kept
  (`PairingsKept` covers all addresses).
* `BuffersKept` does not say that no buffer is exceeded, because two are: the header buffer by
  one byte (`rtsp.c:36`, `41`), the body buffer by what the host declares (`rtsp.c:49`). It
  says that nothing else exceeds one.
* `OnlyLostIsLeft` names what the program has no pointer to any more: luma planes (finding 1),
  a frame buffer whose `realloc` failed (`reassembly.c:122`) and what `rsxInit` gave
  (`rsx_renderer.c:86`). Everything else of a session has to be gone when it ends, and while
  it runs be of an object it will destroy.
* `NothingFromTheStack` does not keep Cross from launching an entry that an earlier list, perhaps
  of another host, has left in the array; it does happen.
* `NothingButTLSLeaks` names what `perform` does leave: the TLS contexts when the handshake or
  the buffer's `malloc` fails, and the parsed client certificate and key whenever they were
  loaded.

## 4. Fairness

* `VideoChannel`: the host goes on sending and `run_stream` calls `session_pump` in an
  endless loop that never blocks. Nothing makes the network deliver: losses are unfair.
* `VideoChannel` again: what is on the wire arrives (`Arrive`), if only at a port that is not
  bound; nothing makes the program bind it.
* `Session` (and the run over `Streaming`): `Going` (reads time out, so `session_start` never stops for good) and `Host`
  (requests that reached the host are handled, if only by refusing). No fairness for
  starting or stopping a session, which are the user's.
* `AudioPlayback`, `AudioPath`: the call in progress runs on and the hardware plays. None for
  `Submit` or for datagrams.
* `Pipeline`: turns go on; none for frames arriving.
* `Pairing`: `Step`, only for `pairing_path`, whose host never fails. 
* `Requests`: the program goes on where it can, and a host closes the connection sooner or
  later, as `http.c:175` expects ("server closes after Connection: close"). The second is an
  assumption about the host: one that keeps the connection open blocks the menu
  forever, since `http.c:179-186` reads without a timeout. No fairness for the user.
* `Reassembly`, `Jitter`, `Menu`, `Streaming`: no fairness, safety only.

## 5. Findings

Each is a violation run with one property that a comment or document of the
repository states.

1. `PlanesOwned` (`av/jitter.c:27`): `frame_copy` clears `dst->y` before every plane; the luma
   plane is lost at each push and the renderer reads a null pointer.
2. `HeadersLeaveTheBody` (`net/rtsp.c:33`): the test for the blank line wants LF CR CR, which
   CR LF CR LF does not contain; when the answer to DESCRIBE comes in one piece, its SDP
   is read into the header buffer, which the comment above the function excludes, and
   `rtsp_read_body` finds nothing of it.
3. `NothingLost` (`av/audio_playback_ps3.c:103`): all blocks of a submit go to the same
   block of the ring when the hardware does not move in between.
4. `PairingSucceeds` (`net/http.c:71`): the path of the first pairing request carries the
   client certificate in hex and does not fit into `perform`'s 512 bytes.

Smaller things met while modelling, no run each: `vd_pump`'s -1 is taken for a frame
(`av/pipeline.c:75`; `ShownInOrder` admits the repeated or uninitialised frame, and the
program may end copying the latter);
the header buffer of an RTSP answer takes one byte too many when LF CR CR ends in its last
byte (`net/rtsp.c:36`, `41`), and the body buffer what the host declares (`net/rtsp.c:49`);
a load that fails or falls short is followed by a save that wipes out what was not read
(`common/hoststore.c:15-21`); a certificate cut off in the file is never generated anew
(`proto/pairing.c:106`); `app_sel` survives a shorter list, so Cross can launch an entry of an earlier list;
`hoststore_save` is called twice and truncates before it writes;
`http_response_t` is read uninitialised when `http_get` fails (`net/rtsp.c:254`);
UDP sockets leak when `udp_open` fails; HTTP reads have no timeout; `mbedtls_ssl_set_bio` is
given the address of a parameter that is dead when it is used (`net/http.c:107`); TLS contexts
and certificates leak (`net/http.c:110-113`, `178`, `188-192`); `ad_pump`'s -1 is taken for a frame
(`av/pipeline.c:80`); addresses of 15 characters are not terminated (`net/mdns.c:122`);
`reasm_create` and the decoders' outer structs are written to unchecked
(`proto/connection.c:49-52`, `av/video_ffmpeg.c:106`, `av/audio_ffmpeg.c:111`), as are the
results of `malloc` and `realloc` in a turn (`av/video_ffmpeg.c:49`, `av/audio_ffmpeg.c:46`,
`av/audio_playback_ps3.c:30`).

## 6. Proofs

All for every value of the constants, from the named ASSUMEs of the modules only.

* `Reassembly_proofs` (assumptions `StreamAssumption` and those of the module): type
  correctness is inductive by itself and gives `WithinCapacity`, once the grown capacity is
  shown to hold the payload. `Framed` is strengthened by `BufFramed` and
  `BufStarted`: the buffer of the open frame already obeys what is promised of emitted ones,
  and begins with a SOF as long as no `realloc` has failed. `IntactRunEmitted` looks back
  over the history and needs `RunInProgress`: while a frame's datagrams come one after
  the other the buffer is exactly that prefix. `OneFramePerStart` needs a count of SOFs with
  the open frame already charged to one.
* `Jitter_proofs`: the inductive invariant is
  `Inv == TypeOK /\ ListOK /\ NodesAccounted /\ EmptyWhenGone`; none of the middle two is
  inductive alone, because a push relies on `calloc` returning a node that is in no list, and
  freeing the head relies on the list visiting it once. The list is given by `Chains`, the
  set of walks from `head`; `WalkUnique` (by well-founded minimality, as there is no
  induction over data) makes it a singleton. `PlanesIntact` is added on top of `Inv`.
  `FifoImplemented` maps each call to a step or a stutter of `DropOldestFifo`; a push whose
  node cannot be allocated stutters.
* `Pipeline_proofs`: `NothingRefused` and `NothingDropped` follow from a bound on what is
  in flight, `LoadOK`: decoder and jitter buffer together hold at most `DecDelay + 1`
  frames at the start of a turn and one more until a frame is popped; the assumption
  `DecDelay + 2 <= JITTER_CAP` makes that fit into the buffer. `ShownInOrder` follows from
  `OrderOK`: what is in the decoder was sent and is in order (`DecOrder`), what came out of
  it is older than what is still inside (`AllOut`), and shown, held, queued and last decoded
  frames follow one another (`ShownOrder`, `QueueOrder`, `VfOrder`). Junk frames may be
  anywhere between them; that is why it relates to `newest`, the newest real frame shown, and
  not to the one on the screen.
* `AudioPlayback_proofs`: `NeverClobbers` is not inductive, as it says nothing between two
  copies; `PlacesOK` adds that the playing block lies `lag + 1` after the one chosen
  (`Behind`), so that the hardware would have to move around the ring to reach it; `MaxLag`
  is less than that. Type
  correctness needs `StagingOK`: what is staged is the end of the stream, cut where a block
  begins, and `BlocksOK` for what is in the ring.
  `FirstPlaysInOrder` is about what plays, so its invariant is about what may still play: of
  the blocks not yet heard the nearer to the hardware is the earlier, and all are later than
  what was heard (`UnheardInOrder`); while a block is copied none beyond it is unheard
  (`HeardBeyond`); and what was copied is earlier than what is staged (`CopiedBefore`).
  Overwriting a block that was never heard keeps all three, which is why the lost blocks of
  finding 3 do not reorder the rest.
  For `AudioPath` the decoder is added: packets in it are in order (`InOrder`), all later
  than the frame last submitted (`LastSubmitted`), and without gaps until a packet could
  not be decoded (`Gapless`).
* `Menu_proofs`: `OnlyPairedStreams` and `ListIsOfChosenHost` are inductive together with
  the types. `NothingFromTheStack` is not, because the mark survives a shorter list:
  `MarkedListed` says that no entry up to the mark was never written, which loading a list
  preserves since it only writes. A step of `Requests` is shown to be one of `Menu` or none
  (`TurnIsMenus`), so the same holds with the requests inside the turns
  (`RequestsKeepMenu`). `NothingButTLSLeaks` needs, for each place in `perform`, what is
  held there (`HeldAt`) and that a read finds room for itself (`BufferHolds`).
* `Pairing_proofs`: `PairedMeansTrusted` is true of memory and of what a torn file gives
  because it is true of every beginning of a record: `paired` is the last field
  written, so a record cut off anywhere is unpaired or whole (`TornRecord`; `CutCut` for an
  address cut again by a later save). `StoresSound` says so of both stores, `CurrentSound` of
  the host being paired. `PairingsKept` needs `Kept`: what was reported and is not `lost` is
  in memory while the program runs, and, except while the file is being written, in the
  whole records of the file. A load of any length keeps those within it (`ReadLess`), and
  what the end of the program loses in a save is what memory has and the file has not
  (`LosesUnsaved`).
* `Session_proofs`: `ProceedsOnlyIfGranted` cannot be proved from the socket alone, since
  an answer names no request. `Answers` relates both directions: of the open session at
  most one request is unanswered, all before it are granted, and at most one "200" is in
  wire and header buffer together, and only if the request waited for was granted. A new
  connection empties the wire, and old mail goes to closed connections (`MailOld`).
  The type invariant needs `Places`, what each read knows of its buffer: headers are read
  only into a buffer that is not full, and the second byte of a round only after LF CR CR.
  With it `BuffersKept` is inductive. `ClosedWhenIdle` and `LeakedPortIsFatal` follow from
  `Ports`, what is open and bound before and after the first failure of `udp_open`. For
  `Streaming` each step is one of `Session` with `ObjectsFollow`, or a turn. `OnlyLostIsLeft`
  is inductive with `Kept`: whatever is held and not lost belongs to an object that exists
  and is among what that object's destroy function releases (`Owned`), which must be shown of what each
  constructor's error paths leave (`GivenBack`: nothing but `rsxInit`'s), of what it
  acquires (`MadeWhole`) and of what each part of a turn adds.
* `VideoChannel_proofs`: `StreamImplemented` is the safety part of `ImplementsStream`. Its
  invariant `ChanInv` follows each datagram: those under way ascend in the stream's order,
  each once (`Line`), none of them of a frame before the last emitted or the open one
  (`Ahead`), and none is both under way and stored (`Collected`). Of an untouched frame
  every datagram sent is under way or stored, and the stored ones are its beginning
  (`Untouched`); of a damaged frame one datagram is gone for good (`Torn`). Two lemmas carry
  the argument. `Due`: the datagram read next never passes an untouched frame by, which is
  what makes the frames skipped damaged ones. `EmitsWhole`: at an EOF the buffer is the whole
  frame if and only if it was not damaged; the joined frames of section 3 are on the "only
  if" side.

Only model-checked, and why:

* Liveness: `EachStreamEnds`, `StartReturns`, `EveryBlockEnds`, `RequestsReturn`, `NoFrameStays`,
  and that untouched frames do come out, the fairness half of `ImplementsStream`. The
  installed provers reason about neither fairness nor ENABLED.
* The findings: their runs show a counterexample, and there is nothing to prove.

Every invariant and action property of a passing run is proved.

## 7. Plan

Done so far: sections 2 to 6, in the order video path, jitter buffer, session, audio,
pairing, pipeline, menu; then the objects of a session, the audio path, requests,
discovery and the socket of the video path; then the proofs of section 6. Next:

1. Theorems that go beyond the runs' properties: that `Streaming` implements `Session` and
   `AudioPath` implements `AudioPlayback` as specifications of their own, not only that
   their invariants carry over; the pipeline's frames mapped to a FIFO from decoder to screen;
   the bound on the socket's backlog below which no datagram is refused.
2. Datagrams of an earlier session that arrive in a later one: `EachStreamEnds` shows that
   they end, `VideoChannel` has one session only.
3. Compose `Menu` with `Pairing` where they share `paired` and the records.

## 8. Not modelled

* Drawing: pixel conversion, text and the font, with the copy of the chroma rows that
  halves an odd height; `rsxInit`'s contexts, which nothing in the program can release.
* The conversion of samples (`stage` reads sound of more than two channels as stereo) and of
  the stick positions in `pad.c`.
* Crypto: mbedTLS calls; only the order in which certificate and key are written.
* XML, SDP and mDNS parsing: external libraries or stateless byte work; modelled by their
  results.
* Input packets (`proto/input_packets.c`) and control encryption
  (`net/udp_stream.c:46-138`): stateless and not called by the program.
* What a stray pointer does to the heap (`net/rtsp.c:256`), and TLS written to another
  connection than its own (`net/http.c:107`): the models end the program or the request there.
* Log, `main`, packaging tools under `tools/` and the native crypto test.
