# A verification project for scivi.ue.board

scivi.ue.board is an Unreal Engine scene in which an informant in a VR headset
looks at a 2D stimulus, selects areas of interest (AOIs) with a motion
controller, sorts them into lists named by voice, and is watched by SciVi, an
external program connected over a web socket.  The scene sends gazes,
selections, list edits and sound to SciVi; SciVi sends images, recognised
speech and switches.  This directory holds TLA+ models of the code under `src/Source/ReadingTracker`, the
TLC runs that check them on small instances, and TLAPS proofs.  Paths below
are relative to that directory.

## 1. Inventory

| component | state | operations | modules |
|---|---|---|---|
| outgoing frames of a connection (`ws/server_ws.hpp`, `Connection`) | `send_queue` and its mutex, the shared timer, `closed`, the socket | `send`, `send_close`, `send_from_queue` and its handler, `set_timeout`, `cancel_timeout`, `close` | SendQueue, OutStream, SendQueueProofs |
| handshake (`upgrade` of `ws/client_ws.hpp`; `read_handshake`, `write_handshake` of `ws/server_ws.hpp`; the parsers of `ws/utility.hpp`) | the texts in the two streambufs, `method`, `path`, `query_string`, `header` of a `Connection` | request, choice of the endpoint, answer and its check; percent coding, query strings, header fields | Handshake, HttpText, Incoming, IncomingProofs |
| incoming frames (`read_message`, `read_message_content`) | the outstanding read, the frame being read, `fragmented_in_message` | the handlers of header, length, mask and payload; ping, pong, close; the size limit | FrameReader, Incoming, IncomingProofs |
| server and game life (`SocketServerBase`, `server_wss.hpp`, `ReadingTrackerGameMode`) | acceptor, io_service, `connections`, `start_stop_mutex`, the server thread, `message_queue` | `start`, `stop`, accept with and without TLS, handshake, `connection_open/close/error`, `initWS`, `EndPlay`, `Tick`, `Broadcast` | WsServer, WsServerProofs |
| handler guard (`ws/utility.hpp`, `ScopeRunner`) | an atomic count | `continue_lock`, the lock's destructor, `stop` | ScopeRunner, ScopeGate, ScopeRunnerProofs |
| web socket client (`ws/client_ws.hpp`, `ws/client_wss.hpp`) | `connection` and its socket, timer, streambuf and `num_additional_bytes`, `fragmented_in_message`, `handler_runner`, `io_service` | `start`, `connect` with proxy and TLS, `upgrade`, the reads, `stop`, the destructor | WsClient, ScopeGate, WsClientProofs |
| the board (`ReadingTrackerGameMode`, `Stimulus`, `WordListWall`) | queued commands, image and AOIs, `SelectedAOIs`, the walls and their entries, the recording menu | the commands of `Tick`, trigger clicks, the buttons of menu and walls, what is reported to SciVi | Board, BoardProofs |
| motion controllers (`BaseInformant`) | visibility, time without action, stored direction | `Tick`, the trigger, SciVi's switch | Controllers, Informant, InformantProofs |
| voice (`Private/SubmixRecorder`, `Private/StaticSampleBuffer.h`) | `new_batch`, `RecordingRawData`, `bIsRecording` | the audio callback, `StartRecording`, `StopRecording`, the pop of `Tick` | VoiceRecorder, Informant, InformantProofs |
| custom eye calibration (`Stimulus`) | phase, samples, sums, points | `customCalibrate`, `applyCustomCalib`, `findBasis` | Calibration, GazeBasis, CalibrationProofs |

Not modelled: `crypto.hpp` (SHA-1 and base64 appear as a mark on the key), the
table of status codes, lock annotations and asio aliases (wrappers and tables);
of `utility.hpp` the parser of attributes separated by semicolons and `Date`,
which have no caller; certificates and options of TLS; the copied button widget
and the empty widget, image decoding, the drawing of contours (no state that is
read back); and the vendored asio, whose completions are external actions of
the modules that use it.  asio is 97 % of the source lines under `src/`, so the
share of lines the models stand for stays small while nearly all of the
program's own code that keeps state is among them.  The client and both TLS
variants ship with the server and are not instantiated by the program.

How the components interact:

- One **game thread** runs everything but the server and the audio callback.
  It calls `Broadcast`, which copies the endpoint's set of connections and
  calls `send` on each; `EndPlay` calls `stop` and joins the server thread.
- One **server thread** (`thread_pool_size` is 1) runs `start`, then the asio
  handlers one after the other: accept, handshake, reads, writes, timers.
  `on_message` puts a command into `message_queue`; `Tick` takes one a frame.
- One **audio thread** calls `OnNewSubmixBuffer`; `Tick` pops what it queued.
- Commands drive the board, the board's clicks send frames, and the controller's
  visibility decides whether a click selects.

What is hard, and the property that answers it:

- sends race with completions, failures and closes on a queue that starts its
  own writes: one write at a time, none forgotten, order kept (SendQueue);
- handlers outlive the stage they were started for: who is in the set, who is
  sent a frame, what runs after the join, whether the join returns (WsServer);
- control frames inside messages, three length encodings, and every error path
  having to end the chain of reads and say so (FrameReader);
- a request and an answer taken apart by parsers that look for separators, with
  the first frame perhaps already behind them in the buffer (Incoming);
- a lock-free counter with two loops (ScopeRunner);
- a client destroyed under its handlers, and a count of bytes that were read too
  early, passed from read to read (WsClient);
- pointers into an array that a queued command replaces, and a listener that
  only sees toggles and log entries, and not every new image (Board);
- times and stored directions updated in the wrong place, in the same frames in
  which a queue and a buffer are shared by two threads, the lock not taken by
  one of the calls (Informant);
- restarts and outliers in a machine of phases (Calibration).

`PROJECT.json` lists each hazard at its line with the properties that cover it.

## 2. The modules

**SendQueue** has one action per step that another thread can see: the test and
the assignment of `closed` are two, `send` is lock / `emplace_back` / start and
unlock, the completion handler is timeout / lock / pop / start and unlock /
callbacks.  `App` threads call from outside, `Workers` run handlers, and a
worker sends as well, from a callback and as the answer to a ping.  A socket
breaks by a reset or by the expired idle timer; asio's completion is an
external action.  `accepted`, `left`, `wire` and `called` are histories.
`handler_runner` is never stopped on the server, so `continue_lock` always
succeeds there and is left out.

**OutStream** is what the connection promises to a caller of `send`: accepted
frames leave in order and once; a failure loses the whole rest; a callback is
called once and tells the truth.  SendQueue implements it with
`sent <- accepted`, `lost <-` the frames that left the queue without reaching
the wire, and `reported <-` what `called` says of each frame.

**WsServer** gives each connection a stage (away, backlog, accepted, securing,
reading, writing, refusing, open, ended) and the game thread the steps of `EndPlay` and
`stop`.  `server` says which `SocketServer` it is: WSS puts the TLS handshake
with a timer of its own before the web socket's.  An outstanding accept is
`accept_op`, a ready result `accept_done`.  A frame is a whole command here:
bytes are FrameReader's, writes SendQueue's business.  A refused request is
answered too (stage `refusing`), under the timer, before its handler ends it.
An accept may fail while the acceptor is open.  Finding the endpoint and
binding the port succeed.

**HttpText** holds the parsers and their inverses as pure operators.  A text is
a sequence of lines, a line a sequence of tokens: words, and each separator the
parsers look for.  `find`, `getline`, the skipped blanks and the cut-off "\r"
are there token by token, since the boundaries are what can go wrong.

**Handshake** is one connection's upgrade seen from both ends.  The client makes
its request of the owner's URL and header, the server parses it, looks for the
endpoint and the key and answers, the client checks status and hash; either end
may have a stranger at the other, whose texts come from a set.  What a parser
leaves in the buffer is what the first read of a frame will find.  Abstractions:
the hash of a key is the key behind a mark; the order of the answer's three
fields is any; ports are below 65536 and the URL has no blanks; the proxy's text
is left out (its steps are WsClient's); an IPv6 name is put into the Host field
without its brackets, as the code does it, so the clause about Host is for other
names; the game's `on_handshake` always accepts, so 101 and 426 are the answers.

**FrameReader**'s client sends legal sequences of frames but may forget the
mask; payloads are an identity and a length.  Lengths are coded by the client
in 0, 2 or 8 bytes and decoded as the code does it; a byte has `Radix` values
and a size_t eight bytes, so that the sum that is compared with the limit wraps
where the code's does (`Plus`).  Each asynchronous read is a stage, and any read
may fail.  A message that is too big is reported in the code's three calls, each
a step: `connection_error`, the close frame, `connection_close`, so the same end
is told twice, once as an error and once as a close (`ReportTooBig`, `EndTooBig`).

**Incoming** composes the two on one connection of the server: the frames are
read from the streambuf the handshake leaves, by the handler that opens the
connection, while the client may have sent (at most `MaxEarly`) frames before.

**ScopeRunner** has the loads and the compare-and-swap attempts as steps, weak
failures included.  **ScopeGate** is the abstract gate: enter while open, leave,
close while empty.

**WsClient** has the client's operation under way as `stage`, its result as
`ready`, and the handler as two steps: `HandlerBegins` cancels the timer and asks
the gate (an instance of ScopeGate, which ScopeRunner is proved to implement),
the body touches the client and gives the lock back.  The owner may `stop` and
`Destroy` at any time between.  `CloseSocket` does what asio does: nothing to a
socket that is not open, the next address to a connect under way.  The stream
is counted in bytes: `at` is the place of the streambuf's first byte, a message
is the spans it was read from, so a count that is off by one shows as a read
out of step.  `config.layer` chooses the chain: plain, TLS, or TLS through a proxy that
is asked with CONNECT first.  One start per client; what the client sends, with the timer a write sets, has the server's code and is
SendQueue's business.

**Board** is the game thread's work: SciVi queues commands, a tick takes one,
the player clicks.  `sv_selected` and `sv_lists` are what a listener knows that
follows the SELECT and list-log frames only.  `missed` says what such a listener
cannot know: `OnImageUpdated` announces an image only if the gaze is on the
stimulus, and walls cleared for a command that holds no image are not logged.
Walls have the places `ReplaceWalls` gives them, so that "nearest" is a
distance; a hidden wall's name is read by nobody and is None.  Widget layout,
JSON and the contours are left out.  A wall finds an entry by its widget's name,
an FName, which knows neither upper nor lower case and is made unique with a
suffix; the names of AOIs stand for what FName tells apart, and two that differ
in case only are one name here.

**Controllers** holds per hand the tracked direction, the stored one, the
visibility and the time; `seen` and `still` record the truth.  **VoiceRecorder**
numbers the samples.  The audio thread's `Append` and `Enqueue` take two steps
each, as does the unlocked `Enqueue` of `StopRecording`; when two `Enqueue`s
overlap the engine's queue may lose a buffer, double one or keep an unwritten
slot, and the model chooses.  **Informant** composes them as `ABaseInformant`
does: one `Tick` looks at the controllers and then sends a buffer, one trigger
uses the controller and starts the recording.

**Calibration** is `applyCustomCalib` as one call per sample; a sample is close
or not, a gaze matters in the last phase only, where **GazeBasis** finds the
points that correct it.  The mean that a place's samples come to is any of
`Measured`: nothing keeps measured points symmetric.  Vectors are integers, those
of the code times `One`; EPSILON is 1 / `InvEpsilon`, and the centre's test, the
determinant and the weights are compared with it as the code does it.  The stimulus (`board`) is where it
was placed, carried before the camera, or, from the end of a calibration on,
given `m_staticTransform`: that is the transform of the canvas component relative
to the actor, so the actor does not get its own place and scale again.  No code
calls `applyCustomCalib` at this commit.

`MC*` modules give the constants their small values.  Definitions named
`X_Something` next to a definition `X` are broken variants of it (their comment
begins with "Mutant"); nothing uses them but the tests of the properties.

## 3. The runs

| run | checks | instance |
|---|---|---|
| sendqueue | types, one pinned write, no stranded frame, FIFO on the wire, every step a step of OutStream; with the idle timer every write ends though the peer stalls; while the peer takes data each frame is settled and each callback called | two application threads that send and close, one worker, two messages with callbacks, a pong, a close frame, an idle timer |
| sendqueue_closerace (violated) | "Send close only once": two closers both pass the test of `closed` | two close frames |
| wsserver_life | the set is the open connections, no frame before the handshake's answer, accepting goes on, nothing runs after the join, the join returns, handshakes end | two clients of either server, refused or accepted, accepts that fail, one command each, one broadcast, EndPlay early or late |
| wsserver_stopaccept (violated) | "Stop accepting new connections": `stop` before `start` has stored anything does nothing | one client |
| incoming | what is asked is understood, the client opens on acceptance only and nothing is left before the first frame, the right request opens both ends; messages in order and whole, limit on whole messages, silence after the end but for the second report of a message that is too big, every message read or the end reported | URLs with ports, an IPv6 name, paths, queries of one or two fields with every special character, extra headers; strangers' requests and answers; four frames, one of them early, of bytes with 12 values: lengths 1, 130 and the greatest, one below half of what a size_t holds, and that half as the limit |
| wsclient | every read begins where its part of a frame does however many bytes came early, messages exact; quiet after destruction; upgrades end, silent servers are sent a close frame, broken connections are reported | six streams of two to four frames, up to 12 early bytes, two addresses, limit 4; plain on the owner's io_service, TLS and TLS through a proxy on an internal one |
| wsclient_stop (violated) | "Stop client, and close current connection": a stop while the name is resolved, or between two addresses, closes nothing | the same |
| scoperunner | types, the count, quiet after stop, ScopeGate implemented, stop returns | three threads, two stoppers, two scopes each |
| board | selection valid, listener's selection and lists equal the scene's, lists belong to the image, nearest wall first | two images with a shared and a repeated name, three walls, one queued command, names of two words |
| informant | no hiding in use, no sample lost, only tails twice, the queue drains | the right hand with two poses, ticks of 1 and 2, timeout 2; buffers of two samples, four samples in chunks of one and two, two presses |
| controllers_moved (violated) | "check if Right controller has moved": the stored direction is never updated | two poses, ticks of different lengths, timeout 10 |
| calibration | points belong to their places, nine when done, each gaze surrounded or given the nearest point, the calibration ends | three by three places, two means at the middle and at a corner, small sample limits, 225 gazes, EPSILON 1/12 |

Why the bounds are enough.  Two application threads and one worker give every
pair of callers; three frames let a queue be empty, alone, and longer while a
write, a failure and a callback's own send happen, and a fourth closes.  Two
clients let one be accepted, answered or broken while another is.  Four frames hold a message
of three fragments with a control frame inside; the longest with the shortest is as
big as the limit, with any other too big, and two of the longest come within two of
a size_t's end; a byte of 12 values keeps these numbers within TLC's integers;
one early frame is enough to be in the buffer before its reader.  Queries of two
fields reach the separator between them; values are empty, end in a character
that has to be coded, or look like a code.
Twelve early bytes hold the whole of the longest frame and a part of the next,
or four short ones; two frames and the two length forms give every way to cut
a stream, and the fragment before the long frame passes the limit.  Three walls reach the case of all walls in use and both
kinds of places (a pair at equal distance, one further off).  Four samples in
buffers of two fill one, leave a tail, and begin the next with it; a chunk of two
does not fit behind a tail of one, so Append cuts.  A timeout of 2 with ticks of
1 and 2 is reached in one tick and in several.
Sample limits differ from each other as the code's do, and the order of
`SAMPLES_TO_REJECT` and `SAMPLES_TO_DECREASE` is kept.  The gazes cover the grid of
points and a little beyond; the displaced means make its triangles unequal, so
that the three points tried miss gazes amid the grid, and EPSILON is coarse enough
to cut weights and to hold more than one gaze in the middle.  The bounds
`MaxCmds`, `MaxCasts`, `MaxFrames`, `MaxScopes`, `MaxQueue`, `MaxWords`,
`MaxCaptured`, `MaxPresses`, `MaxEager` and `MaxEarly` stand in the guards of what an environment may
begin, never in those of a handler.  Because of them a system may come to rest, so
deadlock is checked in Board, Informant, Controllers and Calibration only, where a tick or
a sample is always possible.

Properties that carry conditions:

- `SelectionMirror` and `WallMirror` promise nothing to a listener that has
  `missed` an image or a clearing since the last frame that announced one.
- `WallMirror` holds as long as no two lists shown share a name
  (`UniqueNames`): the log names lists by their text.
- `NothingLost` and `OnlyTailsTwice` speak of runs in which `StopRecording`
  never overlapped the audio thread's own `Append` or `Enqueue`; when it does,
  a buffer may be lost, and the model shows how.  `NothingLost` counts the
  samples `Append` took, and says that they are in a buffer that was queued or in
  the one being filled, nothing of when they are sent: what is queued after
  the last release stays in the queue.  `QueueDrains` holds while the button
  is held.
- `NotHiddenInUse` takes a press of the trigger for a use.  A controller that
  rests longer than the timeout with the button held is hidden, recording or not.
- `SizeRespected` holds for lengths below half of what a size_t holds (the
  protocol allows no others) and, as a theorem, for limits up to that half
  (`Room`), where no sum can pass the test by wrapping.  With the limit the game
  leaves in place, the greatest size_t, nothing is too big.
- `QuietAfterEnd` knows one exception: `read_message_content` reports a message
  that is too big, sends a close frame and reports the same end again.
- `OutsideIsNearest` does not say when three points surround a gaze: with
  measured points the correction may jump to a single point amid the field of view, too.
  `DoneIsComplete` does not say that the stimulus is back where it was, since it
  is not.
- `KeepsAccepting` says that accepting goes on after a failure; that an acceptor
  which fails again and again does not keep the server alive is `EndPlayReturns`.
- `EndPlayReturns` asks that the server had come to listen when `EndPlay` began;
  `wsserver_stopaccept` shows the other case.
- `ConnectionSettles` speaks of the upgrade and of open connections: resolving
  and connecting last as long as the operating system lets them, the request
  timer of the code notwithstanding, and a `stop` before the socket is open does
  not keep the client of an owner's io_service from connecting (`wsclient_stop`).
- The program leaves `timeout_idle` at 0.  `sendqueue` sets it, which adds the
  timer's steps to the others; only `StalledWriteEnds` needs them.
- `OneWritePinned`, `StoppedMeansQuiet`, `SetIsOpen`, `MessagesInOrder`,
  `BytesInStep`, `SelectionFresh`, `NothingLost` and `PointsInPlace` include
  their module's type invariant.

## 4. Fairness

- SendQueue: threads keep running (weak fairness of each thread's own steps);
  a ready handler is run (strong, since asio's queue is FIFO but the worker may
  be busy in between); a write on a broken socket ends and the clock runs.  The
  peer owes nothing: that it takes data is a premise of `StreamProgresses`.
- WsServer: threads run, ready handlers run (weak: nothing disables them while
  the server runs), timers expire, the kernel accepts.  Requests, messages and
  closes by a client and the end of the game are not assumed.
- WsClient: ready handlers run, an expired timer is served (strong: other
  handlers may come first), clocks run, an operation on a broken socket ends, a
  begun `stop` goes on.  Servers, names and owners owe nothing.
- Incoming: the ready handlers of either end's handshake and of the frames run.
  Nobody has to send a frame, and every read and write may fail.
- Informant: a begun audio callback and a begun release end, frames go on.
  Nobody has to press or release.
- ScopeRunner: scopes are left and `stop` spins.  Calibration: samples keep
  coming.  Board and Controllers assume nothing.

## 5. Proofs

**SendQueueProofs**, for any sets of threads, frames and callbacks and any
timeout: `SafeSpec => []` of `TypeOK`, `OneWritePinned`, `NoStrandedFrame` and
`FifoOnWire`.  None of them is inductive.  The inductive invariant is

    IInv == TypeOK /\ MutexInv /\ WorkerInv /\ QueueInv /\ TokenInv
            /\ PinnedInv /\ DriverInv /\ WireInv

- `MutexInv`: the mutex is held by exactly the thread inside a critical section.
- `QueueInv`: the queue is what was accepted less what has left.
- `TokenInv`, `PinnedInv`: the write under way is one token, as an operation, a
  ready completion or a handler before its pop, and it belongs to the head.
- `DriverInv`: outside the critical sections a non-empty queue has the token; a
  thread about to start a write knows from the queue's length whether it has.
- `WireInv`: on a sound socket the wire is ahead of `left` by one exactly while
  a successful token is under way; on a broken one it does not grow.

One lemma per part shows that a step keeps it, with a case per action;
`Invariance` puts them together and the four theorems follow.  The assumptions
are `ThreadAssumption`, `FrameAssumption` and `TimeoutAssumption` of SendQueue.

Its second half shows that SendQueue implements the safety of OutStream
(`Refinement`), under the refinement mapping of section 2.  A step of the
abstract stream asks for more than `IInv` says: that a frame `send` accepts is
new (`NewInv`), that also on a broken socket the wire is ahead of what left the
queue only by the unpopped success (`AheadInv`), that what a worker is about to
tell a callback is true (`TruthInv`) and told once (`OnceInv`).  Each concrete
step then is an abstract one or a stutter; only a push, the end of a write, the
pop, the error path and a callback can be seen.

**WsServerProofs**, for any connections, commands and broadcasts, for both
servers and however early `EndPlay` comes: `SetIsOpen`, `FramesAfterHandshake`,
`KeepsAccepting` and `QuietAfterJoin`.  `Listening` says how far acceptor and
io_service have got where each thread is (nothing listens before `start` is
through its setup, the acceptor is closed once `stop` is past it, the io_service
stops last); `AcceptedWaits`, that the connection of a ready accept is not in
its handshake yet; `OpenInSet`, that the set is the open connections until
`stop` clears it.  Assumption: `ServerAssumption`.

**IncomingProofs**, for any handshake before them and any frames, lengths and
size limit: `MessagesInOrder` and `QuietAfterEnd`; for a limit up to half of what a
size_t holds `SizeRespected`; and, of the handshake itself, `OpensOnAcceptance` and `AskedIsUnderstood`.  The invariant has
five parts.

- `IInv`: `OnItsWay` says that each frame under way takes a reader from so many
  messages and fragments to so many (`Takes`), and that the frames together lead
  it from what it has to where the client is; control frames take it nowhere.
  This holds whatever a length says (`InOrder`).
- `SizeInv`: the length bytes on the wire and in the reader are those of the
  payload (`Encode` and the three ways to decode undo each other for every
  length of eight bytes whose highest bit is not set, which is all the protocol
  allows), and if the limit is at most half of what a size_t holds (`Room`), the
  length kept with a fragmented message is the sum of its fragments, which the
  test of each header keeps within the limit: no sum wraps.  The radix of a
  byte is any number above 1.
- `EndReported`: what has been told of the end and which close frames were
  queued, stage by stage; `QuietAfterEnd` follows from it.
- `UpgradeInv`: the answer under way is read by the client as the history
  variable says (`ReadAs`), behind a request nothing is left, and no answer
  comes once the client has made up its mind.  That the program's own request
  and answer are read so (`RequestIs`, `AcceptanceIs`) follows from how lines
  are found and cut: `FieldIs` (a written field is read back), `ReadUpTo` (the
  header ends at the first line without a colon), `ThreeInAnyOrder` (the fields
  of the answer come in any order of the multimap), `ReadAlone` (what stands
  behind an answer changes nothing of how it is read).
- `AskedInv`: while a client keeps what its owner asked for, it has sent nothing
  or the request of that, and what the server has understood says the same
  (`Says`).  `RequestSays` puts together what each parser undoes.
  `DecodeUndoesEncode`: a flattened sequence has each of its parts where the
  lengths of those before say (`FlatIs`), so a walk backwards over the blocks of
  an encoded value decodes one character per block.  `QueryRead`: a text made of
  pieces with "&" between them is cut into these (`PiecesAre`), since neither
  names nor encoded values have one, and each piece is parted at its first "=".
  `LineRead`: the first line has two blanks since path and query have none, and
  the query begins behind the first "?".  `HostPortRead` follows the loop of
  `parse_host_port` through the host, in brackets or not, to the port;
  `SlashIs` finds the end of the host; `TargetIs` says what the constructor has
  then.  `FieldRead` and `HeaderRead`: a field with a name without colon and a
  value without leading blank is read back, so the owner's own fields are all
  found and `Host` is found once.

The first two assume that the model value None is not one of the records it
stands beside (`NoneIsNoRecord`).  The third assumes of the texts that come from
outside (`TextsAreHttp`): the program's field names differ in lower case too; the
host of a URL is a text and an owner's header has no second key; a client of
another make sends nothing behind its request before it is answered; the header of another
server's answer ends with its last line, and "accepts" means that it is read so
when it stands alone.  The fourth assumes of what owners ask for (`AskedIsHttp`):
"%", "+", "&" and the blank are among the characters that get a code, no two get
the same, and no code has a blank or an "&"; ports are numbers of 16 bits with one
writing each; a URL (`IsUrl`) has a host that is not empty, no "/" or bracket in it
and a ":" only between brackets, a path without "?" and blank that is empty or
begins with "/", a query only behind a path, in which names are not empty and have
no "&", "=" or blank, while values are any texts; a header (`IsHeader`) has names
without ":", none of them a second `Host`, and values that do not begin with a
blank.  The code takes none of these for granted in what it reads, but outside of
them a URL does not say what it is taken apart into: a path with a "?" is a path
with a query.  The constants of the Incoming run are such texts.

**WsClientProofs**, for any server, configuration, number of addresses and
script of frames: `QuietAfterDestruction` and `BytesInStep`.  `GateShut` (from
the destructor's first step on the gate is shut and nobody is behind it) is
inductive because every body of a handler needs the lock (`BodyNeedsLock`) and
only the destructor closes the gate.  For the bytes, `Tells` goes through the
script frame by frame: how far the stream is, what is collected, what is
complete.  `ReadInv` says that the reader is amid a frame with what the frames
before it told, that its buffer ends within the stream, and that
`num_additional_bytes` is what the buffer holds behind the part that is read.
It assumes that None is not a frame (`NoneIsNoFrame`).

**BoardProofs**, for any images, AOIs, words, lengths of the queue and of a
name, and three walls or five: `SelectionFresh`, `SelectionMirror`,
`ListsOfImage`, `WallMirror` and `NearestFirst`.  The invariant ties the scene
to its listener: `SelectionInv` (pointers into the image on show, each once, and
a listener that missed no image has exactly their names), `WallInv` (a wall in
use holds AOIs of the image, each once; names of walls in use differ if the
player keeps to that; `Followed`, a listener that missed no clearing has a list
per wall with what is on it) and the types of the rest.  A click on a list adds
or flips many AOIs at once: `AddAll` and `FlipAll` say what these folds yield.
An AOI's name is an entry of its image's sequence (`BoardAssumption`).

**InformantProofs**, for any hands, poses, timeout and tick lengths:
`NotHiddenInUse`.  The code's time is honest (`TimeHonest`): it never exceeds
the time the controller rested and was not used, and it is zero as long as the
controller was seen away from its stored direction.  And for any capacity of
the buffer, chunks, number of samples and presses: `NothingLost` and
`OnlyTailsTwice`.  `VoiceInv` says where the audio thread and the release
stand and what they hold (`ThreadsInv`), and, unless they overlapped, that what
was sent, is queued and is in the buffer is what `Append` took, without a gap
(`SampleInv`), in its order but for the tail a release leaves behind, of which
there are at most as many as releases (`OrderInv`).

**CalibrationProofs**, for a pattern of any odd size, any counts of samples and
any gazes, however often it is restarted: `PointsInPlace`, `DoneIsComplete` and
`OutsideIsNearest`.  The invariant (`Consistent`) says what each phase may rely
on when a sample comes: while a point is taken the target stands at the place
of the next index, and the sums hold the close samples since the last outlier,
less the rejected.  For the basis of a gaze, `NearestIs` says that the loops
find the nearest of the points they go through, `Cramer` that the uncut weights
of three points, times the points, are the gaze times their determinant, and
`CutIsSmall` and `SumIsNear` that the weights that are cut move that sum by no more than the
tolerance.  `GazesAreDirections` assumes that there is more than one row
of points, that gazes are vectors of integers and means such vectors in the cube
around the unit ball; nothing is assumed of where the points lie.

**ScopeRunnerProofs**, for any finite set of threads and any stoppers:
`TypeOK`, `CountIsHolders` and `StoppedMeansQuiet` from the invariant
`LocalTypes /\ CountIsHolders /\ ReturnedNegative`, and `Implements`: every step
of the runner is a step of ScopeGate or a stutter.  The lemmas on holders
(`OneMore`, `OneLess`) carry the arithmetic of the count.  Assumption:
`ScopeAssumption`.

**Folds and sums.**  The library's induction theorems take an operator as a
parameter, which the provers cannot instantiate, but the well-foundedness of the
naturals (`WFMin`) can be used: a statement about all prefixes of a sequence, or
about all parts of a finite set, holds because the least counterexample has a
smaller one (`Least`, `LeastPart`, `UpToEnd`).  The folds of the library are a
CHOOSE of a recursive function; that there is one is shown in this way
(`FoldExists`), and what it yields follows (`FoldRuns`, `AddAll`, `FlipAll`).  A
recursive function is such a CHOOSE too (`HostAndPortIs`, `DecodeIs`, `FlatIs`):
the function exists (`RunExists`), so the chosen one has the values of its
recursion, and what holds of them is carried along the line (`UpTheLine`).

Only model-checked:

- all liveness and `EveryMessageRead`, `RightRequestOpens` with it: fairness and
  ENABLED are beyond the prover;
- the findings, which are single counterexamples.

## 6. Findings

1. `ws/server_ws.hpp:241`: `closed` is tested and set in two steps, so two
   callers of `send_close` can both send a close frame, against the comment at
   line 240.
2. `ws/server_ws.hpp:449`: `stop` before `start` has made the acceptor, which it
   tests (line 452), does nothing, and the server accepts connections afterwards,
   against the comment at line 448; the join of `EndPlay` then waits for a server that nobody stops.
3. `ws/client_ws.hpp:328`: `stop` closes the connection's socket, which is not
   open while the name is resolved and is opened anew for the next address; on
   an io_service of its owner the client connects and upgrades after `stop` has
   returned, against the comment at line 321.
4. `BaseInformant.cpp:114`: the direction a controller is compared with is only
   ever stored by `BeginPlay`, so a controller that rests elsewhere counts as
   moved in every tick, against the comment at line 112.

## 7. Plan

Done: SendQueue and OutStream, ScopeRunner, WsServer with both servers, Handshake
and FrameReader as Incoming, WsClient with its three layers, Board, Informant
(Controllers and VoiceRecorder), Calibration; the proofs of every safety
property the runs check, and of both refinements.

Left, in this order:

1. WsClient: a second start on the same client.
2. Board: which index a listener reads against which image when it lags behind,
   if the frames ever come to name their image.
