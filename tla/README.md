# A verification project for TinyVNC

TinyVNC is a VNC client for the Nintendo 3DS. One program shows up to two VNC
servers (one on each screen), plays an audio stream, feeds the console's
buttons, sticks and motion sensors to a PC (vJoy over UDP, or as a Cemuhook
server), and has an on-screen keyboard, a log and a configuration menu on the
touch screen. This directory holds TLA+ models of its own logic, the TLC
configurations that check them, and proofs that TLAPS checks.

The program's own code is `src/main.c`, `src/uibottom.c`, `src/dsu-server.c`,
`src/vjoy-udp-feeder-client.c`, `src/streamclient.c`, `src/mp3decoder.c` and
`src/utilities.c` (about 4900 lines). `src/rfb` is libvncclient, changed for the
console, and `LIBSDL` is SDL 1.2 with a 3DS back end written for it. Of the first
the connection, the handshake and the plain messages are modelled, of the second
the driver's threads; the rest of both is third-party code. Line numbers below
are of these files.

## The system

### How it runs

There is one main thread. `main()` (main.c 1784-2044) loops over sessions; a
session is a loop that, once per turn, looks at the touch gesture's clock,
waits for the next frame (`SDL_Flip`), polls all events, samples the pads,
serves the Cemuhook clients, drives libcurl, and waits up to 10 ms for each VNC
server. Beside it run

- the *worker thread* (uibottom.c 539), which runs animations,
- the *video thread* of the SDL back end, which calls `uib_repaint()` each frame,
- the *DSP*, which plays wave buffers and marks them done.

Everything else is a callback or a plain call on the main thread. There is
almost no locking: the threads agree through the order of their accesses to
shared variables, a semaphore and a kernel event.

### Inventory

| component | state | operations | talks to |
|---|---|---|---|
| Worker thread (uibottom.c 531-566) | ring of 10 slots (function, data), semaphore, two positions | `start_worker`, `worker_init`, `worker_thread` | main thread by shared memory and the semaphore |
| Keyboard animation (uibottom.c 568-633) | `kb_y_pos`, an animation set per call | `toggle_keyboard`, `animate` | worker thread; `uib_repaint` reads `kb_y_pos` |
| Tap gesture (uibottom.c 878-1087) | `status`, `timeout`, `status2`, `mouse_state` | `uib_handle_tap_processing`, by event and by clock | touch events in, mouse buttons out through SDL's queue |
| On-screen keyboard (uibottom.c 1095-1197) | `kb_activekey`, `sticky`, `process_touchpad`, `kb_enabled` | `uib_handle_event`, `uib_enable_keyboard` | key events out through SDL's queue; passes touches to the gesture |
| Key input and repeat (main.c 454-525, 684-818, 1658-1692; uibottom.c 199-278) | `shift`, quick menu, `keydown`, `repeat_state`, the keymap | `handleSDLEvent`, `map_joy_to_key`, `checkKeyRepeat`, `readkeymaps` | VNC servers by `SendKeyEvent`; the session by commands |
| Session loop (main.c 1784-2044) | `active`, `cl`, `cl2`, service switches, event target | start, one turn, clean up, retry | every service |
| Cemuhook server (dsu-server.c) | doubly linked client list; gathered samples; touch id | `dsu_server_run`, `dsu_server_update` | UDP clients |
| vJoy feeder (vjoy-udp-feeder-client.c) | gathered samples, last packets | `vjoy_udp_client_update` | UDP receiver |
| Audio stream (streamclient.c, mp3decoder.c) | curl handles, `curl_paused`, list of wave buffers, `queuedSamples` | `start_stream`, `run_stream`, `stop_stream`, the write callback | libcurl by callback, DSP by buffers |
| Bottom screen painting (uibottom.c) | log text, menu image, messages, repaint event | `uib_update`, `uib_printf`, `uib_repaint` | the video thread |
| Screen scaling (main.c 187-300, 566-682; uibottom.c 1259-1370) | sizes and offsets | `resize`, scrolling by pointer, `uibvnc_resize` | VNC client's frame buffer |
| Configuration (main.c 800-960, 1495-1745) | the configuration list, files | `getconfig`, `editconfig`, `saveconfig`, `safeexit` | files, on exit only |
| VNC protocol (rfb/sockets.c 101-231, rfb/rfbproto.c, rfb/vncviewer.c) | `buf`, `bufoutptr`, `buffered`; version, security type; frame buffer and its size | `ReadFromRFBServer`, `InitialiseRFBConnection`, `WaitForMessage`, `HandleRFBServerMessage` | servers; `resize` by callback |
| SDL back end (LIBSDL/src/video/n3ds) | surface, texture, targets, `runThread`, one event | `SDL_SetVideoMode`, `SDL_Flip`, `SDL_Quit`, `videoThread` | GPU, `uib_repaint` |

### What is hard

- *Interleaving without locks*: the ring of the worker; the wave buffers that
  the DSP is still playing; the repaint event; the start and stop of the video
  thread.
- *State that outlives its session*: `shift`, the quick menu, the gesture, the
  sticky keys, `curl_paused` and the gathered samples are static; a session
  starts with what the last one left.
- *A press and its release under different meanings*: shift, the quick menu,
  the event target or the keyboard change while a button or key is held.
- *Partial failure*: any of five services may fail to start or fail later, in
  any order, and one integer decides whether the session goes on.
- *Time*: timeouts seen only when somebody looks; a clock that can be set back;
  retries by clients in the second they expire.
- *Numbers*: a touch id of eight bits that skips zero; means that divide
  towards zero; scales whose end is one more than a byte holds.

- *A stream read in fields*: which field follows which depends on the version,
  on choices made earlier and on answers of the server; a byte too many or too
  few is never made good.
- *Things on the card*: the configuration is written on the way out only, and
  the power can be cut at any time.

For each component the properties that make it correct are listed with its
module below. `PROJECT.json` lists the hazards, each at its line, with the
properties that watch it.

### How the modules fit together

    WorkQueue <~~ Worker <-- KeyboardAnimation                     (run keyboard_animation)
    TapGesture <-- TouchScreen --> OnScreenKeyboard (INSTANCE)     (run touch)
    ClientRegistry <~~ DsuClients                                  (run dsu_clients)
    ByteStream <~~ RfbReader <-- VncClient                         (runs rfb, vnc_stall)
    Display <-- TopView                                            (run screens)
    EditMenu <-- ConfigMenu                                        (run config)
    PadScale <-- PadFeed                                           (run pad_feed)
    Session, KeyInput, AudioStream                                 (a run each)

`A <-- B`: B extends A. `A <~~ B`: B implements the abstract specification A,
which the run checks as a property. `AudioStream` and `VncClient` also extend
`Sums`, the sum of a list as a recursive function. An `MC` module holds what a cfg
cannot say; a `Proofs` module theorems: `QueueProofs` those about the worker and the
audio stream, `DsuProofs` those about clients and pads, `InputProofs` those about
buttons and the configuration, and `NumberLemmas` what they need of numbers. Beside some definitions stands another one,
marked "plausible bug": what a mistake in that code would look like. Nothing
uses it; put in the place of its neighbour it breaks the property it is there
for, which shows that the property can fail. Code of the size of a
few statements between two accesses to shared state is one step.

## Modules

### Worker.tla, WorkQueue.tla, KeyboardAnimation.tla, QueueProofs.tla - the worker thread

`WorkQueue` is what callers are promised: a bounded FIFO of jobs, run one at a
time in the order they were accepted; a call is refused only when the queue is
full. `Worker` is the code: every access to `worker_fn`, `worker_data`, the
semaphore, `p1` and `p2` is a step of its own, on either thread, beginning with
`worker_init()`, which creates the thread *before* it clears the ring. The job's
function and its data carry the same value, so a mix-up is seen.

`KeyboardAnimation` adds the job the ring is used for. `toggle_keyboard()` reads
`kb_y_pos` twice, in two steps, while the worker may be moving it; its job goes
from one end to the other in `Steps` steps. A refused job is dropped, as in the
code, which does not look at the answer of `start_worker()`. What the code
compares is `kb_y_pos < 240` (hidden); the model counts in steps.

- `RestsAsAsked`: when nothing is pending the keyboard is where the last
  *accepted* toggle sent it, whatever was still moving when it was looked at.
- `ImplementsQueue`: under the mapping `Pending` (the held slots in order) and
  `Running`, the ring implements `WorkQueue`'s `ASpec`, with its fairness: an
  accepted job is run.

*Run* `keyboard_animation`: three slots, semaphore ceiling 3, two steps, the four
jobs an animation can be (98,579 states). Three slots are the least that tell
"next", "previous" and "same" apart, and positions wrap without end; two steps
have a place that is neither end. *Fairness*: weak fairness of the worker, and of
the main thread within a call: `start_worker()` never blocks, the kernel
schedules both, and every job returns.

### TapGesture.tla, OnScreenKeyboard.tla, TouchScreen.tla, TapGestureProofs.tla - the touch screen

`TapGesture`: `TapProcessing(ev, elapsed)` is one call of
`uib_handle_tap_processing()`: first the made-up click (`status2`), then the
timeout, then the state machine, with the code's `goto restart` folded into
`After`. A turn is tap, touch, keys, as in `main()`'s loop. `timer` is what is left
of `timeout`. The states of locked drags are unreachable
(`mainMenu_locked_drags` is 0 and never set).

`OnScreenKeyboard`: one action per way through `uib_handle_event()`. `out` is the
events the last call pushed, `down` what a receiver of all events takes for
pressed.

`TouchScreen` puts the one in front of the other: a touch that begins on the
pad, or while the keyboard is hidden, is the gesture's to its end; any other is the
keyboard's, and the gesture sees only the clock. The keyboard may be shown or
hidden at the end of any turn, also under the finger.

- `ButtonFollows`: a drag holds the button throughout, and at rest it is up: the
  clicks made up after a multiple tap never reach into the next gesture.
- `ClickPerTap`: as many presses as taps, whenever the gesture is at rest. `owed`
  counts taps (releases in time) less presses.
- `TapsAreClicked`: every tap is clicked in the end while tap handling is on.
- `KeysBalanced`: what is pressed for the receiver is what the keyboard shows:
  the sticky keys that are on, and the touched key by the symbol it was pressed
  with. The code chooses the symbol of a release anew, so this is a claim about
  the order in which it clears the modifiers.
- `ModifiersOutlastKey`: the key is released before its modifiers.
- `TouchIsWhole`: a touch belongs to the keyboard or the pad from beginning to
  end, also when the keyboard is hidden in between, and both modules agree on
  whose it is.

*Run* `touch`: timeouts of 8 and 4 ticks, up to 9 ticks between looks at the clock,
so that a timeout may fall on any of several turns or between two; tap handling
switched at any turn; one key of each kind and four sticky keys, CAPS among them
(205,152 states). *Fairness*: the loop turns; the user need do nothing.

### KeyInput.tla, InputProofs.tla - buttons become keys

Buttons through the keymap (`Keymap`, with `readkeymaps()`' validation), shift
and the quick menu (`Meaning`), to commands and symbols (`Obey`), to the server
events go to; `checkKeyRepeat()` as the code's three-state machine. An event is
handled when it is made: the queue between is in order and drained every turn.
`by` remembers what each press sent.

- `RepeatsHeldButton`: only a held button repeats, across menus and sessions.
- `HeldStaysDown`: while a session is connected the repeat sends no releases.
- `KeysReleased`: a key stays pressed at a server after its button's release
  only if the menu, the switch for keys, shift or the target changed meanwhile.
  The code does leave keys pressed in these cases; the property says that there
  are no others.
- `ShiftReleased`: shift is never stuck during a session, although the menu
  swallows releases; for keymaps in which no button means the quick menu in the
  shifted layer (see Proofs).

*Run* `keys`: four buttons, the least that has a letter, a key that is the same
in both layers, a shift button that the file names in one layer only, and a menu
button that means "disconnect" when shifted.

### Session.tla, SessionProofs.tla - the session loop

`main()`'s loop, one action per service at start, one per stage of a turn, one per
command that the session's variables depend on.

- `ActiveCounts`: `active` is the number of services that run.
- `NoNullTarget`: no event goes through a NULL client.
- `TargetInStep`: what the loop remembers of the event target, and what the
  servers were told about the cursor, is what the configuration says, unless the
  next turn looks again.
- `NothingLeftAsks`: when nothing runs any more the user is asked.

*Run* `session` has the Cemuhook server start successfully or not be wanted, and is
otherwise complete: its state space is finite without bounds. *Run* `session_dsu`
lets the server fail to start (`DsuMayFail`) and shows a finding: `ActiveCounts` is
checked, and true, only where it cannot. *Fairness*: the start and the
loop go on, and the events of one turn come to an end (`NoMoreEvents` is under
weak fairness with the rest of the loop).

### DsuClients.tla, ClientRegistry.tla, DsuProofs.tla - the Cemuhook server's clients

`ClientRegistry` is the promise: registered at the address last asked from,
forgotten only after more than the timeout, sent only what differs. `DsuClients`
is the heap: nodes with `prev` and `next`, allocated from and returned to a pool
of addresses, and the sending loop with its pointer `c`, one node per step.

- `ListOK`: read forwards the list ends and passes every live node, read
  backwards it is the same list, no client twice, `c` never dangling.
- `LoopCovers`: what lies behind the loop is alive and has the packet: unlinking
  skips no neighbour.
- `ImplementsRegistry`: the refinement, under the map from nodes to clients.
- `SilentForgotten`: a silent client is freed in the end.

*Run* `dsu_clients`: three clients (a node with two neighbours), two addresses, a
timeout of one second, heap addresses reused; time is told apart up to one second
past the timeout, which is all the code tells apart. The clock goes forward only:
after `time()` was set back the unsigned difference at dsu-server.c:560 is huge and
every client is forgotten, which is not modelled. *Fairness*: the loop goes on;
packets are due again and again and seconds pass (strong fairness, because the arrival of requests may disable
neither for ever but the loop does for a while).

### PadFeed.tla, PadScale.tla, DsuProofs.tla - sampling and scaling

`PadFeed` is the part that `dsu_server_update()` and `vjoy_udp_client_update()`
share: gather buttons, sum an axis, count; when the interval has passed make a
packet with the mean, and the Cemuhook touch id. `PadScale` is
the two transforms of a stick, with C's integer conversions: the remainder of a
signed by an unsigned number, and (in `PadFeed`) division towards zero.

- `NoPressLost`: however short, a press is in the next packet.
- `SameTouchSameId`, `NewTouchNewId`: ids of touches, also where they wrap.
- `StickBetween`: the packet's stick lies between what its extreme readings alone
  would give: mean and scale keep the order.
- `ScalesRight`: for every reading, the stick's byte fits and is 128 exactly in
  the dead zone; the vJoy axis is in the range vJoy knows but for the lower end of
  the stick, where and only where it is 0 (see Findings), never moves back and
  does not jump at the edge of the dead zone.

*Run* `pad_feed`: two frame times, one below and one above the interval, and the
clock set back once (`MaxSetbacks`): the unsigned difference is then huge and a
packet is made early. Ids up to 2 (`IdMax`) wrap in a few touches; the code's u8 is
the same with 255. Readings of the axis are three, on both sides, in the dead zone
and past the maximum; `ScalesRight` goes through all readings up to 170 with the
program's dead zone (20) and maximum (150).

### AudioStream.tla, Sums.tla, QueueProofs.tla - the stream of music

libcurl, its callback, `run_stream()` and the DSP. A piece received is a number of
samples; the decoder's answers are play, need more, or refuse. `curl_easy_pause()`
and `curl_multi_perform()` hand over several pieces before they return. When the
decoder makes several buffers of one piece (streamclient.c:139-151) they are one
buffer here.

- `DspOwnsItsBuffers`: no buffer is freed that the DSP has still to play.
- `QueueBounded`: at most one piece above the limit.
- `PausedGoesOn`: a transfer that was paused goes on or is stopped, though nothing
  wakes the program when the DSP has played, and though `curl_paused` survives
  from one stream to the next.

*Run* `audio`: pieces of 1 and 3 samples against a limit of 4; up to two pieces
received and not handed over (`MaxHeld`). *Fairness*: `run_stream()` is called every
turn, and the DSP plays.

### ByteStream.tla, RfbReader.tla, VncClient.tla, Sums.tla, VncClientProofs.tla - a VNC connection

`ByteStream` is what the protocol's code counts on: the bytes of the connection,
each once and in order, as many as asked for, or a failure that is final.
`RfbReader` is `ReadFromRFBServer()` (rfb/sockets.c 101-231): the answer from
`client->buf`, the filling of the buffer with whatever has arrived, the way around it
for long reads, and the end of the connection; each `read()` is a step. A byte *is*
its position in the stream, so that one lost, doubled or out of order is seen.

`VncClient` reads the protocol through it: `InitialiseRFBConnection()` for servers
of 3.3, 3.7 and 3.8 with the security types None and VNC,
`rfbInitConnection()`, `WaitForMessage()` as `main()` uses it, and
`HandleRFBServerMessage()` for raw, copied, cursor, size, position and
last rectangles, the bell, cut text, sizes, colour maps, and a type it does not know.
Each step takes the answer of one read and asks for the next. After
SetColourMapEntries the code answers TRUE with the body unread, and takes what it
finds there for the next message: the model follows it to the state "astray".
`MallocFrameBuffer()` is `resize()` of main.c (`Allocated`): the types UltraVNC and
TightVNC in the server's list say whether it supports SetScale (`scales`), and if it
does, the surface has no more than 1024 lines (`MaxSurface`) while `client->height`
stays. The server beside it is
external: it sends what RFB says it may, in the form the client reads, and goes on
with its own size after a request to scale. (The bottom screen's client has
`uibvnc_resize()` instead, which never cuts: it behaves like one whose server
cannot scale.) The network
delivers in pieces cut anywhere and may break anywhere; every allocation may
fail, and the user may have no password.

- `ImplementsStream`: the reader is the byte stream.
- `InSync`: the client expects a message exactly where one begins, and every field
  of the handshake is the one it takes it for. One message breaks this, the colour
  map: what the client reads "astray" is its body and nothing else.
- `KeepsAsking`: a server that has answered all requests has an update on its way:
  there is never a client that waits for a server that waits to be asked.
- `PaintsInside`: lines go only into a frame buffer that is high enough, also
  when its size changes in the middle of an update. The exception is named: the
  surface was cut for a server that can scale, and the rectangle is no higher than
  the height the server named.
- `ReadsEnd`: handshake and messages come to an end; nobody waits for everybody. It
  excepts what the client reads "astray" and after a type it does not know.

*Run* `rfb`: every field of the handshake, a line and a text are a byte each, the
buffer has 2 bytes, so that a field lies across its end and a read is longer
than it; heights 1 and 2, against a largest surface of 1 line; texts of 3 and of 4
bytes, one too long; lists of no type, of one the client does not support, of one
it does, and of several, by which the server can scale or cannot. After a handshake
of 3.8 the server sends up to two messages (`MaxMessages`): the second meets everything the first can leave behind
(requests, sizes, a full buffer), and nothing after the handshake depends on its
version (912,000 states, some two minutes). The run stops where the
connection ends (`CHECK_DEADLOCK FALSE`). *Run* `vnc_stall` shows a finding.
*Fairness*: the loop of `main()` goes round, the network delivers what was sent, a
server that owes an answer in the handshake gives it, and closes when it has
refused. It need not send anything else.

### Display.tla, TopView.tla, TopViewProofs.tla - the screens

`Display`: the video thread (SDL_n3dsvideo.c 516-574) with `uib_repaint()`
called back, the main thread that flips, sets modes and quits (279-473, 670-693),
and the worker thread that, like the main thread, changes what the bottom screen
shows and then signals `repaintRequired`. The test of that event resets it, and
`uib_repaint()` clears it again in a second step; both are steps here. The join is
a step that waits for the thread's end. `TopView` adds `resize()` (main.c 205-309),
which sets the mode when the server's screen changes, with scaling by server or
client, and the part of `handleSDLEvent()` that scrolls after the pointer
(583-590, 653-676). One dimension is modelled; the other decides about scale and scrollbar.

- `DrawsAlive`: while the thread is in a frame its texture and targets are there,
  and whenever `main()` may flip there are a buffer and a thread.
- `ChangeIsShown`: every change of the bottom screen is on it in the end, although
  a request that falls between the test and the clearing of the event is swallowed.
- `ModeIsSet`: setting a mode and quitting end: the join does not wait for a
  thread that waits for a flip.
- `PointerInView`: the view stays on the surface and the pointer in the view,
  through changes of size, scale and scaling and a pointer that the other screen
  has put anywhere: at once when the size changes and the client does not scale,
  else with the next motion.

*Run* `screens`: two changes (so that one may be requested while another is being
painted), two modes (so that a mode meets what the last has left), a top screen
of 3 by 2 with a scrollbar of 1, servers' screens of 3 and 6 against a largest
surface of 4, so that there are pictures that fit, that scroll and that are
scaled (484,000 states). It ends after `SDL_Quit()` and after a mode that could
not be set (`CHECK_DEADLOCK FALSE`). *Fairness*: both threads go on; the GPU is
not withheld for ever (strong fairness of `BeginFrame`), and `main()` flips again
and again (strong, because it may be setting a mode each time one looks).

### EditMenu.tla, ConfigMenu.tla, InputProofs.tla - the configuration

`EditMenu` is the form: its fields in the order of the code's enumeration, which of
them the switches hide (main.c 1030-1216), the rules by which the cursor steps over
them (1262-1301), and the name that follows the address (946-963). `ConfigMenu` is the
list, the session, the file: `readconfig()` tells old versions by their length,
takes over what they have and deletes the keymap; `saveconfig()` runs only in
`safeexit()`. The power may be cut at any point.

- `CursorIsShown`: two lists of rules written apart agree: the cursor is on a field
  that is drawn, and up and down go to the nearest one that is.
- `NameFollows`: a name is the user's or follows the address, however edits of
  name, host, port and user, copies and upgrades mix. `typed` remembers which.
- `KeymapKept`: once this version has written its file no start deletes a keymap.

*Run* `config`: two entries, one in use with five settings of the switches or with
a file of version 1.0, or no file; up to three changes by the user
(`MaxChanges`), moves without bound (1.26 million states). Three changes are a
switch or an address, the name, and one more, in any order. Safety only: the
user owes nothing.

## Findings

Two runs expect a violation, each of one statement of the repository:

- `session_dsu`: a Cemuhook server that could not start is taken off `active`, on
  which it never was; with one other service the session ends although that
  service runs ("Nothing to do", main.c:1880 and 1969).
- `vnc_stall`: `WaitForMessage()` "blocks until a message is received"
  (rfbclient.h:741-743), but it asks the socket only. When two messages arrive
  together the first read takes both into `client->buf`, and the second is not
  handled before the server sends something more (sockets.c:918, main.c:1980).

Read in the code while modelling it, without a run of their own:

- "must be called once per frame to expire mouse button presses" (main.c:1927) is
  called only while tap handling is on; switching it off during a gesture leaves
  the button pressed. `TapsAreClicked` excepts this.
- "Press ... to stop" (main.c:1901), but releasing a button ends the session, too,
  when shift was pressed after it (main.c:745).
- "only slot 0 supported" (dsu-server.c:283), but slots 1 to 3 asked for by number
  are registered.
- Intervals documented as ms are compared with microseconds (dsu-server.h:48,
  dsu-server.c:425, vjoy-udp-feeder-client.c:242).
- "quantize down" (dsu-server.c:352) does not quantize negative readings, because
  the quantum is unsigned.
- "1 second max delay" (streamclient.c:67) is exceeded by up to one piece, which is
  why `QueueBounded` says so.
- After COM_TOPSCALING `resize()` finds in `client->width` the pitch of the last
  surface, not the width of the server's screen (main.c:295, 748): an 800 pixel
  screen becomes a surface of 1024.
- `resize()` centres on the pointer without dividing it by `scaling_factor_top`
  (main.c:279), while the motion does; `PointerInView` waits for a motion then.
- An upgrade is repeated until the first regular exit, and with it the deletion of
  the keymap (main.c:1516): a power cut before that costs a keymap made meanwhile.
- Paste takes the entry as it is when pasted, not as it was when copied
  (main.c:1621).
- `uib_update()` compares a height with `updateRect.w` (uibottom.c:1267).
- `SetColourMapEntries` is answered without reading the message's body
  (rfbproto.c:1701-1728), which is then taken for the next message. `InSync` excepts
  this message alone. After a type it does not know the client waits for 256 bytes
  nobody promised before it gives up (rfbproto.c:2335). `ReadsEnd` excepts both.
- With a server that can scale `resize()` cuts the surface to 1024 lines and columns
  (main.c:224-234) and leaves `client->height` as the server named it, against which
  rectangles are compared (rfbproto.c:1857-1864). Until the server has acted on
  the scale, or if it never does, lines below the 1024th are painted past the
  surface. `PaintsInside` excepts exactly this.
- Axes are "in range 0x0001 - 0x8000" (vjoy-udp-feeder-client.c:19), but a stick at
  its lower end, or its button, gives 0 (156-158 and 252-256). `ScalesRight` says
  that no other reading of a stick does.
- The program ends by `return 1` from `main()` (main.c:1793, 2042). `exit()` calls the
  last handler registered first, so that `uib_shutdown()` (registered at
  uibottom.c:850) takes back the callback, closes the repaint event and frees the
  menu's image before `safeexit()` (main.c:1760) calls `SDL_Quit()`, which joins the
  video thread. The thread may be between its test of the callback and the call
  (SDL_n3dsvideo.c:554). `Display` follows the other way out, by `safeexit()` itself.

## Proofs

Eight modules hold theorems. Each names the assumptions it uses; none uses the
bounds of a run.

`NumberLemmas` holds what several proofs need of numbers: that a set of natural
numbers which is not empty has a least one, and induction (`SetInduction`), stated
of sets, because the library's theorems on induction are about operators, which
no installed prover can instantiate; both follow from its theorems on
well-founded orderings. With them, what the recursive function in `Sums` is
(`SumsExist`, `SumsAreOne`, `SumIs`), how a sum grows, splits and depends on its
terms (`SumNext`, `SumSplit`, `SumSame`, `SumOrder`), and the few facts about
quotients and products that the provers do not find.

`QueueProofs` proves of the worker, for every set of jobs, every number of slots, every
ceiling of the semaphore that is no less than it (`WorkerAssumption`), and every
length of the animation:

- `Inductive`: `Spec => []IndInv`. The safety properties are not inductive by
  themselves: that the next slot is free or full says nothing about the others.
  `IndInv` says of every slot what it holds, by its distance from the slot the
  worker is at: the first `Held` hold whole jobs, the rest are NULL, except the one
  being filled. Its proof has one step per action; the lemmas `SuccSlot` and
  `AheadSlot` are the arithmetic of the ring.
- `WholeJobs`, `PostsCount`, `SlotsApart`: no call through NULL and no function with
  another's data; no post of the semaphore is dropped; the threads are never at
  the same slot while one fills it.
- `RingIsQueue`: the initial state maps to the queue's, and every step to a step
  of it or a stutter (the safety half of `ImplementsQueue`).
- `KeyboardRests`: `KSpec => []RestsAsAsked`. What has to be added is a chain: the
  last job of the ring goes where the last accepted toggle asked, the job in work
  is `step` steps on its way, and with none pending the keyboard has arrived.
- `AnimationsAreQueued`: the refinement again, for the composed system.

It proves of the audio stream, for any pieces, limit and decoder:

- `DspKeepsItsBuffers` and `AudioIsBounded` (`DspOwnsItsBuffers`, `QueueBounded`).
  `AudioInv` says that `queuedSamples` is the sum of the list, that the buffers which
  are done are at its head, and that the rest of it is, in order, what the DSP has
  still to play. The second part makes the code right that stops cleaning up at
  the first buffer that is not done.

`DsuProofs` proves all safety of the client list, for any clients,
addresses, packets and timeout, if there are at least as many heap nodes as
clients (`malloc()` succeeds) and NULL is none of the values told from it:

- The links alone are not inductive: nothing in "the next node's `prev` is this
  node" excludes a ring beside the list. `DsuInv` therefore says that there is
  a sequence `s` of nodes, each once, that the heap spells out (`Listing`), and
  that the loop stands at some place `k` of it with everybody before `k` served
  (`Standing`). Appending extends `s`; removing the `k`-th node closes the gap
  and leaves the loop at place `k`.
- `ListIsList` and `NobodyIsSkipped`: `ListOK` and `LoopCovers`. They speak of
  `Walk`, a recursive function; that it visits `s` is an induction.
- `ListImplementsRegistry`: `Spec => ImplementsRegistry`, the whole refinement
  (the registry has no fairness).

`TapGestureProofs`, for every length of the two timeouts and of the time
between two looks at the clock, with tap handling switched at will or not, and
any set of keys in front of the pad:

- `GestureInv` gives, state by state, the button, the taps not yet clicked, and how
  far the next gesture can have come while the clicks of the last are made up. Its
  last part is what the other two need: the click is over before the second tap
  of the next gesture, because both are steps of one call.
- `TouchStepIsGesture`: seen through the gesture's variables a step of the touch
  screen is one of the gesture; and `FingerStep`: the two modules agree on where the
  finger is. From these `TouchFollowsGesture`, `TouchesAndClicksAgree` and
  `TouchKeepsOwner` (`ButtonFollows`, `ClickPerTap`, `TouchIsWhole`).
- `TouchBalancesKeys` and `TouchModifiersOutlast` (`KeysBalanced`,
  `ModifiersOutlastKey`), for any keys and symbols. `KeyInv` says what a
  receiver of all events takes for pressed: the sticky keys that are on and the
  touched key, by its symbol. What a release sends is a sequence in which every
  modifier that was on occurs, once and behind the key (`ReleasedAll`,
  `ReleaseIs`).

`SessionProofs`: `TargetIsThere` and `TargetFollows` hold without an assumption.
`Typed` and `ActiveIsServices` assume `~DsuMayFail`: run `session_dsu` shows that
the count is wrong otherwise. The invariants add what each stage of `main()`'s
start and loop has already counted.

`InputProofs`, for any buttons, targets and keymaps that `readkeymaps()` can
return: `KeyInv` relates what each press sent (`by`) to what the repeat and the
servers hold. From it `RepeatIsHeld`, and the action properties
`RepeatNeverReleases` and `ReleaseReaches`. `ShiftEnds` assumes that no button means
the quick menu in the shifted layer. The code does not enforce this; with such a
keymap the menu can be opened while shift is held and then swallows its release.

And of the configuration, for any number of entries and whatever is typed, if
the names in the files it may find first are as they should be (this is no loss:
`typed` is history, and says of a name found in a file what makes it so):

- `NamesAreRight` and `KeymapStays` (`NameFollows`, `KeymapKept`). `MenuInv`: every
  entry in the list, on the card and in the form has a name that is the user's or
  its address; and a file that this version has written says so.
- `CursorStaysShown` (`CursorIsShown`), for every setting of the switches. Fields are
  told apart by their places in the form; `PlaceShown` says by numbers and switches
  what a page draws, `Skipped` and `SkippedUp` how far the rules for the cursor go,
  and `DownIsAfter` and `UpIsBefore` that they end where something is drawn and
  pass nothing that is. `FormInv` keeps the cursor at such a field: no switch hides
  itself (`PressKeepsShown`).

`DsuProofs` also, for any buttons, interval, clock and width of the ids:
`PressesAreShown`, and the action properties `TouchKeepsId` and `NewTouchIsNew`.
`FeedInv` says that what is owed has been gathered, and that the present touch
and the last packet have the id that `lastid` remembers. For any readings, dead
zone and maximum, `SticksAreBetween` and `ScalesAreRight` (`StickBetween`,
`ScalesRight`): `MeanInv` says that a sum of so many readings lies between that
many times the lowest and the highest, so that the mean, divided towards zero,
lies between them, and that the packet shows one such value; the scales keep the
order. They assume what the callers pass: no quantization (`NotQuantized`;
dsu-server.c 74 and 78), and a dead zone above 0 a maximum of at most 128 times
the dead zone, and a range without it of no more than half the axis, so that only
its end is scaled to 0 (`Coefficients`; dsu-server.c 72-77, and the same values for
vJoy).

`VncClientProofs`, for a buffer of any size, any reads, any pieces and any number of
messages. First of `ReaderSpec`, the reader with a caller that asks for anything:
`ReaderInv` says that the buffered cells hold the bytes just before `taken`, that
what the caller has so far are the bytes from `Consumed` on, and how much room
there is at each place in the code (that the way around the buffer is taken with
the buffer empty, that a fill starts at its beginning). `ReaderIsRight` proves it,
`ReaderIsStream` the refinement of `ByteStream`. Then of the protocol: `ClientInv` says
that the messages on the wire are well formed, that the first of them is of the kind
the client's place in the code takes it for (`Places`), that the frame buffer has
what `resize()` allocates for the height the client believes in (`Sizes`), and, at
every place in a message and not only between two, that a request is out or an update on the wire (`Asks`): while an
update is being read it is the one, and it leaves the wire in the step that asks anew.
`ClientStep` shows that every step of client, server and network preserves it and is
a step of the reader with such a caller or leaves the reader alone. From it follow
`ClientReadsStream` (`Spec => ImplementsStream`), `AsksAgain` (`KeepsAsking`) and
`PaintsInBuffer` (`PaintsInside`). `StaysInSync` (`InSync`) needs `SyncInv` on top, three
statements about positions in the stream: `Counts`, that the network brings no
more bytes than were sent; `Standing`, that what is being read begins as far
behind the message's first byte as the parts before it are long, which for an
update are sums over its rectangles; and `Dialogue`, for each place in the
handshake, what is on the wire, what the server waits for, and what the client
wrote that the server has not read.

`TopViewProofs`: `ThreadDrawsAlive`, for any number of modes and changes, from
`DisplayInv`, which says what has been taken away at each step of the main thread
and that there is no thread at exactly these; `PointerStaysInView`, for screens,
scrollbars, pitches and server sizes of any measure, from `ViewInv`, which needs
the bounds of the sizes and that the surface is never wider than what
`updateRect` stands for; and `ViewIsDisplay`: every behaviour of `TopView` is one of
`Display`, so that what is proved of the one holds of the other.

Every invariant and action property that the passing runs check is proved, under
the assumptions named above. Only model-checked is liveness, which is beyond the
prover: `TapsAreClicked`, `SilentForgotten`, `PausedGoesOn`, `NothingLeftAsks`,
`ReadsEnd`, `ChangeIsShown`, `ModeIsSet` and the fairness half of `ImplementsQueue`.

## What is not modelled, and why

- What is drawn: fonts, the log's text, the layout of the menu, sprites and their
  textures. `makeTexture()` may renew a texture while the video thread draws it
  (uibottom.c:351); one frame shows it.
- The compressed encodings of `src/rfb` (tight, zlib, ultra, zrle, hextile, ...),
  its TLS, SASL, MS logon and ARD, text chat, the recorder: third-party
  computations on data. What they do to the state of the connection is what the
  raw encoding and VNC authentication do: read, and fail or go on.
- SDL outside of the 3DS video driver: vendored. Events come in order; events
  lost because SDL's queue is full are not modelled.
- The scrolling of the bottom screen by its edges (floating point, by synthetic
  motion events) and `uibvnc_resize()`. In `resize()`, the failures of
  `SendScaleSetting()` and `SDL_CreateRGBSurface()`.
- The handlers of `exit()` when `main()` returns: `Display` ends by a call of
  `safeexit()`.
- A server that acts on SetScale, with the change of size that answers it; and the
  rectangle by which a server names the messages it supports, which may say that
  it can scale (rfbproto.c:1798-1838), as the types of security do.
- The state after `SDL_SetVideoMode()` failed: `Display` follows it to "failed" and
  stops there.
- Text entry on the console's own keyboard, fields of the form that nothing
  depends on, the contents of keymap files beyond their shift layers. Mouse
  buttons other than the gesture's.
- A file that is cut short by a crash in the middle of `fwrite()`: the card's file
  system decides what is left.
- Checksums, packet layout, answers to version and port requests of the Cemuhook
  protocol: no state.
- Locked drags of the gesture: unreachable.
- POV hats and the conversion of motion to floating point. Output for debugging.

The implementation counted with the program includes LIBSDL and the codecs of
libvncclient, which are most of its lines and have no part in the above; the share
of mapped lines is therefore small, and would not become large by modelling the
rest of the program's own code.

## Plan

Done, the most important first: the worker's ring and its proof; the gesture; the
session; the client list; sampling; audio; keyboard and keys; then the animation,
the touch screen as a whole, the reader and the protocol, the display, the view
of the top screen, and the configuration.

What could be added:

1. The bottom screen's view and `uibvnc_resize()`, with motion events in fixed
   point, composed with `Session` for who gets them.
2. The way out by `return 1`: `SDL_RequestCall()`, and `uib_shutdown()` before
   `SDL_Quit()` joins the video thread (see Findings).
3. Two clients in `VncClient` with one loop: `main()` waits 10 ms for each in turn.
4. To prove: that `Session` implements an abstract session (started, running,
   asking), and the steps that liveness rests on: what each of the fair
   actions makes smaller.
