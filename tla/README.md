# TLA+ verification of the OV7670 camera system

This directory models the control logic of the FPGA camera system in this
repository (Tang Nano 9K, OV7670 camera, PSRAM frame buffer, LCD, Modbus/SERV
control plane, Python host, and the tools that collect samples and train a
detector for the board) and checks it with TLC; for eight parts of it the main
results are also proved with TLAPS. File paths below are relative to the
repository root; the RTL lives in `src/`, the bootloader in `serv_soc/`, the
overlays in `demo_mcu_apps/` and the host in `webapp/`.

How to run, from this directory:

    tlc -workers 2 -config FrameControl.cfg FrameControl.tla
    tlapm FrameBuffer_proofs.tla

`PROJECT.json` names every run, the mutant that shows each property is not idle,
the source lines behind every definition, the findings and the hazards.

## 1. The system

Pixels flow camera -> capture -> frame buffer in PSRAM -> resize -> LCD, on the
memory's clock (67.5 MHz). Control runs beside them on a 27 MHz Wishbone bus
with two masters, the Modbus slave a PC talks to and the SERV RISC-V core, which
has a clock of its own (about 30 MHz).

| Component | State | Operations | Talks to | What makes it correct |
|---|---|---|---|---|
| **Memory bus arbiter** `arbiter.v` | a state bit per tree node, registered grants | one clock edge | four lanes: table lock of the upload and download side, write bursts, read bursts | one grant at a time through every hand-over; no grant withdrawn; bounded waiting |
| **Frame buffer table** `BufferController.sv` | state of 3 buffers, read/write pointers, two small machines, one shared answer | find / release a buffer, per side | control machines | the reader and the writer never share a buffer; none is lost; the newest frame is shown |
| **Upload and download control** `video_controller.sv` | two 9-state machines, lock requests, base addresses | wait for memory, lock, find, process, lock, release | arbiter, table, uploader, downloader | the lock protects the table through its own latency |
| **Frame uploader** `fsms/FrameUploader.sv` | state, row/column counters, burst counter | take a command word, cache a row, write it in bursts | camera command link, arbiter, memory | commands under the grant and far enough apart; whole frames |
| **Frame downloader, row cache, vertical scaler** `fsms/FrameDownloader.sv`, `DownloadRowCache.sv`, `resize/PositionScaler_vert.sv` | two machines, two row banks, DDA residue | fetch a row in bursts, drain a row into the display's queue | arbiter, memory, queue | a bank is not overwritten while drained; no read past the frame |
| **Camera capture** `cam_pixel_processor.sv`, `VGA_timing.v` | two row buffers, frame/row tokens | collect a row, hand it over | camera pins, uploader | rows of one frame stay together when the buffer is late |
| **Display path** `lcd_controller.sv`, `resize/HorizontalResizer.sv`, OSD | queue, scan-out position | resize, resynchronise on tokens, scan out | downloader, panel | short or late rows do not shift the picture |
| **Frame grab** `psram_ch1.sv`, `modbus/wb_grab.sv` | grab engine, busy, stream pointer, toggles between clocks | arm, write, read, stream with prefetch | capture, PSRAM channel 1, bus | every request ends; the stream is one frame, in order |
| **Modbus slave** `modbus/modbus_rtu_slave.sv` | receive buffer, register walk, answer | receive, check, walk, answer | UART, bus | malformed frames do nothing; every valid request is answered once |
| **Register bus** `modbus/be_arbiter.v`, `modbus/modbus_cam_backend.sv`, `modbus/wb_interconnect.sv` | lock and owner | arbitrate, decode, answer | masters and slaves | an access is not disturbed; the host goes first; SERV is served |
| **SERV clock crossing** `serv/serv_wb_cdc.v` | two four-phase machines, synchronizers | request, answer, return to zero | SERV, bus | each access made once and answered with its own data |
| **System registers** `modbus/wb_sysregs.sv` | mailbox, heartbeat, reset pulse, counters | register reads and writes with side effects | host, SERV | a word is taken once; a reset leaves a usable state |
| **Camera registers and initialisation** `modbus/wb_sccb.sv`, `camera_control.v` | init position, bridge state | init sequence, re-init, register access | I2C core | init and access do not mix; errors are reported |
| **Watchdog** `watchdog.sv` | grace period, heartbeat monitors | supervise, pull reset | heartbeats | resets only a dead system |
| **Bootloader and overlays** `serv_soc/bootloader.S`, `demo_mcu_apps/` | registers, overlay RAM, calc's command and count | receive an image, run it, serve commands | mailbox, OSD | the image that runs is the one that was sent |
| **Host client** `webapp/modbus_client.py`, `webapp/osd_charset.py`, `scripts/serv_upload.py` | where a call is, words sent | `serv_boot_load`, `serv_calc`, resets, grab, overlay text, registers | Modbus, mailbox | calls finish, or say that they did not; results are their own |
| **Web application** `webapp/app.py`, `webapp/ov7670.py` | one client, one lock, progress of the grab | connect, settings, matrix, overlay, grab, cancel, upload, raw registers | browser threads, client | one request at a time on the line; a setting stays what was acknowledged; cancel hits its own grab; no connection is lost |
| **Text overlay** `modbus/wb_osd.sv` | cells, cursor, visibility | write, read, stream, clear | bus | text is where it was posted, whatever moved the cursor before |
| **Sample collector** `demo_mcu_apps/roi_collect/collect_samples.py` | list of samples, counts, a file | grab, label, undo, recapture, restart | client, file system, operator | list, counts and file are what the operator was told; a sample is one capture |
| **Face detector** `demo_mcu_apps/roi_tm/` (`tm_common.py`, `train_tm.py`, `roi_features.h`, `roi_tm.c`) | automata of the clauses, packed masks, the exported header | featurize, train, pack, export, vote | the file, the board | the board decides as the host does |

Beside these: Gowin's memory interface, FIFO and PLL, the OpenCores I2C core and
the SERV core (vendor or third-party parts, used as black boxes), debug pattern
generators, the other overlays and dataset tools, build scripts, CAD files, the
browser UI.

**Hard behaviours.** Registered grants that move one cycle after the state they
follow; a lock that spans machines on the same clock; two clocks with four-phase
handshakes and resets that reach one side only; slow slaves that work on the
bus's wires; a one-word mailbox polled from both ends through separate accesses;
host calls that stop half-way, with the device left wherever it was; requests that
are executed but not answered and sent again; browser threads that share one
connection, one cursor and one progress record; a file written again in place
under a program that can be killed. `hazards` in
`PROJECT.json` lists each at its line with the property that covers it, or why
none does yet.

## 2. The modules

    FrameBuffer            video_controller with its three engines and the memory
      +- FrameControl      the two control machines and the lock
      |    +- BufferController    the table            (implements FrameRing)
      |    +- Arbiter             the tree of nodes
      +- FrameUploader, FrameDownloader, DownloadRowCache
    BusArbitration         Arbiter with free requesters
    ServBus                register bus, two masters, slow and fast registers, reset
      +- BeArbiter, ServCdc
    MCOverlayUpload -> OverlayUpload   the host's calls
      +- Bootloader        programs of the core
           +- Mailbox      the registers between them

    MCWebApp -> WebApp     the threads of app.py, the lock, the connection
      +- ModbusClient      calls of the client as programs of line operations
           +- Device       the board behind the line
                +- Ov7670  camera registers and settings
    MCRoiPipeline -> RoiPipeline   from samples to the detector on the board
      +- SampleCollector   the collector over ModbusClient, with its file
      +- TsetlinMachine    training, packing, export, vote
           +- RoiFeatures  features, on the host and on the board

    BusArbitration_proofs, ServBus_proofs, OverlayUpload_proofs
    FrameBuffer_proofs           FrameControl first, then the engines, which use what is proved of it
    WebKnown_proofs -> WebApp_proofs -> ModbusClient_proofs   what users know, the requests, the board
    RoiPipeline_proofs -> ModbusClient_proofs

**Synchronous hardware (Arbiter ... FrameBuffer).** A step is one edge of the
memory clock: every register gets its next value from the values before the
edge, as non-blocking assignments do. Each RTL register is a variable of the
same name (with a prefix `fu_`, `fd_`, `dc_` in the composition); each state of a
`case` is one action. Components below the top are operators over their
registers, `Clock` or `Tick`, whose arguments are the wires from outside, and
the composed modules conjoin them, which is what the netlist does. Grants and
requests are sets of lanes. Pixels are only counted; a frame address is
<<buffer, burst>> (or <<buffer, row, burst>>).

What is outside each model is free:

* `BusArbitration`: requests rise at any time and fall some time after the grant;
* `FrameControl`: the ends of frames, the data lanes' requests and the memory's
  `init_done` are arbitrary in every cycle, which includes every behaviour the
  real engines have;
* `FrameBuffer`: the camera offers an endless well-formed stream of command words,
  each at some time; the display's queue is full or not; the memory answers a
  read RD_LATENCY cycles after the command. The memory starts with its frames
  counted as complete, as the display shows whatever is in it before the first
  frame.

**FrameRing** is the abstract specification: `writing`, `reading`, `newest`, with
four actions. `FrameControl!ImplementsRing` gives the refinement mapping: a
buffer is held while its side's table machine is in its SELECT state.

**Two clocks (ServCdc, BeArbiter, ServBus).** A step is a tick of one clock. The
synchronizers are the two-stage shift registers of the RTL; request fields cross
unsynchronized, so when they are sampled without a valid request the model
samples anything. The ratio of the clocks (27 to about 30 MHz) is abstracted to
"one or two ticks of `mcu_clk` between two of `sys_clk`". Data is represented by
the address it was read from, so an answer that belongs to another access shows.
The register 0xE2 restarts the core through the same pulse synchronizer and hold
counter as in `camera_control.v`; reset of the core clears only the `mcu_clk`
half of the crossing, as in the code.

**Host and core (Mailbox, Bootloader, OverlayUpload).** A step is one register
access of the host or the core, or a jump of the program; `ServBus` is the
justification for accesses being atomic. `hpc` is the host's place in
`serv_boot_load`, `serv_calc` or `serv_mcu_reset`, `pc` the label of the bootloader or
the place in `calc.c`. Words are <<image or command, index>>, so a shifted image
shows. Calls can be aborted at any access (`Abort`), and time out where the code
has a deadline, but only when the core is not about to do what is waited for
(two seconds are a long time for a few hundred instructions). A lost answer makes the
host repeat the access (`retries`, `modbus_client.py:128`; `Line`): any access, any number of times,
with the core running on in between. Most repeats change nothing; a word the core had
taken already is taken twice, and a result cell read again is skipped. `repeats` counts those of the present call. `fit` says
whether the call began with the mailbox at rest and the core where the call needs it; others begin in any
settled state and are counted in `slips`. The properties speak of calls that are `Plain`, with `fit` and without
`repeats`, whatever the calls before them were.

**Board and line (Device, ModbusClient).** The board is one record and a Modbus
request a function on it, `Execute`: so a request can be executed twice (its answer
was lost and pymodbus sent it again) or executed and not answered. What the
board does by itself is `BoardSteps`: a capture starts and ends, an
initialisation ends and restores every register, the core takes a mailbox word.
A register is the set of its bits, so masks are sets; a captured pixel is
<<number of the capture, position>>, so a frame that mixes two captures or skips
a pixel shows, and `mem` keeps the old capture in its second half while the new
one is being written. `ServePixels` is the stream of `wb_grab.sv` with the burst it
has fetched; `ArmGrab` and `ReadBurst` are lost when the engine works or the
memory is not calibrated, with busy left set, as in `psram_ch1.sv`. A call of the
client is the sequence of its operations (`grab_frame`, `osd_write_text`, ...); one
that depends on an earlier answer is filled in from the answers so far.

**Web application (WebApp).** A thread is a record: the request, the place in it (`lock`,
`test`, `require`, `drop`, `close`, `clear`, `open`, `body`, `leave`, ...), the connection it took, the next
operation and the answers. One step is one operation on the line (`Answers`,
`TimesOut`, `Rejected`, `Deadline`, `Loses`), one look at the cancel flag, or one
access to the shared connection: `_require_client` tests it and returns it (`Test`, `_require_client`), `_classify` tests it,
closes it and forgets it (`Drop`, `Close`, `Clear`). `Fail` is
the end of the `with _lock` block by an exception: a grab has released the lock
when its handler goes through these three, all others hold it. What a grab then forgets can be another connection
than the one it closed, stored by a connect in the meantime, or the closed one that a request has opened again: it goes to `strays` if it is open or in use.
`handles` and `live` are open serial connections and those whose port has been
there since. `seen` is not in the program: it is what a user knows from the
answers, and what the settings and the overlay are compared with. What requests can
ask is `Typed`: the parameters as `app.py` reads them, without two raw accesses that the page does not make, a read of the pixel
stream (the board holds it back while its engine works) and a write of the grab register with anything but the client's requests and the write
to the memory.

**Samples and detector (SampleCollector, TsetlinMachine, RoiPipeline).** `pc` is the
place in the collector's main loop; a key is several steps (list, file, counts) and
`Kill`, like an exception, may come between any two. Rewriting the file is
opening, which empties it, then any number of blocks, then the rest. `kept` is
what the operator was told is kept and `asked` what it will be after the key.
Training is the real rule on real features: `featurize` and `roi_featurize` are
translated separately from Python and from C, `pack_literals`, `masks` and
`infer_packed` work on words, `export_header` makes the lists of `tm_model.h` and
`tm_votes` walks them. The random choices of the training are any choice: a set
of clauses with feedback and a member of `Forgets` as the literals that are forgotten.

## 3. The runs

| Run | Question | Bounds, and why they are enough |
|---|---|---|
| `bus_arbitration` | exclusion, no preemption, at most two idle cycles and four overtakings, no starvation | exactly the code's four lanes; the caps of the two history counters (6) are above what they reach |
| `frame_control` | lock, table, ring: no table collision, own answer, no tearing, no leak, the reader never searches, refinement of FrameRing | the code's 3 buffers and every interleaving of frame ends with free burst traffic; a start delay of 2 for the code's thousands, as only the comparison with its limit matters |
| `ring_writer` | the fast writer of README.md, 6 (**violated**) | as above |
| `frame_buffer` | commands under grant and TCMD apart, reads of complete frames, display buffer not written, both sides inside the frame, banks apart | BURST_CYCLES = 4 and TCMD = 10 are smaller than the code's (`burst_delay` gives 15 for a burst of 16, 19 for one of 32) with the burst over well before the next command may come; the theorems hold for all values; 4 camera rows on 3 display rows make the scaler skip (640x480 on 480x272 skips more often, with steps of one and two just the same); one burst per row |
| `frame_progress` | uploads and downloads complete for ever | 3 rows on 2, TCMD = 4: liveness needs the shape, not the timing |
| `serv_bus` | one access at a time, done once, own answer, host first, SERV served | two fast and one slow register: each kind of access against each; hold of 2 ticks, so that a reset may end while the old access drains |
| `serv_reset` | "one transaction completes before the next" (**violated**) | the code's hold of 16 ticks (counter to 15) |
| `overlay_upload` | installed is sent, resetting loads finish, calc answers its own command, loads run | one overlay of each kind, images of 2 and 3 words (so that one can be taken for a prefix of the other), commands of 2 words, 3 heartbeats; one mishap in the call under way and before it (`OneMishap`): a call made although the core is not ready, or a repeat with an effect. Repeats without one are not bounded |
| `overlay_parked` | loading "works regardless of what the MCU was running" (**violated**) | the same, with two calls made although the core is not ready; the load itself repeats nothing |
| `calc_beats` | a served command is not a timeout (**violated**) | the code's 256 heartbeats and 5-word commands; calls only when the core is ready, no answer lost (`NoRepeat`) |
| `web_app` | settings and overlay as acknowledged, frames of one capture, cancel, progress, connections, every request answered | two threads; six kinds of sessions of two or three requests that share registers, each on a board with and without a calibrated memory and with and without a core; one fault (lost answer, repeated request, stalled camera, pulled cable) at any place, which is what fits into the run. Frames of 3 pixels in chunks and bursts of 2: the last chunk is short and the stream crosses a burst; 4 cells, so that the cursor wraps; gamma with the code's curve at three exponents |
| `roi_pipeline` | list, counts and file as told, samples of one capture, the board's vote is the host's | two starts, three keys and one fault (kill, lost or repeated request, stalled camera): a file of one to three lines, an undo of any of them, a restart after a kill at any step. A region of 6 by 6 cells is the smallest with a texture feature: 35 features, 70 literals in words of 16 bits, so a clause runs over words and the last one is partly used; 2 clauses, one of each polarity, automata of 2 states; thresholds 0 and 1 |

`RoiPipeline.cfg` uses a VIEW: the address and data registers of the grab engine are
written before they are read in each capture, and the collector is over once the
trainer has read its file, so states that differ only there have the same future.

Reading the less obvious properties:

* `OwnAnswer`, `TableExclusion`: `buffer_id_valid` is shared and stays high for two
  cycles after the asker has gone. Nothing in the table tells the sides apart;
  it works because the lock changes hands more slowly than that.
* `ReaderNeverSearches`: the code has a search loop for the reader; with three
  buffers or more it is never entered, because the writer always leaves the newest frame.
* `ReadsComplete`, `ShownNotWritten`, `InFrame` look at the command that goes out to
  the memory, across all four machines.
* `CommandSpacing`: the uploader counts the distance to the next command itself;
  for the cache it follows from the burst and the arbiter's latency. That is an
  assumption on the parameters (RD_LATENCY + BURST_CYCLES + 5 >= TCMD, in `FrameBuffer`).
* `AnsweredOnce` holds outside `torn`, the time after a reset until nothing of an
  access it may have cut is left in the crossing, and none of it has answered
  the access the core is making. `OneTransaction` is the same without the exception.
* `InstalledIsSent` compares the RAM with the image when the load has returned and
  the core has left the bootloader. It and its neighbours are about `Plain` calls. What they leave out really happens: a BOOT_DATA whose
  answer was lost, sent again after the core took the word, is taken twice, and `serv_boot_load` returns normally
  with a shifted image. What they show of repeats is that every other one does no harm: of the reset, of the length, of a word still in the mailbox, of the
  sentinel.
* `AcknowledgedSettings`: settings share registers (the automatics in COM8, the sign
  bits of the matrix, the scaling registers of the test pattern), and each is a read, a write and a read
  back. What was acknowledged last must still be there after any other request,
  one that failed half-way included; a request that failed makes its own setting
  unknown, and a re-initialisation all of them.
* `OverlayAsPosted`: every call homes the cursor first, and a post is taken in the order of the code: blank, lines, text over the lines (`app.py:503-513`). The docstring
  of the route promises text before lines (`app.py:490-494`), see below; the sessions have a post with both that overlap, so the two orders differ. What it leaves out, a character
  or a chunk that was sent twice, really does shift the text, see below.
* `FrameIsOneCapture`, `SampleOfOneCapture`: the pixels are of one capture, in raster
  order, begun after the request. The exceptions (`odd`) are named: a chunk sent
  twice, the engine's watchdog, a board that lost its power under a grab whose
  connection came back, and a capture that was already under way when
  the grab was armed again, after a cancelled one, which is then the frame.
* `CancelHonoured` and `ProgressHonest` except grabs that overlap (`shared`); they have one
  progress record, see below.
* `ConnectionsAccounted`: every open connection is the shared one when nobody is at work, except those the
  grab's handler let go of (`strays`): it closed them under another request that opens them again, or forgot them just after
  a connect had stored them. It shows that no request under the lock loses one; it does not say that none is lost.
* `SamplesKept` excepts what a kill leaves in the middle of a rewrite (`spoilt`).

Every property has a mutant: a plausible slip in one mapped definition (a dropped
wait, an off-by-one, a missing comparison) for which TLC finds the property
violated under the same configuration. Mutated forms stand before the definitions
they replace and are marked as such; no specification uses them.

### Fairness

Hardware clocks run: `WF(Next)` in `BusArbitration`, `FrameBuffer` and `ServBus`,
where every step is a tick, so this says only that time goes on (`ServBus` bounds
the ticks of one clock between two of the other, so both run). Beyond that:

* `NoStarvation` assumes that an owner gives a lane back (`WF(Release(l))`): the
  engines count their bursts out and the control machines leave the lock in a
  fixed number of cycles, which `frame_progress` shows in the composed model
  without that assumption;
* `UploadsComplete` has the antecedent that the camera offers words again and again,
  `DownloadsComplete` that the display's queue is not full for ever; each holds
  whatever the other side does;
* `ServServed` has the antecedent that slow slaves answer. The SCCB bridge has no
  timeout of its own (`modbus/wb_sccb.sv:157`), so this is a real assumption;
* `LoadRuns` assumes that the host's call, the core's program and a reset on its
  way go on (`WF_vars(Host)` is weak fairness of answered accesses: the line may lose
  answers, not every one for ever). The operator need do nothing; an aborted call and a word taken twice are excuses.
* `RequestsEnd` assumes `WF_vars(Works)`: some thread that can run does, or the board
  moves, as threads of a process are scheduled and the board has a clock. Users
  need not ask, the cable need not be plugged in again, no fault need happen. Every
  step of a thread or of the board brings its request or the capture nearer to its end, so this weak form is enough.

No run checks fairness of the operator, and none needs strong fairness.

## 4. The findings

1. `ring_writer`, documentation: README.md item 6 says that a writer which finds the next
   buffer on display stays on its own. The code (`BufferController.sv:130`) goes
   on past the displayed buffer. Both lose a frame; the code's choice is what makes
   `ReaderNeverSearches` and "never the newest frame" in FrameRing true.
2. `serv_reset`, code: reset of the SERV core during its access to a slow register leaves the
   `sys_clk` half of the crossing in that access. The late `done` acknowledges
   the core's first access after the reset with the wrong data, and that access
   is never made. The hold of 16 ticks is shorter than an SCCB transfer.
3. `overlay_parked`, code: a word left in the mailbox survives the core's reset and becomes the
   first word of the next image: `serv_boot_load` returns normally and the core
   runs an image shifted by one word. One `serv_calc` while nothing reads the
   mailbox is enough.
4. `calc_beats`, code: calc's 255th done signal has the value 0xFF which `serv_calc` uses as its
   "not yet" sentinel; the call ends in a timeout with the result on the OSD.

### Behaviour the models show that no run counts as a finding

The properties of `web_app` and `roi_pipeline` leave these out by name; the code has
them.

* A grab that loses the port closes the connection after it has released the lock
  (`app.py:394`), in three steps: it can close the one another request is using, and that request opens it again by itself; between the close and
  `_client = None` a connect can store a new connection, which is then forgotten open and holds the port for as long as the object lives; and
  between its test of `_client` and the use another thread can clear it, which ends the request with
  an AttributeError. `/api/state` and `_require_client` read `_client` twice in the same way (`app.py:157-162`, `app.py:55-57`).
* A BOOT_DATA that is sent again after the core took the word shifts the image, and the load returns normally; no
  count or checksum goes back to the host. The same of calc's command is a wrong result or a timeout.
* A post of lines and of a text that lies over one of them leaves the text on top; by the order in the route's docstring
  (`app.py:490-494`) the line would be.
* A second grab that waits for the lock resets the first one's cancel, and the
  first one's end marks the second inactive (`app.py:375`, `app.py:397`).
* A repeated OSD write puts a character twice, a repeated stream read skips a
  chunk: neither request is idempotent and the line repeats both.
* `osd_clear` writes 2 to the control register, whose bit 0 is visibility: a POST
  with only "clear" also hides the overlay, which `app.py:491` describes as blanking the buffer.
* When the camera stalls, the engine's watchdog ends busy before the host's three
  seconds are over, and `grab_frame`, which promises a fresh frame, returns the old one.
* A failed grab closes the connection without the lock, so it can take away a connection that
  another grab has lost; the other one then opens the port anew by itself and goes
  on, on a board that was unplugged in between and has forgotten the capture:
  its frame is whatever the memory of the board shows ("restarted"). TLC needs two pulled cables for this,
  the committed run has one fault; the proof, which has any number, does not go through without the exception.
* Undo writes the file in place: a kill in the middle loses samples, or leaves a
  cut line on which the next start and the trainer stop.
* `train_tm.py` exports the threshold of its command line, while the accuracy it reports,
  "what the MCU computes", is at THRESHOLD = 0.

## 5. The proofs

TLC checks the instances above; the following hold for every value of the
constants that satisfies the named assumptions of the modules.

**BusArbitration_proofs** (assumes `CapAssumption` only). `GrantBacked`, a registered
grant agrees with the state of both nodes on its path, is inductive and gives
`OneHot` and, as a granted and requesting lane is granted again, `NoPreemption`.
`HandOver` needs two parts more: `Pointers`, a node that points to input 1 does so
for a request or a grant that has just gone (so without a grant a leaf is valid
exactly when a lane of it requests), and `IdleInv`, after one idle cycle the tree is
aimed at a requesting lane and after two that lane has its grant. `FewBypasses`
counts: `Ahead` is how many grants can still go past a waiting lane, from where the
two nodes on its path point and from what the other lanes of them have used of their turn.
`TurnInv` adds to the pointers that a leaf which points to its second input while the other
leaf has the turn came second, so the other one's turn is partly used (`CameSecond`), and `BypassInv` that the grants seen and those ahead are together
at most four; each grant to another lane takes one from `Ahead`.

**FrameBuffer_proofs**, first part (`NumBuffersAssumption`: three buffers or more;
`DelayAssumption`). Neither exclusion nor the table's invariants are inductive
alone, and the inductive invariant has two layers. `LockInv` ties each side's
state to the arbiter's tree: a side in a locked state is where the tree points,
a grant without a request is only seen in the states just after the lock, and
the pulses to the table are up only then. `TableInv` then needs only that one
side acts per cycle: what each table machine holds (`WriteInv`, `ReadInv`), that
the last complete frame is never the one being written (`SearchInv`), that a busy
mark belongs to the machine that holds the buffer (`Marks`), and that a valid
answer is the holder's (`Answered`). From these follow `TypeCorrect`, `Exclusion`,
`AnswerIsOwn`, `Untorn`, `Unleaked`, `NeverSearches`, and `RingImplemented`: initial states
map to initial states and every clock edge is at most one step of the ring,
because the sides never act on the table together.

**FrameBuffer_proofs**, second part (`ParameterAssumption`: sizes and times are positive, the display has at most as many rows as the
frame and more than half of them, a burst is long enough for the uploader's cache and not longer than TCMD, and
the latency condition of the code's parameters; with those of FrameControl). All seven safety properties of `frame_buffer` and, again, `ImplementsRing`. A step of
`FrameBuffer` is a step of the control with the engines' done pulses as its inputs (`ControlStep`),
so the control's invariant carries over whole; it is extended by parts, each about one
seam between two machines. `BusInv`: who owns the bus, hence `Granted`. `PlaceInv` and `FillInv`: where the
uploader is, as a burst number, and that exactly the bursts before it are filled;
with the control's invariant this gives `CompleteFrames`, `ShownUntouched` and the uploader's half of
`StaysInFrame`. `HandshakeInv`: an engine works exactly while its control machine waits for it, and no start
or done pulse is left over. `CacheInv`: filled rows less drained rows is the number
of full banks, and the bank in front is the older row (`BanksApart`). `ScalerInv`: the DDA loses nothing: the source row times the
display's rows plus the residue is the rows fetched times the frame's rows plus the start value, so the source
row is bounded by the frame for every such pair of sizes, not only those tried (`ScalerBound`). `SpacingInv`: how old the last command
is at least, in every state of both sides and of the arbiter between them, on the way to the next one (`Spaced`);
this is where RD_LATENCY + BURST_CYCLES + 5 >= TCMD is needed.

**ServBus_proofs** (`RegAssumption`: any fast and slow registers, any length of the
reset hold). `GrantInv` says who may own the bus and that a slow slave works on the
address that is on it; with it a waiting request stays (`RequestsHeld`), and
`PriorityInv` gives `HostGoesFirst`. `ServAnsweredOnce` needs `Handshake`, which
goes through the phases of `serv_wb_cdc`: for each `ustate` it says which
`vstate` can meet it, how often the access has been answered, and what the stages
of the two synchronizers may hold (an edge travels through them in one direction
only). At U_IDLE nothing is left of any access; that is what a reset breaks
and what `torn` waits for. `ResetInv` says that a core in reset makes no access.

**OverlayUpload_proofs** (`SizeAssumption`: an image has two words or more and fits;
`CommandAssumption`, `JobAssumption`, `KindAssumption`, `NoJobAssumption`). Any calls, and any access made again any number of times.
The invariant follows the image of a `Plain` load through three phases: *announced*
(the length is written, the bootloader has not read it: the mailbox holds at most the
first word), *copying* (t3 words in the RAM, with the slot they are the words
sent so far) and *complete*. `HostInv` says where the
host is, `SendInv` what the mailbox may hold there, `ResetInv` that between a reset and the length the core waits.
A repeated word changes nothing exactly when the slot is still full, and then the slot holds that word: this is the part of `SendInv` that lost answers need.
`SentIsInstalled` and `ResetLoadFinishes` follow. For a load that does not begin with an empty mailbox the first is
false, which is finding 3, and for one that repeats a word the core has taken, too. That an image has two words or more is needed: with
one word, a repeated load can be over for the host before the bootloader has
seen its length. `UploadTypeCorrect` holds of every call, plain or not: although host and core
lose step in the ways finding 3 shows, the copy loop stays within the length
it read and the RAM (`RoomInv`), and the host within its image (`WordsInv`).
`AnswerOfOwnCommand` follows a command instead of an image (`Asking`): which of its words calc has
collected, that the cells show its result from `calc_show` on, and that the done signal the host
waits for can then only be of this command.

**ModbusClient_proofs** holds what the two proofs above the line share: induction over the natural numbers (derived from
well-foundedness, as a fact about sets), that concatenation
of chunks is what it should be (`FlattenSeq`), the shape of the board
and that every operation keeps it, what an operation that is executed several times leaves
(`AfterRuns`), that the stream of `wb_grab.sv` serves the captured pixels in order, for any burst and chunk size (`PixelsServed`), and
which bits of which registers each setting of the camera has (`Mask`): a control's decoding depends on those bits alone
(`ControlSame`, `CoeffSame`, `CenterSame`), and `settings` reads every register that some control needs (`Needed`).

**WebApp_proofs** (`StreamAssumption`, `BurstAssumption`: a frame, a chunk, a burst and a read-back of the overlay have sizes;
`ResendAssumption`: the line repeats a request finitely often; `LockAssumption`, `ClientAssumption`: "no
thread" and "no connection" are none; `ScreenAssumption`: the overlay has cells; `RequestAssumption`: the requests are
what `app.py` has made of their parameters: an index it has checked, an enumeration's option or a byte (`int(value) & 0xFF`, `app.py:69`),
and of a raw write the value that `write_reg` sends, `value & 0xFF`, which as an OSD address is a cell). Any number of threads, requests, connections and faults.

* `ProgressIsHonest`: the progress record is one for all grabs,
  and which answers carry pixels is not written down anywhere, it follows from
  the program. The invariant says that two grabs at a time are both shared (`Shared`),
  and that a grab's next operation is the one that its answers determine
  (`Follows`); the lemma `GrabReads` says that the operations of `grab_frame` after the third are
  reads and no earlier one is, so no pixels arrive without a report.
* `LineIsSerial`: a thread that operates on the line, or opens or closes
  the connection other than as a failed grab, holds the lock (`LockInv`), so no
  two operate at a time, whatever fails.
* `ConnectionsKept` (`ConnInv`): every open connection is the shared one, a stray, or in the hands of a connect request that
  has not finished; a request in its body has the shared one or a stray. Between close and clear the shared one may be open again, if the thread is a grab; a thread that
  holds the lock there (`Parting`) finds it closed or gone, as nobody else can store or reopen one. That a connect never waits for the
  board (`ConnectNeverWaits`) is needed: otherwise its deadline would leave the new connection open.
* `CancelsHonoured` (`CancelInv`): what a grab has is at most a chunk beyond
  what it had when the flag was set, and at the place where the flag is looked at, none.
* `OneCapture` (`FrameInv`): after the first answer the capture is on its way, after the second in the memory, and from the third
  on the pixels received are the first ones of it and the board's stream stands
  where they end (`Filming`). That the chunks' lengths add up to a frame, that all but the last are full, and which operation
  follows after n answers are inductions over n (`GrabOp`).
* `WebTypes` (`TypeOK`; `WireInv`, `CourseInv`): the registers keep their widths because every request of a program of the application is one that
  the board takes (`OpTame`), and the application knows of a setting what a register can hold. For that the
  answers of a request must be those to its program (`Course`): a read-modify-write sends back what it read, `settings` decodes the
  registers in the order it reads them.

**WebKnown_proofs** is about what users know of the device, on top of the requests' invariants: what posts were acknowledged
and what was set (`seen`). `CurveAssumption` is about the constants `Exponents`, `Curve` and `Exponent`, the floating point of `ov7670.py`: the
slider gets back what it sent within a step. It is so for each exponent from 0.30 to 2.50.

* `OverlayPosted` (`OverlayInv`): what the overlay shows from which cell on is carried by the request that is on its way: a post of a
  text writes its cells in order from where it set the address (`PaintsOn`), a clear all of them, a read-back moves the address of the
  board and no cell (`Reads`), and no two of these are on the line at a time (`OneUses`), whatever fails and is repeated. That no other
  route touches the overlay follows from the register each of its operations names (`OverlayBy`).
* `SettingsAcknowledged` (`SettingsInv`): settings share registers, which are read, changed in some bits and
  written back. What is known of a setting agrees with the registers unless a request under way stirs
  its own bits (`SettingsKnown`): a setter of the same setting, a raw write to a register that has some of them or an initialisation does, the setter of a neighbour does not.
  Where the bits of a setter's value are due is stated as goals, a register, a mask and the place in
  its program from which on they hold (`GoalsMet`; a byte, a bit and a gamma curve, which is read back from one of its sixteen
  registers, have one goal, a pattern and a coefficient two). That a goal once met stays so through the rest of the program, and that the bits put back around it are
  current (`Current`), is what `Setting` adds of a setter in its body. A restart of the board, or an initialisation that
  a request started and that is not over, makes everything unknown: a setter which it overtakes has nothing to claim. The page of
  settings holds of each register it has read what the register holds now (`Browsing`), which
  needs that nobody else is on the line until it has decoded them.

**RoiPipeline_proofs** (`RegionAssumption`: the region has cells, inside the frame, and a burst fills
both data registers; `SpanAssumption`; `OverlayAssumption`; `RoiAssumption`: the region is whole 2 by 2 blocks, at least
two each way, and a word has bits; `MachineAssumption`: the clauses are halved; `ColourAssumption`: a pixel is RGB565).

* `CollectorKeepsSamples` speaks of the prompt and of the file; the
  invariant has one clause per step of a key (`Lists`, `InvStep`): which of list, counts and file has the
  sample yet, what `asked` is of `kept`, and that a spoilt file is only met while the
  collector is down, boots or loads. The lemmas on counts (`CountAppend`, the undo's
  `FrontRecords`) are about cardinalities of index sets. `PipelineKeepsSamples` adds
  the trainer, which reads the file and leaves the rest alone.
* `OneCaptureSampled`, `OneCapturePipelined` (`SampleInv`): a cell is six operations: two set the address, one asks for a
  burst, one waits for it, two read the data registers; `Filmed` says what the board holds of the current cell after
  each of them, and that the cells so far are of the capture on the board.
  Which operation is the n-th of the region is an induction over the cells (`RegionProgram`).
* `PackedVote`: packing is a bijection between literals and
  <<word, bit>> (`WordOf`), inclusion of sets is inclusion word by word
  (`PackedSubset`), so a clause fires on packed masks exactly when it does in the training, for
  any width of a word, number of features and threshold.
* `BoardAgrees` (`DeployedInv`: what is deployed is the export of what was trained, and the heartbeat an
  answer of it) rests on three results about data, for every picture, machine and threshold.
  `FeaturesAgree`: a block of the C code, found with running offsets, is the block of the array code (`BlockAgrees`; the sums
  of four channels fit a byte), its eight neighbours are at the offsets (`AroundAgrees`), and the conditions counted by
  `idx` are the features one by one (`ConditionsAgree`). `VotesAgree`: the recursion that makes a
  list puts exactly the ones of a mask into it (`ListExists`, `Listed`, inductions
  over the bits), and the offsets that `tm_votes` sums up find each list in the flat one (`Exported`).
  `HeartbeatAgrees`: half of the clauses vote for and half against, so up to 126 of them the vote is within -63..63, the
  biased vote is not clipped and leaves bit 7 alone. This bound is the theorem's hypothesis. It is needed: with 128 clauses a
  vote of 64 is reported as 63. The default is 64 clauses; the trainer accepts any number.

**Only model-checked.** Everything temporal beyond invariants and action
properties (`NoStarvation`, `UploadsComplete`, `DownloadsComplete`, `ServServed`, `LoadRuns`, `RequestsEnd`):
liveness and ENABLED are out of the prover's reach. Every safety property that a passing run checks is a theorem.

## 6. What is not modelled

* **Camera capture** and **display path**: both are about pixel positions in rows that
  come late or short. `FrameBuffer` offers its uploader every well-formed stream and takes
  any behaviour of the display's queue; a faithful row of pixels on both ends
  multiplies its state space beyond a run.
* **SCCB and the initialisation's transmissions** (`wb_sccb.sv`, `camera_control.v`): the models
  have their effect on register accesses (waiting, restored registers), not the
  bus, its errors, or a camera that does not acknowledge.
* **Reception of Modbus frames** (`modbus_rtu_slave.sv`): bytes, silence, CRC. A request
  arrives or it does not; it is executed once, more than once (its answer was lost and it was sent again) or not at all, in `WebApp`, `SampleCollector` and `OverlayUpload` alike. Two
  answers of one request are never confused.
* **Watchdog** and resets of the whole system; GPIO, a plain register.
* The toggles between the two clocks of the grab engine and the prefetch's own
  cycles: a burst is over before the next Modbus frame. Between two requests
  lie more than a hundred bit times of the line, thousands of clocks; a burst takes dozens. An arm that falls into the two or three clocks between the end of
  an old capture and the arrival of its done toggle (`psram_ch1.sv:173`, `232-237`), after a cancelled grab, would have its busy bit cleared by it; that window is not modelled.
* A write of 0xE2 by the core itself: the register takes it from either master (`wb_sysregs.sv:150`), no program in the repository makes it.
* A serial connection that Python collects when nobody holds it any more: a stray stays open in the model.
* Values of pixels outside `RoiFeatures`, addresses inside a burst of the frame
  buffer, byte lanes, the exact ratio and phase of the clocks and metastability
  beyond the synchronizers' delay.
* What overlays other than calc and roi_tm do; of roi_tm its own grab and its texts; a
  collector started with --no-load while an overlay uses the grab engine; a calculation of more than two seconds; an empty
  image from the command line.
* Of the web application the pages, the decoding routes without bus access and
  the rendering; of the training augmentation, synthetic data and the accuracy report. The curve
  of the gamma slider is floating point: the model has its tables.
* Fonts, dataset importers and baselines, build and CAD files: no state that interacts.

The start counter of the control counts only in START_WAITE, as in the code; the
value of `read_counter_t1` is not kept. Vendor and third-party parts appear only
at their ports.

## 7. What is left

The plan had the host path first, from the frame grab to the web application; that and
the collector's path are done. What would come next: a module of the initialisation
and the SCCB bridge (re-initialisation inside a transmission, errors reported as success); one of
the Modbus slave's reception with a host that retries; the capture path alone, with
an uploader reduced to when it takes a row.
