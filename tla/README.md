# A verification project for the Myo motor system

The repository holds a student design project: a Myo armband on the forearm
controls a motor, the board that drives the motor reports sensor values, and an
Android app shows them. This directory holds TLA+ models of its programs, TLC
configurations that check them on small instances, and proofs, checked by TLAPS,
of the results that matter most.

    armband --(Myo Connect)--> hub.run --> DataCollector --speed--> main loop --serial--> board
                                                                    main loop <--serial-- board
                                                                    main loop --TCP 9000--> Android app

Nothing in the repository specifies the programs; everything here is translated
from the sources. Paths below are relative to `src/`.

## Inventory

### DataCollector (`MyoNucMotor/MyoNucMotor/DataCollector.cpp`, `MyoWin/MyoWin/DataCollector.cpp`)
- State: the zone of the arm `Ez`, the direction `pos` of the forearm, the
  reference attitude (`referenceQuat`, `referenceRoll`), `theta`, `speed`,
  `currentPose`.
- Operations: `onOrientationData`, `onPose`, called by `hub.run` on the main
  thread, so never concurrently with the loop.
- Hard: the zone is decided from the *previous* sample; the reference depends on
  arbitrarily old samples; truncation of the reference only; the speed's width.
- Correct when: the command fits its buffer; the reference is the attitude of
  the arm when it was last raised from below to level; a lowered arm stops the
  motor.
- MyoWin's copy lacks the branch `else if (Ez == Down) speed = 0`.

### Main program of the NUC (`MyoNucMotor/MyoNucMotor/main.cpp`, section `MAIN`)
- State: `buff` (commands and reads share it), `sensor`, `tcpBuffer`, the serial
  port, two sockets.
- Operations: start-up (hub, port, first command, socket, one `accept`), then a
  loop: `hub.run(50)`, write `sl<speed>f`, read, parse a line of five numbers,
  serialize, send.
- Hard: reads end anywhere in the text; `buff` is not terminated by a read;
  an exception in the middle of the parse leaves the sensor half assigned and is
  followed by a send; `tcpBuffer` is uninitialised at first; `send` blocks.
- Correct when: the client is sent the latest complete line and nothing else,
  whole; the loop keeps writing commands.
- Sections `MyoWin` and `NUCServer` of the same file are not compiled.

### Sensor message (`data.pb.cc`, `Data.java`)
Five floats; a zero is not written, so the length depends on the values.

### Serial port wrapper (`SerialPort.cpp`)
One handle; `Open`, `Close`, `Read`, `Write`, `Flush`, `SetTimeout`,
`CountReadBuff`. Hard: `Open` that fails after `CreateFile` leaves the handle open;
reads and writes time out after 10 ms, if `SetTimeout` succeeded, which no program
looks at. Correct when: what a program writes goes over a line with the settings it
asked for.

### Android client (`MyoChecker/.../MainActivity.java`)
- State: `textMsg`, shared by the network thread and the UI thread; the switches;
  the button; the byte array; the socket.
- Operations: the click, the video's error callback, the network thread's loop
  (read 25 bytes, parse, store five texts, post an empty message), the handler
  (copy the five texts to the switches).
- Hard: short reads, the end of the stream (-1 is ignored), the unlocked
  `textMsg`, messages without data, a thread that cannot be started again.
- Correct when: the screen ends on the last message, never goes back, and shows
  one message and not parts of two when it is at rest.

### NUCServer (`NUCServer/NUCServer/Server.cpp`)
The older relay without motor: reads a line, parses, sends; zeros are kept, so
its messages are short; a failed read (-1) makes it parse the whole old buffer.

### MyoWin (`MyoWin/MyoWin/main.cpp`)
The older motor loop without a client: reads (and prints) once in 100 rounds. It
opens the port before it looks for an armband.
- Correct, like the loop of the NUC, when the board is told the collector's speed
  again and again, whatever single calls fail.

### Myo hub (`include/myo/cxx/impl/Hub_impl.hpp`)
Vendored: a list of armbands and a list of listeners; events of armbands that were
never seen paired are ignored; all armbands drive all listeners.
- Hard: two armbands share the state of one collector, which looks one sample back.
- Correct when: two lowered arms stop the motor however
  their samples are mixed.

### The BLED112 session (`bledComm/bledAPI.py`, `myoAPI.py`, `MyoConnectionTest.py`)
A second way to the armband, without the closed library: a script that talks to a
Bluetooth dongle over a serial line.
- The readers of `bledAPI.py` keep nothing between calls. Those of the first part
  read a fixed number of bytes (or fewer, after a second); the others take what is
  in the input, one byte after the other, until they have their packet or the
  input is empty, and drop what they have taken.
- The script keeps the device found, the connection handle and the last result.
  Operations: six exchanges that put the dongle into a known state, the scan, up
  to nine requests for a connection, the wait for its status, three commands to
  the armband, the stream of motion data to the board, the disconnect.
- The dongle keeps its connection and its scan when the script ends.
- Hard: events between a command and its answer; packets cut by the end of the
  input; loops that wait for ever for an answer that a reader has thrown away;
  answers that come late; a scan result made of two packets; a dongle left
  scanning or connected.
- Correct when: it asks the armband it found for a connection; every command is
  answered or the session fails openly; motion data reaches the board whole and in
  order; the connection is closed in the end.

## Modules

| module | models | 
|---|---|
| `Gesture` | DataCollector: one action per handler |
| `GestureHistory` | `Gesture` with the log of its samples, and what is promised on the log alone |
| `GestureProofs` | the theorems about both |
| `SerialPort` | CSerialPort: one operator per call of the class, each call of Windows may fail |
| `MyoHub` | the hub: armbands, listeners, the dispatch of events |
| `MotorSystem` | the way from the armbands to the motor, in both programs: hub, collector, loop, port, board |
| `MotorProofs` | the theorems about these three |
| `SensorFrame` | the message: which units it has, in what order, how many |
| `Relay` | abstract: what the NUC promises its client |
| `BoardText` | the text of the board on the serial line, the cuts of a read, the parse of a piece |
| `BoardTextProofs` | the theorems about both: what a message has for units; that reading, cutting and splitting keep the board's numbers in order |
| `NucLoop` | `main.cpp` with the serial line, the board and the client as environment |
| `NucLoopProofs` | `NucLoop` implements `Relay`; its types, and its messages are of one reading |
| `DirectRelay` | abstract: what NUCServer promises its client |
| `NucServer` | `Server.cpp` with the serial line and the client as environment |
| `NucServerProofs` | `NucServer` implements `DirectRelay`; its types, and its messages are of one reading |
| `Checker` | the Android client's threads |
| `Telemetry` | the client composed with the relay at the other end of the connection |
| `TelemetryProofs` | the theorems about both |
| `Bgapi` | the packets of the dongle and the readers of `bledAPI.py` the session uses |
| `BgapiReaders` | those and two more readers on every input |
| `BledScan` | the script up to the device found |
| `BledScanProofs` | the theorems about it |
| `ArmSession` | abstract: what the session with an armband promises |
| `BledLink` | the script from there on |
| `BledLinkProofs` | the readers on inputs of any length; the types and the safety properties of the session; `BledLink` implements `ArmSession` |
| `MC*` | the values TLC uses |

The operators whose comment calls them a *faulty variant* are used by no
specification. Each is a plausible bug in the definition that follows it, kept
to show that the property named with it in `PROJECT.json` can tell the
difference.

### Gesture
A sample is abstracted to the elevation of the forearm (the three outcomes of
the comparisons of `pos.z()` with 0.5 and -0.5), its yaw on a circle of `Turn`
directions, and its roll, counted in 1/`Scale` of the handler's unit so that
`speed` is the integer the loop formats: `(int)(collector.speed * 50)`.
`onOrientationData` is one action: zone from the old `pos`, reference if the arm
came up from below, new `pos`, then theta and speed. `StopWhenDown` tells the two
copies of the class apart. Rotating by the reference changes the yaw and not the
elevation, which is why the elevation of `pos` is that of the sample.

### SerialPort, MyoHub and MotorSystem
`SerialPort` and `MyoHub` are libraries of operators over their variables; an
operator's parameter is what the call returns, so that a caller can look at it or
not, as the code does. `Open(FALSE)` includes the failure behind `CreateFile`, which
leaves the handle open without its settings. Text is counted in units (what it says
is `NucLoop`'s matter), one unit being what the board prints in a round.

`MotorSystem` composes them with `Gesture`, in the instance that stops the motor for
the NUC and in the other for MyoWin. `program` says which program runs: the start-up
is the same calls in two orders (`NucSteps`, `WinSteps`), the loop differs in what is
read and when, and only the NUC has a client. `hub.run` is any number of events of
any armbands; an event calls what the table of `Hub_impl.hpp` says, of which the
collector overrides two. A write is whole, a part, or nothing, and `cut` says that the
line ends inside a command: the next one then tells the board nothing that can be
relied on. A read that fills the buffer ends the model (`overrun`): what the program
does behind it is undefined. `peer` and `full` are what the loop knows of the client:
there is one, and `send` would block. History variables: `piled` (text piled up while
the program was held up, or a read failed), `heard` (the armbands the collector got
samples of) and `lows` (how many of their last two samples were of a lowered arm).

### NucLoop
`pc` names the blocking call the program is in or about to make. The text of the
serial line is a sequence of cells: numbers (of which reading, which field),
commas, newlines, the word "set", the command, the terminator, anything else. A
read returns any prefix of the driver's queue that fits, and may cut its last
cell in two: the half of a number can be a number again or (a sign, a point)
none. `ParseLine` is the whole `try` block: the set of pieces that read as zero
is chosen, the fields are assigned up to the first that is no number, and only a
complete parse serializes. `DebugFill` says what `strcpy_s` does with the rest of
`buff`: the debug runtime fills it, the release one leaves it. Uninitialised
memory is the value `Blank`. `latest` and `sent` are history variables.

The command's eight or so characters are one cell, and a read overwrites it as a
whole. What a read of fewer characters leaves of it is behind the text that was
read and has no newline, so it cannot lie in the line that is parsed, which ends
at a newline of the text.

### Relay
Three variables: the latest line, the units on the wire, the client's end. It
may `Learn` a line, `Deliver` the latest whole, `DeliverGarbage` (fewer than `N`
uninitialised units, only before the first line). `NucLoop!ImplementsRelay` is
`Relay!Spec` under the identity mapping of the three variables.

### NucServer and DirectRelay
The program parses what lies between the first newline of a read and the next,
complete or not, sends nothing when the parse fails, and keeps zeros, so a message
may have fewer than `N` units: it does not implement `Relay`. What it promises is
`DirectRelay`: each line it has parsed is sent at most once, by the units of its
fields that are not zero, before it takes the next. A failed read has size -1,
which makes the program parse the whole old buffer (`failures` counts them): the
contract holds all the same, that a message is of one reading does not.

### Bgapi, BgapiReaders, BledScan, BledLink
Bytes are modelled as bytes, since which of them mislead a reader is the point: a
zero where a response's length is expected, 0x80 where an event's is. Each byte
carries, for the properties only, the kind of its packet and whether it is the
last one of it. Data that nobody looks at is one value. A reader is a step function
on the bytes collected; `Call` applies it to the input.

In `BledScan` `rx` holds all that the dongle has sent. A read of an answer takes
its number of bytes, or what has come by the end of the second; a flush drops any
prefix, that which has arrived. `Restart` starts the script again with the dongle
and the input as they are. History variables say that some read of this run did
not take exactly its answer (`misread`), that a call of the report reader was
given two events (`crowded`), and how many answers of earlier starts the flush of
this run has left in the input (`old`).

In `BledLink` bytes move from `line` to `rx` by `Arrive`, at the ends of packets
or, up to `MaxCuts` times, inside one. Three history variables name the ways in
which the session is known to lose data, so that the properties say that there is
no other: `torn` (a call ended in the middle of a packet), `mixed` (a reader took in
another packet together with its own, or for its own) and `behind` (a value was
awaited behind another event).

`BledLink` starts with an empty input. `BledScan!OnlyEventsLeft` is the reason why:
behind the scan only events are left, which the flush drops or which come later. These
are `SendLate`: up to `MaxLate` scan reports, or reports that a connection of an earlier
run is closed, until the link of this session begins to come up.

`OnlyEventsLeft` is about runs that began with fewer than six old answers in the
input. Each start can leave one behind, and when six starts in a row did so, with no
flush dropping any, the seventh reads a whole row of old answers for its own, sees
nothing wrong with them and leaves its own in the input. With fewer it cannot: the
first answer of its own comes up for a later command, where it does not fit.

### ArmSession
What is left of the session when packets, handles and polling are taken away: a
phase, the command it is at, the link, the commands the armband has, the data it has
produced and those passed on. It is granted a connection, begins when that is up,
gives its commands one after the other, passes on the newest data, and closes the
link or gives up. The three losses are its variables too, since each promise is kept
as long as certain of them did not occur: a session without `torn` and `mixed`
(`Sound`) is granted one connection, gives its commands to it and leaves no link
behind when it closes; without `torn` it passes on only data of the armband that are
newer than all before, and does not end of itself in its stream; without any loss the
n-th data passed on are the n-th produced. A step with a loss may do what the script
then does, and nothing is promised of what was lost but that it is never regained
(`Losses`). `BledLink!ImplementsSession` is `ArmSession!Spec` with `Phase` for the
phase (a function of `pc`), `imu` for what was produced, and the other variables for
themselves.

### Checker and Telemetry
The network thread is a program counter over `connect`, `read`, `store` (one
element of `textMsg` at a time), `post`, `close`; the handler copies one switch
at a time, so that every interleaving of the two loops is explored. A read
overwrites the front of the array with some units and the whole array is parsed:
the last unit with a tag counts. The history variable `short` says that a read has
returned less than a message. `Telemetry` puts `Relay` at the other end; the n-th line has the
value n in all fields.

## Runs

| run | configuration | shows |
|---|---|---|
| `gesture` | rolls -3, 0, 3, `Scale` 2, 2 yaws, 2 poses, logs of up to 4 samples | width of the command, dead band, reference and speed by the log, the stop |
| `motor_arms` | the NUC, 2 armbands, 1 failed write | two lowered arms stop the collector, and the board is told |
| `motor_port` | both programs, 1 armband, 4 units of queue, a buffer of 3, 1 failed write | commands over a configured line only, no overrun without a pile, a steady speed reaches the board |
| `nuc_debug` | 2 fields, 9 cells of buffer and queue, 3 readings, 2 answers | messages of one reading, in order, and the relay; commands keep flowing |
| `nuc_server` | 2 fields, 6 cells, 2 readings, 1 failing read | messages of one reading, in order; the contract with its client |
| `telemetry` | 2 fields, 3 lines, 2 posts, fair threads | one line parsed and shown; the screen settles and does not step back; what shows values goes on; every line is shown or overtaken |
| `bgapi_readers` | bytes 0, 3, 5, 128; 9 bytes, 3 packets | what each reader finds, and how much it takes |
| `bled_scan` | 2 runs of the script, 2 reports | why it can fail, that the scan is stopped, what is left in the input, who is asked for |
| `bled_scan_batch` | 1 run, 2 reports | violated: another device is asked for |
| `bled_link` | 2 requests, 1 handle, 2 motion events, a pose, a status update, 2 late events, 1 cut | nothing is lost but as stated, the board's data, the close; the abstract session |
| `bled_link_live` | 1 motion event, 1 pose, 1 status update, 1 late event, fair | the stream is reached |
| `bled_link_handle` | 1 request, no events | violated: the handle returned is not the connection's |

Type invariants are proved (see below) and not run.

Bounds. The rolls of `Gesture` are both ends and the middle, the ends no
multiples of `Scale`, on both sides of zero. The handler looks one sample back and
at `Ez`, so four samples contain every passage through the zones that can set or
fail to set the reference, and two that set it. In `motor_arms` two armbands are
what it takes to mix samples (the theorem covers any number); the board prints
nothing, so that the run is about arms. In `motor_port` a buffer of three units is the
smallest that two rounds of text do not fill, a queue of four can hold more than that,
and MyoWin reads in every second round. The rolls there are 0 and 1: two speeds, one of
them not a stop. In
`NucLoop` two fields have a first and a last one, a separator between them and a
line that can be cut between, before and inside them; nine cells hold two lines
and an answer; three readings let the text of the first be behind the second
while the third comes in. In `NucServer` six cells hold a line and the beginning of
the next. In `Telemetry` two fields suffice for a unit to be read
without the other; three lines for an array, a store and the wire to hold one
each. In `BgapiReaders` the four bytes are the ones a reader tells apart and nine
bytes hold the longest response behind two others; a reader starts anew with each
call, so a longer history adds nothing, and theorems cover inputs of any length.
In `BledScan` two runs suffice for what one
leaves behind to meet the next (a row of several old answers is left to the theorem
`EventsAreLeft`); the dongle starts in any of its states. In
`BledLink` two motion events can be out of order or lost in between, the handle is
one that differs from the default 0, and two late events are a report and a
disconnection in either order; the theorems cover every set of handles and poses and
any number of late events. The payload of a status event is
shortened from 16 to 4, which keeps every comparison the readers make (with 3, 0
and 0x80). `LinkAssumption` says what the lengths of the real packets (16 and 20)
owe the readers: an event whose length is 3 or 0x80, or motion data whose length is
0x80, would begin with what looks like another packet.

`CHECK_DEADLOCK FALSE` where the system stops: the programs exit when their
start-up or the hub fails, and the loop of the NUC waits for ever when the (bounded)
board is silent and the client does not read; the Android thread ends with its
connection; the script of the dongle ends.

The release runtime (`DebugFill = FALSE`) and the log of MyoWin's collector
(`StopWhenDown = FALSE`) are covered by the theorems alone (those that do not assume
the debug runtime). With the release runtime
`MessageIsOneReading` and `NoStepBack` do not hold: a short read over a long old one leaves old
text behind the new, `std::string(buff)` runs on into it, and a line can begin with
one reading and end with another. No comment or document of the repository claims
otherwise, so it is recorded here and as a hazard and not as a finding.

Fairness. The programs are single threads that the operating system runs: weak
fairness of the loop, and nothing of the board. It is written out with the condition
under which the loop has a step (`NucLoop!LoopReady`, `MotorSystem!LoopReady`,
`BledLink!Ready`), so that a read that waits for text or a `send` that waits for the
client does not count as a step the program owes. `hub.run` returns after its 50 ms.
A connected client reads or leaves: the Android client has a thread for nothing else.
Without its timeouts (`main.cpp:62`, a failure the code does not look at) a read of a
silent port lasts for ever: `NucLoop!LoopReady` and `MotorSystem!LoopReady` then owe
nothing, and the liveness properties of both have as a premise that the port has them
(`timed`). Those of `MotorSystem` also rest on `MaxFailures`, by which failed writes come
to an end. `Telemetry!TFairSpec`: both threads of the app
run; the server and the user owe nothing. `BledLink!FairSpec`: the script polls without
end, and what was sent arrives; the armband and the user owe nothing.

## Findings

- `bled_scan_batch`. `ble_msg_gap_set_scan_response_evt_t` does not stop at the
  first report: it returns the UUID of the last report that had one and the sender
  of the last report of all. If the armband's advertisement and another device's
  report come in one call, the script prints that it has found the Myo and asks the
  other device for a connection. `AloneConnectsToMyo` shows that nothing else leads
  there.
- `bled_link_handle`. The reader of write responses is commented to return the
  connection handle and always returns 0 (`bledAPI.py:393-394`, `:398`, `:420`,
  `:425`). The script only prints it.

Known, and no contradiction of anything written: manufacturer's data in a report
raises an exception (`bledAPI.py:878`) that leaves the dongle scanning, which
`ScanStopped` excepts; the next run copes with it (`FailsOnlyMisread`). An event of
any kind ends the scan, and an event or a late answer in front of an awaited one
makes the run fail or wait for ever: that is what `misread` and `mixed` stand for.

## Proofs

- `GestureProofs`. `TypesPreserved`; then `SpeedInvariant`, the strengthening that
  ties the speed to the reference and to the last sample while the arm is level
  and bounds it otherwise, from which `CommandAlwaysFits` and `NeutralBandHolds`
  follow. The log invariant says of a log of any length what the last handler
  decided on (`Ez` and the elevation of `pos` are those of the last two samples)
  and which samples set reference and speed; `ReferenceIsFromLog`,
  `SpeedIsFromLog` and `LoweredArmStops` are read off it.
- `MotorProofs`. For any number of armbands, buffer and queue. `LineInv`: from the
  step behind `Open` on the port is open with its settings
  (`CommandsAlwaysConfigured`). `QueueInv`: unless text piled up there waits at most
  what was printed in the round that ended and in the one that runs, less than the
  buffer (`OverrunNeedsPile`). `ArmsInv`: the last sample, on which the collector will
  decide, was of an armband that is known and whose count of low samples agrees with
  it; when all counts are two, the sample before was low as well, whoever sent it, and
  the speed is zero (`AllArmsLowStopsMotor`). `MotorTypesPreserved` uses `GestureProofs`
  through two instances, one for each program's collector. Of the port by itself, under any calls
  in any order: `HalfOpenStays`.
- `BoardTextProofs`. A message without zero fields has `N` units in order; one
  with a zero field has fewer. Of the text: `Ordered` says that its numbers come in
  the order in which the board printed them, reading by reading, that what no newline
  separates is of one reading, field by field, and what no comma separates of one
  field. Whatever takes a text apart keeps that: a read with its cut
  (`ReadOrdered`), a part of the buffer (`FreshTextOrdered`), a line
  (`FirstLineOrdered`); a line and the next reading together keep it
  (`ConcatOrdered`); and from it the fields of a line that parses are of one
  reading, in its order (`LineValues`), and stay so on the way into the
  message (`CarriedInOrder`). The k-th piece of a line and the k-th field that is
  written are the k-th of a set of numbers (`Nth`), about which four lemmas say that
  it exists, is unique and grows with k.
- `NucLoopProofs`. `LoopInv`: either no line was parsed to its end, the buffer is
  blank and the last field of the sensor is still zero (fields are assigned in
  order), or the buffer holds the latest line and no field of the sensor is zero
  (a zero is replaced by -1), so that its `ByteSize` is `N` whatever a line that
  failed half way assigned. This is what makes the send after a failed parse
  harmless. From it `NucImplementsRelay` (every step maps to one of the relay's or
  to a stutter) and `GarbageAlwaysShort`, for every `N`, buffer and bound, with
  either runtime. `LoopTypes`. `TextInv`, with the debug runtime: the driver's queue
  and the text of the last read are `Ordered`, the queue ends with a newline, the
  buffer holds no number when it is about to be read into (the command was written
  over it and the runtime filled the rest), the latest line is of one reading; and
  along the chain of what was sent, the latest line, the text, the queue no reading
  is newer than one further back. Each place is fed by the next, so no part is
  inductive alone. From it `MessageAlwaysOneReading` and `MessagesNeverStepBack`;
  both state `DebugFill` as their hypothesis, since with the release runtime they
  do not hold (see the end of the section on the runs).
- `NucServerProofs`. `ServerInv`: only while a message is due do sensor and buffer
  matter, and then they are those of the line just parsed and its serialization,
  whatever a line that failed before left in them. From it
  `NucServerImplementsDirectRelay`. `ServerTypes`. As long as no read has failed
  (`FreshInv`) the same chain holds, with the line waiting to be parsed in the place
  of the text; here it is the size of the read that cuts off what older reads left
  in the buffer (`TakenIsRead`). From it `MessageAlwaysOneReading` and
  `MessagesNeverStepBack`.
- `TelemetryProofs`. `TypeInv` gives `TelemetryTypes`. `SettleInv`:
  a switch that differs from `textMsg` is still to be copied, by a handler that is at
  work or has been posted for, or the thread has yet to post (`ScreenAlwaysSettles`).
  `StreamInv`: until a read is short the wire is cut into whole lines, and array,
  message and texts are each one line, or part of one being stored
  (`AlwaysParsesOneLine`, `NeverMixedAtRest`). `OrderInv`: the values of a
  field are in order along the way from the wire to the switch
  (`SwitchesNeverStepBack`). `ShownInv`: until garbage or a short read
  got in, texts that are stored, shown or about to be were parsed from a whole line, which
  stays in the array or is overwritten by another; so no later parse, not even that of the
  end of the stream, raises an exception, and a started thread is not started again
  (`ShownIsRunning`).
- `BledScanProofs`. `ScanIsStopped`, by an invariant that is `ScanStopped` itself
  once the dongle's state has its type. `FailInv`, for any number of starts and
  reports: every answer that is or will be in the input ends in a code the script
  goes on with, because the dongle can refuse only the start of the scan, and that
  comes when it is known not to scan (`Quiet`); so a run that fails has read
  something else (`OnlyMisreadFails`). `MyoInv`: whatever a read cut off, a byte that
  looks like the type of an event is, in this input, the first byte of an event that
  is there as a whole; so what the report reader takes are whole events of the
  dongle, a second one in the same call makes the call crowded, and of a single one
  the UUID and the sender belong together (`AloneIsMyo`). `RowInv` counts the ends of
  answers in the input: with `old` answers left by earlier starts, the run that has
  read n of them for its own has `old - n` in front of the first of its own, which is
  the one to "disconnect"; when that comes up, for the command `old + 1` of six, it
  does not fit, so a run without a misread has begun with no old answer, or with six
  or more; and where no answer ends there is nothing of an answer, because a cell that
  is not the last of its packet has one of the same packet behind it (`FramedInv`,
  `EventsAreLeft`). `ScanTypes`.
- `BledLinkProofs`. The readers on inputs of any length: a run of a reader is a
  computation of calls, byte by byte; an invariant of that computation (what the
  reader has collected is the end of what it was given, since the pair it started
  at) is climbed to the end of the input, and `AnswersByPairs`,
  `ValuesByLength`, `GroupsByPackets` (groups of any number and any lengths in front of the
  end) and `InformationByLength` (any input) are read off it. `AnswersFollowPairs`,
  `ValuesFollowLength`, `GroupsAlwaysEnd` and `InformationFollowsLength` say the same of
  the inputs of `BgapiReaders`, whose packets of groups and attributes are fixed. The two
  readers of groups and attributes are called by no program of the repository.

  Of the session: `LinkTypes` (a reply that was found is seven bytes
  long, a status has its handle, so the script never takes a byte that is not there),
  and five safety properties by `LinkInv`, the conjunction of the types and of
  - `FrameInv`: the bytes on their way, `rx \o line`, are whole packets one behind the
    other, but for the front of the first when a call ended inside it (`torn`); it
    says which bytes a reader can take for the beginning of its packet;
  - `OrderInv`: the motion data on their way are sorted and newer than what the board
    has (`BoardKeepsOrder`);
  - `SessionInv`: at each place of the script there is at most one answer on its way,
    the one it waits for, it is intact, and status events are only behind it; the
    dongle's side of the link agrees with the script's place (`AnswersStay`,
    `WritesReachTheArmband`, `ClosedIsDown`);
  - `CompleteInv`: as long as nothing was torn, mixed or behind, every motion event
    is on the board or on its way (`BoardMissesNothing`).

  None of the parts is inductive alone: that an answer is found depends on the framing
  of what precedes it, and that nothing of the board is lost on who reads.

  `LinkImplementsSession`: every step maps to one of `ArmSession` or to a `Read`, by
  `LinkInv` before and after it. `SessionInv` before the step is what `Grant`, `Give`
  and `Close` need, `SessionInv` after it what `Begin` needs; `Pass` (`PassedOn`) takes
  the order of the data from `OrderInv` after the step and their completeness from
  `CompleteInv` after it; that a value cannot end the stream of an input that was not
  torn (`StreamGoesOn`) is read off the front packet. `ArmbandIsConfigured` is a
  property of the abstract session, by an invariant of its own (`Begun`: while it asks
  it is at its first command; once it has begun the link is up or down, never again
  opening) that is carried over to the script: there is no other way to stream than
  past all three commands, and a link that was lost in between does not come up again.

Where a proof needs induction over a sequence (`Climb` in two modules), it takes the
smallest counterexample of a set of numbers that is written out, by the theorem that
`<` on the naturals is well-founded.

Assumptions: those named in the modules (`GestureAssumption`, `HistoryAssumption`,
`PortAssumption`, `HubAssumption`, `MotorAssumption`, `FrameAssumption`,
`TextAssumption`, `LoopAssumption`, `ServerAssumption`, `CheckerAssumption`,
`TelemetryAssumption`, `ReadersAssumption`, `ScanAssumption`, `LinkAssumption`),
nothing else.

Only model-checked: the liveness properties (`CommandsKeepFlowing`, `SentIsShown`,
`ReachesStream`, `LoweredArmsStopMotor`, `SteadySpeedReachesMotor`), since fairness is
out of the prover's reach. Every other property of a run that passes is a theorem.

## Not modelled

The floating point arithmetic of quaternions beyond the outcomes of the
comparisons; the board's program beyond that it takes whole commands (it is not in the
repository); the video; the closed Myo library and the locking policies of its
headers; the bytes of a unit (reads are cut between units);
what a driver's full queue drops inside a line (a line that does not fit is refused);
the exceptions that a payload too short for its `struct.unpack` raises in the readers of
groups and attributes, which no program calls (that of the reader of values is in
`BledLink!ReadValue`, that of the status in `ReadStatus`); what a read does that
writes behind the buffer; the readers of `bledAPI.py`
for the dongle's own attribute database, for an indication's confirmation and for
hello, which no program calls, and the four that are copies of the reader of write
responses. The inactive sections of `main.cpp` repeat MyoWin and NUCServer. Vendored
headers (protobuf and the Myo SDK, by far the most lines of the repository), generated
accessors, Gradle files and resources.

## Plan

What is planned has been built. What could be added:

1. One specification of the script from its start to its end, `BledScan` followed by
   `BledLink`, instead of the statement that joins them (`OnlyEventsLeft`); it needs
   the cells of the two modules to be the same.
2. Reads that are cut inside a unit of the message, and a wire of bytes under `Relay`.
3. The liveness properties as theorems, once the prover has rules for fairness.
