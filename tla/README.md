# Verification of bdm_adapter

TLA+ models, TLC runs and TLAPS proofs for the debugger of a BDM adapter: a
console UI process, an IO process with a plug-in for the AVR back-door board,
and a serial device. The models are translated from the C sources; the
repository has no tests and no documentation beside its comments.

    cd tla
    tlc -workers 2 -config RegionXfer.cfg MCRegionXfer   # one run
    for m in *Proofs.tla; do tlapm $m; done              # the proofs

`PROJECT.json` lists the runs with the properties each checks, maps every
definition to the lines it stands for, and holds the hazards, the findings and
the mutants (below).

## 1. The system

    user --keys--> [bdm-dbg-ui] ==named pipe== [bdm-dbg-io + io_avrb] --serial--> device
                   line editor    messages       UI end | device end    two streams,
                   command table  handshake      plug-in: FRD, FWR      cut into chunks

| Part | Files | State | Operations |
|---|---|---|---|
| Device receive path | `bdm-dbg-io/dbg-io.c` | `gt_flags.dev_conn`, `gt_dev_rx`, two `T_DEV_RX_STREAM`, one overlapped read | `main_loop_wait`, `dev_rx_init`, `dev_rx_proc`, stream handlers, `dev_check`, `dev_tx` |
| UI pipe, IO side (server) | `bdm-dbg-io/dbg-io.c` | `gt_flags.io_conn`, `io_ui`, the cursor `gt_io_ui`, one overlapped read | `io_pipe_check`, `io_pipe_rx_proc`, `io_ui_init`, `io_ui_init_cont`, `io_ui_cmd_proc` |
| UI pipe, UI side (client) | `bdm-dbg-ui/dbg-ui.c` | `gt_flags`, the cursor, the command table `gta_io_ui_cmd`, one overlapped read | `io_pipe_check`, `io_pipe_connect`, `io_pipe_rx_proc`, `ui_check`, `ui_cmd_proc` |
| File commands | `io_avrb_dev_cmd.c`, `io_avrb_dev_resp.c`, `mem_file.c`, `region.c` | `memf_cmd`, `memf_rsp`, `region`, `mem_read_cb`, `mem_write_cb` | FRD, FWR and the callbacks that go on with them |
| Line editor | `cmd_line_wc/cmd_line_wc.c`, `bdm-dbg-ui/dbg-ui_inp.c` | the line buffer, cursor and end, the history ring, `ca_cmd_line`, prompt flags | the keys, `get_line_prompt`, `cmd_keys_pressed`, history file |
| Completion, suggestion | `dbg-ui_inp.c` | none | `cmd_auto_complete`, `cmd_suggest`: functions of the line, the cursor and the table |
| Parser, TLV | `bdm-dbg-cmd-lib/cmd_lib.c` | the variables behind the options, in the IO process; the learned table and the read buffer, in the UI | `decomposite_cp_cmd`, `update_cmd_int`, `add_tlv_*`, `get_tlv_*` |
| Plain commands, response texts | `io_avrb_ui_cmd.c`, `io_avrb_dev_cmd.c`, `io_avrb_dev_resp.c` | the command table | packets for the device, texts for the user |
| `crc16.c` | | none | checksum |
| Not built | `dbg-io-ws*`, `lws_config*` | | an experiment, in no project file |
| Vendored | `ftdi_d2xx`, `json-c` archive | | external |

How they interact. Both processes are single loops around
`WaitForMultipleObjects`, which takes the *lowest* signalled handle. The IO
process waits for: NOT_IDLE, bytes from the pipe, a pipe event, bytes from the
device, and then calls `dev_check`. The UI waits for the keyboard, bytes from
the pipe, a pipe event, or 100 ms. Every connection is a flag with the values
CLR, RISE, SET and FALL, where RISE and FALL are left to be acted upon in
another iteration, and an auto-reset event that asks for it. Every connection
has one overlapped read, which each handler has to post again. Commands typed
into the UI go over the pipe as text, are parsed in the IO process and call
into the plug-in; the plug-in writes to the device and leaves in a global
function pointer what to do with the answer; answers go back as text.

What is hard about it: streams whose three kinds of boundaries (chunk, message,
read) are independent; processes and a cable that come and go at any moment;
two cursors, in two processes, that no message carries; callbacks that any
answer triggers; an edit buffer and a console that nobody compares; a line that
is parsed twice, with a table that one process learned from the other byte by
byte. The 40 entries of `hazards` in `PROJECT.json` give the line where each bites.

## 2. Modules

| Module | What it is |
|---|---|
| `DevRx` | the device receive path, with the firmware's multiplexer, driver and cable |
| `MCDevRx` | message sets and header sizes for TLC |
| `DevRxProofs` | proofs about `DevRx`: types, the read that is always posted, the place in the chunks; and messages: what the device sends, what is on the line, what is delivered, what a read asks for, when a handler hangs |
| `UiPipe` | both ends of the pipe and the handshake, composed in one module because they share the pipe |
| `UiPipeProofs` | proofs about `UiPipe`: types, sessions, the dialogue, the table, no one parked |
| `RegionXfer` | the file commands, with the target's memory and the line to it |
| `RegionXferProofs` | proofs about `RegionXfer`: types, one transfer, its answers, the image |
| `RegionValidProofs` | the checksums of the target at rest, and the report of a file read |
| `Crc16` | the checksum of a region, table and loop, with the bitwise division that the table must be |
| `MCRegionXfer` | files and memory for TLC, with `Crc16` as the checksum |
| `Loop` | a loop as a function of the number of its passes, and what proofs about loops need |
| `CmdTable` | the plug-in's command table, its variables and their first values |
| `CmdTlv` | the table as messages: written in the IO process, read in the UI |
| `CmdParse` | the parser, which both processes run |
| `CmdMeaning` | what a line means, said without a parser |
| `CmdComplete` | what Tab inserts and Tab Tab lists |
| `CmdMenu` | abstract: what a typed command promises |
| `CmdSession` | composes them in two processes: learn, complete, enter, parse again, tell the device; implements `CmdMenu` with the meaning of `CmdMeaning` |
| `CmdParseProofs` | the parser: what it returns, that two tables with the same names and types accept the same lines, that it finds the options where `CmdMeaning` puts them and makes of their values what it says |
| `CmdSessionProofs` | proofs about `CmdSession`: types, the learned table, the lines that wait, what Tab Tab lists, what a line means, and that it implements `CmdMenu` |
| `MCCmdSession` | texts to type and responses for TLC |
| `TextLine` | abstract: what the command line promises, over texts |
| `LineEdit` | detailed: buffers, terminators, ring slots, console cells; implements `TextLine` |
| `LineEditProofs` | proofs about `LineEdit`: the buffer, the console, the arrows, and that it implements `TextLine` |
| `MCLineEdit` | characters, inserts and histories for TLC |

### DevRx

`gt_dev_rx` is `curr` (`pt_curr_stream`, `None` while a chunk header is read)
and `stream_len` (`dw_stream_len`); of each stream, `btr` is `dw_btr` and `buf`
the filled part of `ca_buff`, so `dw_wr_idx` is its length. The overlapped read
is `rx`, `req` (`dw_req_len_last`) and `got`. An iteration of the loop is two
steps, because the device may act between them: `main_loop_wait` with the
handler of the event it woke for (`WakeNotIdle`, `WakeTimeout`, `WakeTx`,
`RxTimeout`, `RxFailed`, `RxChunkHeader`, `DbglHeader`, `DbglMessage`,
`CrspHeader`, `CrspMessage`, `RxPartial`, `RxOverrun`), then `dev_check`. A
byte is not its value but where it comes from (stream, message, offset), which
is all the properties ask; what a header *says* when its bytes are not one
message's header is any member of `Garbage`. The device queues messages, cuts
what is queued into chunks of any length in `ChunkLens` and sends byte by byte;
reads end by being full, by the timeout with what is there, or by failing. A
handler in `while (1)` is `pc = "hung"`: the process goes no further, whatever the
cable does.

### UiPipe

One iteration of the IO loop is one step. The UI's iteration is cut where the
other process can act between two of its calls: after a read completes and
before the message is parsed (the next read is already posted then), before
and after the first read, before INIT is sent, at the probe of the pipe and at
`ui_check`. A message is its kind and, for a command definition, its number.
`inst` is the server's pipe instance. Processes start, exit and die at any
moment within the bounds; messages written before a death stay readable, as
they do in a Windows pipe. `Signalled` reads are read as completed overlapped
operations.

### RegionXfer

Addresses count half-words, a DWORD is two, high half first; `Base` is the
number of values of a half-word, so that the arithmetic of "inc" wraps as the
code's does. A file is a sequence of regions, each with blocks; `bad` marks one
without a mandatory field, `auto` a region without `mem_blocks`, `empty` a block
without `data`, which is optional. `cmd` is
`memf_cmd`, where the two iterators count what was taken; `region.data` is the
image. A command goes to `toDev`, if the device is connected; an answer goes
to `toIo`. Which callback is set is a string in `read_cb` and `write_cb`.
`halted` is the end of the process by a failed assertion or a NULL pointer, that
of an `empty` block among them, which FWR reads through (`WriteNextBlock`).
`DevRefuses` is an answer shorter than asked. A word taken from beyond the image
is any word. A file is a sequence of regions as `mem_file.c` parses them
(`FilesAssumption`), and the target's memory begins at 0 and has no gaps
(`MemoriesAssumption`).

The checksum is the constant `Crc` of the contents. `Crc16` has the code's
table, copied, and its loop; the assumption `TableIsDivision` compares all 256
entries with eight steps of the division by x^16 + x^12 + x^5 + 1, and
`MCRegionXfer` runs the transfers with it. With a true checksum one can ask
whether it does what it is for: `TornWriteShows` says that a step that changes
one half-word of a region whose checksum was right, and not the checksum, leaves one that is
wrong, so that a write cut off there is seen. One half-word is 16 bits, as far as a
CRC-16 promises it; of the 2^32 - 1 changes of a DWORD, 2^16 - 1 (the multiples of
the generator) leave the checksum right.

### CmdSession, its parts and CmdMenu

Texts are sequences of characters here, as the questions are about characters:
the C library's functions (`wcstok`, `_wcsicmp`, `swscanf_s`) are operators
marked external. `table` is the UI's `gpt_io_ui_cmd`, as learned from the
messages of the handshake; `buf` is the UI's read buffer, never cleared, so that
a message lies on what the longer ones before it left behind. `store` has the
variables that the options of all commands set (IN of FWR and of FRD is one
variable, so is BUFF of WR8 and WR16). `rd` is the line that the IO process has
read, `up_q` those written in the meantime; a read takes them all and
`io_ui_cmd_proc` handles the first. `sent` is the packet given to `dev_tx`, as
bytes, or the job begun. `CmdMenu` has no table on the way, no bytes and no
parser: what a line means is said in `CmdMeaning`, which divides a line by the
places where options begin, and takes of each variable the last value. A UI whose table
is wrong may pass on a line that is not well-formed: such a line is about a command with
a buffer (`Unchecked`), and `Refuse` is what the menu promises of it, that no variables but its
own command's are touched. `ToldBy`
is the refinement mapping's decoder of packets. The loops of the code
(`wcstok`, the digits of a number, options, values, fields, TLVs, commands) are instances of
`Loop` with the body of the loop as `Step`, repeated at least as often as the code could;
a loop that is over changes nothing. The loops over TLVs make `Len(buf) \div 2` passes, as a
TLV has two bytes at least. The handshake is one step (its interleavings are
`UiPipe`'s), a text is typed in one step (keys are `LineEdit`'s).

The model assumes that the characters are the 67 of `Alphabet`, words are
shorter than 30, texts shorter than 64 characters (longer ones overrun the UI's heap at the
handshake, section 4), buffers shorter than their options' maxima and lines
shorter than 1024 characters, that the device is connected when a command is
sent (`dev_tx`'s other branch is in `RegionXfer`), and that the files of FRD and
FWR exist. Of a buffer it assumes that the UI, where it reads it as TLVs, finds no name in
it: one more than were counted would be written behind the array of the fields.

### LineEdit and TextLine

`ed` is the line buffer with `n_cur_pos`, `n_end_pos` and the row of the console
around it; each `proceed_*` handler is an operator on it that does to both what
the code does: `memmove` and `memset` with their counts, `WriteConsole` and
the cursor. What `memmove` brings from behind `ca_line` is `Prompt`, the
field that follows it in the structure. `hist` is the ring with its positions
and the template; `file` is the history file, written by `Close` only. Key
events are actions; `PromptRestored` is a message printed by another part of
the UI, which redraws the line. A key without a character types nothing, as
the code's `default` case checks (`"nul"` is not in `Chars`), and a history file is
one that an earlier session saved, without gaps (`FilesAssumption`). `TextLine` is the promise: a text, a position, a
log walked by the arrows. It also states what a user would not expect, because
the code does it: a message resets the line to the text at the last Enter or
Tab, a completion at the end of a full text cuts it, Tab at position 0 may move
the cursor to the end.

## 3. Runs

Twelve runs: six pass, six show a disagreement between the code and one of its
comments. Times are for two workers.

| Run | Checks | Instance |
|---|---|---|
| `DevRxStream` | `AllDelivered`, `Reconnects` | headers of 2 bytes, a log message and two responses, chunks of 0, 1 and 3 bytes, two unpluggings, garbage out of step; 100 s |
| `DevRxReconnect` | `TypeOK`, `ReadArmed`, `ChunkInSync`, `RequestInBounds`, `DeliveredIntact`, `HangsOnlyOutOfStep` | headers of 2 bytes, two log messages and a response, one unplugging, one command, a device that already talks when opened; 50 s |
| `UiPipeRestarts` | `TypeOK`, `LockStep`, `SlotsInOrder`, `TableCompleteIfQuiet`, `SessionsAgree`, `UiNotParked`, `IoNotParked`, `ReadsArmed`, `EndsOnRequestIfQuiet`, `BecomesReady` | two commands in the table, the UI quit twice, either process killed, twice in all, one device response, two typed commands; 40 s |
| `RegionXfer` | `TypeOK`, `OneTransfer`, `WaitsForAnswer`, `ImageMatches`, `ValidAtRest`, `ReportFaithful`, `TornWriteShows`, `Completes` | two regions, six files, two file commands, one plain write, one disconnection, one refused read; 55 s |
| `CmdSession` | `TypeOK`, `LearnsPlain`, `IoAccepts`, `SuggestsCandidates`, `NothingRefused`, `CompletesName`, `IsMenu` | up to three texts typed, a long buffer among them, one completion at any of the last three places, one restart, one response; 105 s |
| `LineEdit` | `TypeOK`, `LineTerminated`, `ScreenShowsLine`, `ScrollRoundTrip`, `IsTextLine` | five key events, a line of 4 characters, a ring of 4 lines, empty or wrapped; 40 s |
| `DevRxStaleLog` | violates `LogMessageIsFull` | a disconnection in the middle of a log message |
| `DevRxEmptyResponse` | violates `EmptyResponseCompletes` | a response without payload |
| `UiPipeTwoMessages` | violates `EndsOnRequest` | a response queued while the UI handles a message |
| `UiPipeStolen` | violates `Reconnects` | the IO process is replaced once |
| `RegionXferHalfBlock` | violates `ImageMatches` | a block of two bytes |
| `CmdSessionValues` | violates `SetsAsSaid` | a line that leaves an option out and has a number that cannot be read |

What the passing runs say, beyond the names. *DevRx*: whatever way streams,
chunks and reads are cut, nothing is lost, mixed or repeated on a connection
that started between two chunks, the endless loop for an unknown mark is
reached only on one that did not, a read is always posted, and one that is
posted asks for at least one byte and for none of the next message or chunk. A
device that is plugged in is opened in the end, unless it is pulled out again or the
loop is in that endless loop, which the run reaches: a connection opened in the
middle of a response makes the handler find an unknown mark, and no later device
is ever opened.
*UiPipe*: the handshake stays a dialogue, with at most one of its messages
under way in both directions, which is what the single buffers lean on; the
definitions land in their slots although only START sets the cursors; the IO process
takes what it reads for commands only of a UI that has announced itself on this very
connection (`SessionsAgree`; whether that UI has the whole table is
`TableCompleteIfQuiet`); neither
process is left in RISE or FALL with nothing to wake it. `LockStep`,
`SlotsInOrder`, `UiNotParked`, `BecomesReady` and the two named `IfQuiet` speak of
behaviours in which the device has not answered yet (`Quiet`), because an answer
at the wrong moment breaks them, which is what `UiPipeTwoMessages` shows (and
section 4); `TableCompleteIfQuiet` and `BecomesReady` leave out killed
processes too. The other properties hold with answers and kills. *RegionXfer*: a file
command is never without an answer under way, a user's WR8 in the middle of an
FWR, whose answer cannot be told from the FWR's own, does no harm to image or
checksum, and a report says what is in the target when it is written, even if
an FWR before it was sped up by such an answer. `Completes` is about files that
have what the code needs: nothing malformed, and in a write no block without
data, which ends the process. *CmdSession*: the UI
steps over a buffer's value with a length that it does not have (`cmd_lib.c`
357), and after a long buffer and a restart the table that it learns is wrong
(`TableIsRight`), with BUFF a text: the run goes there, and enters a line that only such a
UI accepts. Whatever the buffer, the commands without one are
learned as they are, and what the UI accepts of them the IO process accepts, in
whatever state its variables are, and every well-formed line of them whose values fit
passes; with a right table all this holds of all commands, Tab goes on exactly as far as the
candidates agree, at any place of the line, and Tab Tab lists them. In either case
what the device is told are the values of the line, and of lines before for the options left out;
a line that only a wrong table let through is refused by the IO process, and changes
no variables but its own command's. *LineEdit*: section 2.

The bounds. Chunks of 0, 1 and 3 bytes cut messages of 3 and headers of 2
bytes in every way there is: at, before and after each boundary; 0 is an empty
chunk. Headers of 2 bytes in both streams are enough, as the code never
uses that they differ but at 1314 (finding 2). Two responses and two unpluggings are what
it takes to get into a response out of step, to hang, and to be plugged in once more.
A second message is needed for what one leaves to the next, a third
repeats it. `WireCap` = 1 keeps few bytes under way: the loop reads at most
one piece at a time, so more of them would only wait. Two commands make a table
with a first, a next and a last entry. Two file commands are an FRD after an
FWR and the reverse, one plain write is one foreign answer in each place. The
regions of 8 and 10 half-words hold blocks at the first, the middle and the
last word. Three characters (two that differ in case only), lines of at most
four and repeat counts of 1 and 2 reach the full buffer, the insertion that is
cut, and the deletion longer than the rest; five keys suffice for two entries
and a walk, and the wrapped ring with a saved position is an initial state.
The texts of `CmdSession` are whole commands with options of each type, in and
out of order, twice, unknown, without a value and with one that cannot be read,
and beginnings of names that match no, one or several commands, in both cases;
three of them make a queue of two behind a command that is being handled. The
bytes 65 and 32 in a buffer are TLV types; the buffer `1 0 0 0 0 65 4 1 0 0 0` is read by the UI
as a TLV that makes BUFF a text; the long response covers the
definitions that the UI has read. One restart shows either process with what
the other has forgotten.

Deadlock is checked in the UiPipe runs and in those of DevRx that show a violation. It is off in
`DevRxStream` and `DevRxReconnect` (a handler may hang, and the bounds end), in `RegionXfer` (the
process may halt, and the bounds end), in `LineEdit` (`MaxKeys` ends it) and in
the CmdSession runs (the texts end).

Fairness. `DevRx` assumes that the loop goes on (its wait has a timeout), that
the driver ends reads (it has one, 200 ms, too) and that the device sends what
it has begun; `UiPipe`, that both loops go on (100 ms timeout; blocking calls of
the IO side return when the event is set). `RegionXfer` assumes that the device
answers what reaches it and the loop takes the answer; nothing about users,
cables or crashes is ever fair. `Completes` is conditional on no failure of the
device, as the code has no timeout for an answer.

Each property of a passing run has a mutant: a named wrong version of a
definition, kept next to it, for which the run finds the property violated;
`PROJECT.json` lists them. They are not part of the specifications.

## 4. Findings

1. `DevRxStaleLog` (`dbg-io.c:1434`): a reconnection does not reset the streams;
   a log message cut off by a disconnection is completed with bytes of the next
   connection and printed as one ("Full DBGL message received").
2. `DevRxEmptyResponse` (`dbg-io.c:1314`): "Check is payload present" compares
   the size with that of the header; a response without payload is not
   processed. `dw_btr` stays at what is there, so the next read for the stream has length
   zero, ends with no bytes, is taken for a timeout and repeated (1553-1557) for
   ever: nothing more is received, of either stream, on a connection that is not dropped.
3. `UiPipeTwoMessages` (`dbg-ui.c:378`): a read that succeeds at once counts as
   failed, and the UI process ends.
4. `UiPipeStolen` (`dbg-ui.c:816`): to see whether the server is alive, the UI opens
   the pipe once more and expects it to be busy. When the IO process has been
   replaced, the open succeeds: the probe is the new server's only client, its
   handle is never closed, and the UI finds the pipe busy for ever
   ("Automatically connect/disconects from IO pipe").
5. `RegionXferHalfBlock` (`io_avrb_dev_cmd.c:527`): a block that is not 4 bytes
   long goes into the image with 4 and to the device with its own size; the
   region ends up with a checksum of something else.
6. `CmdSessionValues` (`cmd_lib.c:84`, `cmd_lib.c:251`), two disagreements in one
   line. After `wr8 -buff 5`, `wr8 -addr q` is carried out: q cannot be read and counts for
   nothing, though 201 says "l_rc == TRUE only if field found and specified value
   fit to field"; and it writes the 5 of the line before, though the help
   (`dbg-ui_inp.c:659`) says "Default values are used for unspecified options."
   `SetsAsSaid` follows from either comment. `CmdMenu` says what the code does: a
   value that cannot be read leaves the variable, and an option left out has the
   last value that was set.

Met while modelling, without a run of its own:

- a handshake message can be overwritten while it is parsed: `io_pipe_rx_proc` posts
  the next read into the same buffer first (`dbg-ui.c:603`). With a response in
  between, START is acted upon twice, the two cursors part and the table is announced
  incomplete ("UI init completed"): TLC finds `TableComplete` of `UiPipe` violated as an
  invariant with the constants of `UiPipeTwoMessages.cfg`;
- a `FALL` set by a read that fails while another message is handled has no event
  (390 in `dbg-ui.c`); a killed IO process can leave the UI with a pending FALL
  that frees the table of the next connection; 507 uses `b_len`, a member that
  `T_RAW_BUF` no longer has (`dw_len` now);
- the unknown mark of a log header leaves the stream full (1233 in `dbg-io.c`,
  "Something wrong. Reset pipe"): the next reads have length zero, as in finding 2, for ever;
- a block without `data`, which `mem_file.c` (129, 147) allows, makes FWR read through NULL
  (`io_avrb_dev_cmd.c` 522), and the IO process ends with the region half-written;
- `get_tlv_v_raw_n` (`cmd_lib.c` 357) takes the first byte of a buffer for its
  length: right by luck for a buffer of at most four bytes. In a
  longer one the UI reads data as TLVs: after `wr8 -buff 1 0 0 0 0 65 4 1 0 0 0`
  (65 is the TLV of a type) and a restart of the UI it takes BUFF for a text, and
  passes on `wr8 -buff a b`, which the IO process refuses. `CmdSession`
  goes there; what holds all the same is proved in section 5;
- texts: `get_tlv_v_str_n` (`cmd_lib.c` 317-326) allocates `n_max_len` bytes, 128, and copies
  the whole value, two bytes a character: a text of 64 to 126 characters overruns the UI's
  heap at the handshake, and `LearnsPlain` is not about such texts. `add_tlv_str` drops strings of more
  than 126 characters. The UI's parse, which is not to update anything, writes
  the blanks between the words of a text into its copy of the value (116-118), at places
  that may lie behind its end; nothing else reads that copy as a text;
- RAW8 and RAW16 read decimal numbers only (0x10 is 0);
- WR8 and WR16 ignore ADDR: the packet's address is 0 (`io_avrb_dev_cmd.c`
  211-227). RD does nothing;
- completion: "go" and Tab gives "GO -", which the parser refuses; BR gets its
  " -" only when the value of ADDR is not zero, as 238 compares the union with
  NULL, though 237 says "If atleast one field exist, add space" (`CompletesName` allows
  the " -" and does not require it); the last word is completed as an option's name where it
  is a value too.
- `dev_open` (`dbg-io.c` 880) creates an event object in each attempt and does not close it
  when the device is absent: one handle per pass of the loop.

Further ones are under `hazards`.

## 5. Proofs

Eight modules hold proofs, for every value of the constants (`CmdParseProofs` and
`Loop` the lemmas that `CmdSessionProofs` needs); no step is taken on trust. Each theorem follows from an inductive invariant, by one lemma per
action (or per group of actions with the same effect) and a last temporal step.

| Module | Theorem | States |
|---|---|---|
| `DevRxProofs` | `Inductive`, `TypeCorrect`, `AlwaysArmed`, `Framing`, `NeverLosesPlace` | `IInv`, `TypeOK`, `ReadArmed`, `FrameInv`, `ChunkInSync` |
| | `InStepInvariant`, `MessagesIntact`, `RequestsInBounds`, `HangsOnlyIfOutOfStep` | `MessageInv`, `DeliveredIntact`, `RequestInBounds`, `HangsOnlyOutOfStep`, if `MessagesProper` |
| `UiPipeProofs` | `TypeCorrect`, `IoWoken`, `UiIsWoken`, `Armed`, `Agreement`, `OneMessage`, `InOrder`, `Complete`, `EndsOnlyOnRequest` | all properties of `UiPipeRestarts` but `BecomesReady` |
| `RegionXferProofs` | `TypeCorrect`, `OneAtATime`, `NeverUnanswered`, `ImageIsTarget` | `TypeOK`, `OneTransfer`, `WaitsForAnswer`, and `ImageMatches`, if `DwordBlocks` |
| `RegionValidProofs` | `TargetIsValid` | `ValidAtRest`, if `FilesFit` |
| | `ReportsAreTrue` | `ReportFaithful`, if `DwordBlocks` and `FilesLie` |
| `LineEditProofs` | `Invariant`, `TypeCorrect`, `Terminated`, `ScreenFollows`, `ArrowsUndo` | `EditInv`, `TypeOK`, `LineTerminated`, `ScreenShowsLine`, `ScrollRoundTrip` |
| | `Implements` | `IsTextLine` |
| `CmdSessionProofs` | `TypesHold`, `PlainLearned`, `LinesAccepted`, `CandidatesSuggested`, `NothingIsRefused` | `TypeOK`, `LearnsPlain`, `IoAccepts`, `SuggestsCandidates`, `NothingRefused` |
| | `SessionIsMenu` | `IsMenu`, if `ValuesFit` |

*DevRx, types.* `TypeOK` is not a formality: `stream_len' \in Nat` is the
statement that the unsigned `dw_stream_len` is not reduced below zero. It is not
inductive: one has to know that a posted read is no longer than what is left of
the chunk, and for that, that what a read has received is no longer than what
it asked for. `ReadArmed` speaks of the loop when it waits, while the read is
posted, or FALL flagged, in the step before. Hence

    IInv == TypeOK /\ ReadFits /\ Armed

*DevRx, chunks.* `ChunkInSync` is about the place of the next byte to be read.
That byte was sent before, so the invariant has to say of *all* bytes in hand
and on the line that they are one chunk after another, up to the chunk the
device is in (`LineFramed`), and that the loop's count `stream_len` is what is
left of the first (`ChunkCounted`). A connection opened in the middle of a chunk
is left out by the property itself (`clean`). The lemmas `Framed*` say
how a header, a byte and a cut change the framing; nothing is assumed of
messages or chunks.

*DevRx, messages.* Its first part gives the device's half: what it sends was
queued (`SentKnown`), its place in each stream (`TxPlaced`), chunks are
opened for no more than is queued (`Backed`), and the bytes on the line are of
messages sent (`OnlySent`). The second adds the IO process: the buffer
holds the beginning of the next message and `dw_btr` is the length that is known
so far (`Buffers`), the read is for the bytes after it and within the message
(`ReadInStep`), and the line goes on from there (`LineInOrder`).

    FrameInv   == IInv /\ Numbered /\ Frames
    MessageInv == FrameInv /\ DeviceInv /\ Buffers /\ ReadInStep /\ LineInOrder
                  /\ DeliveredIntact /\ HangsOnlyOutOfStep

`MessagesProper` leaves out what finding 2 shows to be misread, responses with
no payload or one as long as the header, and log messages without a text, whose
header would be the whole message. The instance of `DevRxReconnect` satisfies it.

*UiPipe.* What each end knows of the pipe (`IoSide`, `UiSide`) shows that neither
waits with nothing to wake it; that READY and `io_ui` do not outlive a connection
(`Sessions`) gives `SessionsAgree`, kills included. The rest is
about the handshake as a whole, while the device is silent (`Quiet`): one message at
most, wherever it is (`Alone`, which counts the queue and the reads on both
sides), that message bears the number that the cursors are at (`Numbers`), on a pipe
that was empty when it began (`Silent`). The slots follow. That the table is full
when READY is sent needs an IO process that stays, too (`Unbroken`, `Filled`). The
argument is the reason why the protocol works without ever sending a
cursor; it fails as soon as anything else may be sent, which is what finding 3
and the overwritten message of section 4 say.

*RegionXfer.* `Control == Types /\ Sized /\ Linked /\ Ended /\ OneTransfer /\
WaitsForAnswer`: a transfer is waiting exactly if something it may take for its
answer is under way. `CrcIsNumber` says that `crc16` returns a number (it returns
a WORD). For `ImageMatches` the image is compared with what the target *will*
hold once the writes under way have arrived: `ImageParts == Fresh /\ InMemory /\
ImageMatches`, where `Fresh` says that what is under way behind the read of the
image changes nothing (`Harmless`), so that the answer is still true when it is
taken. The hypothesis `DwordBlocks` leaves out exactly finding 5. For `ValidAtRest` (`RegionValidProofs`), each
region has its checksum now and after any prefix of the writes under way
(`Untouched`), but the one that a transfer is at work on, and for that one the
steps of FWR are followed to its checksum (`FromFile`, `LengthRead`, `Measured`,
`Summed`). `FilesFit` says what a file has to be: regions
in memory that do not overlap, blocks within their contents, and checksums right
at first; it is what the code takes for granted, and what the run's files
satisfy. As in the property, the line is not cut and the device does not refuse.

`ReportFaithful` holds on any line; only a read that is refused is left out, as in
the property. The danger is the file before: an answer to a plain write may end an
FWR early, and FRD then begins while the writes of that FWR are under way. Four
things follow. Where regions lie and how long they are does not change, as no
command under way covers a length (`Settled`). The answer FRD takes is that to its
own read, as there is one read at most, and none unless it is awaited
(`OneRead`). That answer is still true when the report is written: a write under way
was sent before the first read, so it has arrived when that read is answered, and FRD
itself sends none (`Quiet`; before the first answer by the place of the read on the
line, `Behind`, and then for good, `Still`). And the report so far is that of the
regions before the current one (`SoFar`, `AtRegion`), so each answer extends it by
one. The inductive invariant is

    Control /\ Dwords /\ Settled /\ OneRead /\ Report

The hypotheses are `CrcIsNumber` and `DwordBlocks`, as above, and `FilesLie`: regions
lie in memory without overlap, their blocks within their contents; no checksum needs
to be right. `Settled` repeats what `ValidAtRest` needs of the layout, since
there it is only known while the line is not cut.

*LineEdit.* `EditInv` says that a buffer is terminated where `n_end_pos` says
(`Buffered`) and that the row of the console shows it (`Shows`). Each handler has
a lemma that keeps both, for every repeat count and line length: what
`memmove` and `memset` make of the buffer, what the calls of `WriteConsole` make of
the cells, and that the cursor moves by as much in one as in the other. The
`Prompt` cells that delete moves in from behind the buffer are those that the `memset`
after it clears. `AtStop` is for the arrows: `ThereAndBack` shows that two scans
over a ring of any depth undo each other, if the first began where the second
may stop.

*TextLine.* `Implements` is the refinement, step by step, under the invariant
`TextInv == EditInv /\ NoGaps(hist) /\ NoGaps(file)`. A key that edits: what its
handler did to the cells becomes what it did to the text, which is cut and
joined (`TypedText`, `BackedText`, `DeletedText`, `CompletedText`). Enter: the
ring without the slot that is written next is the log, provided that it fills
without a gap (`NoGaps`), and `add_to_history` appends to it or not, which it
decides by the slot before `n_wr_pos` (`EnteredLog`). The arrows:
positions are counted in lines behind `n_wr_pos` (`Behind`); there the scan over
slots in either direction, which stops at the first match or at the draft, finds
the least or the greatest of the matching lines (`LandsOlder`, `LandsNewer`), the
empty slots never being among them. Prompts and sessions show a text anew.

*CmdSession, loops.* What the parser, the reader of TLVs and completion return they
compute in loops. A loop is the function of the number of its passes (`Loop`), so an
invariant of it is shown by induction over that number. The library's induction
theorems take an operator; `Loop` derives, from the well-foundedness of < alone, induction
for a *set* of numbers, that a pass follows from the one before (`Unfold`), the rule for an
invariant (`Invariant`, a set of pairs of a state and a number of passes), and that a loop
that is over stays so (`Stays`).

*CmdSession, types.* `TypeOK` says that each loop ends with what the next step needs, for
every content of the buffer: that names are texts and what is sent are bytes,
also where the UI reads on at a wrong place. It is inductive as it stands, one lemma
per loop and per message.

*CmdSession, the table.* `PlainLearned` follows the bytes. The message is written
as name, type, size and value, field by field (`FieldParts`, `Written`), so what the UI's
buffer holds are those bytes from its first one on, whatever is behind (`Has`, `HasReceived`). `ReadStr`
and `ReadDword` read a TLV back as it was written. `Reads` and `Counts` say what place the two
passes over the message have come to with what; one field takes each of them to the beginning of
the next (`ReadsField`, `CountsField`), so after all fields they have the fields as
written (`ReadsAll`), then the number announced, and the terminator, where they stop in time
(`Ended`). The inductive invariant is

    TypeOK /\ Learns,  where  Learns == table # NoTable => LearnedTable(table, 10)

A buffer is where the argument ends: `AfterRaw` does not lead to the next TLV.

*CmdSession, two parsers.* A line that waits has been accepted by the UI, with a
table of its own, and is parsed again when other lines have changed the variables. `SameShape`
(`CmdParseProofs`) shows that which lines are accepted depends neither on the values nor on
anything of a table but names and types. `LinesKept` says for any set of texts that the
lines in `rd` and `up_q` belong to it, if those do that the UI takes for commands: of what is
written some is lost, nothing changed. It is used with two sets: always with the texts that are
accepted with any values of the variables if they are about a command without a buffer
(`AcceptedIfPlain`), and, as long as the table is right, with all that are accepted. A table that
is right now was so when each line that waits was passed on, as a connection, the only step
that learns a table, finds the IO process with no line (`LinesOfTable`). Hence

    TypeOK /\ Learns /\ LinesIn(AcceptedIfPlain) /\ LinesOfTable

*CmdSession, Tab Tab.* `cmd_suggest` writes the line in upper case and then divides it, completion
divides it as it is, and each compares names in its own way. `TokensUpper` shows that the words of
the upper-case text are the upper-case words, one pass of the one division against one of the other
(`UpperStep`). A first word is then looked up alike: as no command's name begins
another (`OneCommand`), more than one match means that none is exact. `SuggestsIs`
compares what is listed with `Candidates` in the three cases: the options of a command, nothing after a
word that is no command, the commands.

*CmdSession, what a line means.* `CmdMeaning` finds the options by their places in the whole line;
the parser goes from word to word, takes values until one looks like an option, and stops where
it refuses a word. `PlaceAfter` says where the option after one is: the first word
that begins with "-" behind its first value. An option takes all its values and leaves the next option
first, if the values are good; if not, it leaves a word first that is no option, which the
next pass refuses (`TakenAt`). A pass of the loop then goes from one option's place to the
next one's or is going to refuse the line (`OnePass`), and the invariant of the loop is that
it is before an option, or behind the last one, with the variables as the options
before say (`OnItsWay`), or that the line is not well-formed and the loop refuses it or has (`Doomed`).
So it accepts just the well-formed lines (`Parsed`), which with the names and types of a right table,
or of a command without a buffer in any table, is `NothingIsRefused`. What one option makes is what it means (`MadeIs`): words joined one
by one with blanks are the text, a buffer filled byte by byte is the bytes of its values, and a number or a last byte
that cannot be read is left out on both sides. Of several options with the same variable the last one counts
(`LatestIs`), as the loop overwrites (`ValueNext`).

*CmdMenu.* `SessionIsMenu` is the refinement, step by step, under the invariant
`TypeOK /\ Learns /\ LinesIn(MenuLines)`, with the lines that are well-formed or about a command with a
buffer: a line that the UI passes on is `Enter` or is lost with
the connection, `IoHandles` is `CarryOut` with `Carried` (`CarriedOut`) for a well-formed line and
`Refuse` for another (`RefusedLine`: the parser writes only through the options of the command that it
found, `UpdateOwn`), the end of a job and a restart
of the IO process are `TransferEnds` and `Forget`, and all else changes nothing that the menu has. That the
device is told what the variables hold by then is read from the bytes: mark, command and length lie in the first six,
and what is behind them is an address, a buffer or a text again (`PacketParts`, `DwordWritten`, `WriteRead`, `TextRead`).
`ValuesFit` says that the variables hold what their C types can: an address of 32 bits without a
sign, a buffer of at most `BDM_WRITE_DATA_LEN` bytes, a text shorter than
`LOOPBACK_STRING_DATA_LEN`. It is true of the run; the model has no longer texts
or buffers (section 6), and an address beyond 32 bits or below 0 would be kept as it
is by `store` and modulo 2^32 by the packet.

The provers evaluate no string, so what the literals of the command table, the
alphabet and the digits are is stated as assumptions of `CmdTable`, `CmdTlv`, `CmdParse` and
`CmdSession`, which TLC evaluates: `CaseAssumption`, `BlankAssumption`, `StringsAssumption`,
`TableAssumption`, `SizesAssumption` (names are short enough for the length byte),
`UpperAssumption` (of `toupper`), `NamesAssumption` (names are in upper case, no command's begins another's,
those of a command's options differ),
`CodeAssumption`, `DigitsAssumption`, `BoundsAssumption`.

The assumptions on constants are named in the modules that declare them, and TLC
evaluates them in the runs: `ConstantsAssumption` in each, `FilesAssumption` and
`MemoriesAssumption` of `RegionXfer` (section 2), and
`FilesAssumption` of `LineEdit` (a history is one that an earlier session saved:
of the right sizes, filled without a gap).

Only model-checked. Liveness (`AllDelivered`, `Reconnects`, `BecomesReady`,
`Completes`) needs fairness and ENABLED, which the provers do not have.
What completion writes into the line
(`CompletesName`) stays with TLC.
`TornWriteShows` is about the code's checksum, `Crc16`, not about any.

## 6. What is not modelled, and why

Contents and size of buffers: `ca_buff` (4096), the UI's 1024 bytes; a length
from the wire beyond them is a hazard no small instance shows; texts, buffers and
words longer than the command tables' maxima, for the same reason. The wording
of responses, help and error messages. Handles and memory (leaks). Console scrolling and lines wider than a row: the model has one
row. Keys pressed before the first prompt, which find uninitialised bounds.
`cmd_io_bdm_fread` and the functions that no table entry reaches. The WebSocket files are not built, `ftdi_d2xx` and
`json-c` are not this program's.

## 7. Plan

Done, in order of importance: `DevRx`, `UiPipe`, `RegionXfer` with `Crc16`,
`LineEdit` with `TextLine`, `CmdSession` with its parts and `CmdMenu`, and the
proofs of all safety properties of the first four that the runs check, the
refinement of `TextLine` included, but for `TornWriteShows`; of `CmdSession`, all but
`CompletesName`, the refinement of `CmdMenu` included. Next:
completion, by the lemmas on loops; a composition of `UiPipe` with `DevRx`'s responses, so
that an answer is followed from the device to the UI.
