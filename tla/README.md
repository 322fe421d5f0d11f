# A verification project for u3-tool

`u3-tool` controls U3 USB sticks: it repartitions them, loads a CD image into
their CD partition, and manages the password zone on their data partition.
This directory holds TLA+ models of the tool, TLC configurations that check
them on small instances, and proofs that TLAPS checks for every instance.
Paths below are relative to the repository: its C sources are in `src/`.

    tlc -workers 2 -config SecurityExclusive.cfg MC_SecurityTool.tla
    tlapm SecurityToolProofs.tla

`PROJECT.json` lists the runs, the code lines each definition stands for, the
hazards, the findings and the theorems.

## 1. The system

The tool is a short-lived sequential process: one action per run. What makes
it hard is that its state is not in the process. It is on a stick that is
slow, can be unplugged or busy, loses answers, counts wrong passwords and
destroys data when they run out, and that other processes may use too.

| part | state it keeps | operations | talks to |
|---|---|---|---|
| actions and `main()` (`main.c`) | action, passwords, sizes, file position, `quit`, exit status | `do_load`, `do_partition`, `do_unlock`, `do_change_password`, `do_enable_security`, `do_disable_security`, `do_reset_security`, `do_info`, `do_dump` | prompts, files, command functions |
| command functions (`u3_commands.c`) | none | one per vendor command, plus `u3_partition` and `u3_enable_security`, which are sequences | `u3_send_cmd` |
| sg and spt subsystems (`u3_scsi_sg.c`, `u3_scsi_spt.c`) | a file descriptor | `u3_open`, `u3_close`, `u3_send_cmd` | kernel, by ioctl |
| libusb subsystem (`u3_scsi_usb.c`) | device handle, two endpoints, the interface claim | the same; a bulk-only transport of its own | the stick, by bulk transfers |
| debug subsystem (`u3_scsi_debug.c`) | none | prints commands | nothing |
| prompts (`secure_input.c`, `confirm()`) | terminal mode | read a line, read without echo | the terminal |
| password hash (`md5.c`, `u3_pass_to_hash`) | MD5 state | `md5_starts`, `md5_update`, `md5_finish` | nothing |
| progress and sizes (`display_progress.c`, `print_human_size`) | none | formatting | stdout |
| the stick (not in the repository) | partition table, CD contents, zone, password, try counter | the vendor commands | everybody |

How they interact: by plain calls downwards, and by one `u3_send_cmd()` at a
time towards the stick. There are no threads and no callbacks except the
signal handler, which sets `quit`. Concurrency comes from other processes, the
owner of the stick, signals, and a stick that is still busy with a command the
tool has given up.

### What makes each part correct

* **Security actions.** No file is lost and no stick is blocked unless the
  user of the very process that does it was warned and said yes. A reported
  OK is true of the stick. `-R` recovers a blocked stick even when it is
  killed between its two halves.
* **CD actions.** No table promises more than the device has. The CD
  partition made is as large as asked for. Writes stay inside it. OK from
  `-l` means the image is there. The copy loop ends.
* **Command interface.** A call that does not fail returns the status of its
  own command, and the stick performs each command at most once. How many bytes
  of data came it does not tell.
* **libusb subsystem.** It keeps that promise over endpoints that can hold an
  old packet, and it always returns. A stick that was opened is claimed, and
  nobody shares it.
* **Information actions.** They print what was read, and the exit status says
  whether it was.
* **Prompts.** A line answers the prompt it was typed at and no other. No
  password is shown on the terminal, and the terminal shows what is typed again
  afterwards. A line that is too long, or ends in the middle, ends the prompt.
* **Password hash.** The digest is that of the whole password and nothing else.

### What is hard to test

Two processes between any two commands; a command executed whose answer is
lost; a kill between two commands; a signal in the copy loop; a late answer
meeting the next command; sector counts at the edge of `uint32_t`; a file that
is a whole number of blocks, so that end of file is only seen by one more read;
the stick's own rounding; another run or the kernel's driver between two calls
of `u3_open()`; a line longer than the password; lines typed ahead; a password
whose bytes just fill a block. The list, with lines, is under `hazards` in
`PROJECT.json`.

## 2. The modules

    ScsiCommand ── SecureZone ── SecurityTool ── SecurityToolProofs
         │                            └──────── MC_SecurityTool
         └──────── CdPartition ── CdTool ────── CdToolProofs
                                      └──────── MC_CdTool
    ScsiChannel ◄── implemented by ── UsbTransport ── UsbTransportProofs
                                      └──────── MC_UsbTransport
    StickLock ◄──── implemented by ── UsbOpen ───── UsbOpenProofs
                                      └──────── MC_UsbOpen
    PasswordHash ── Console ── MC_Console
         │             └────────────────────┐
         └───────────── PasswordHashProofs ─┴── ConsoleProofs
    DeviceReport ── DeviceReportProofs
         └──────── MC_DeviceReport

**ScsiCommand** has one operator, `ScsiCall`: the four outcomes of a
`u3_send_cmd()` call. The command runs and its status is returned; the stick is
busy and refuses; the call fails because the command was lost; or the call
fails though the command was executed.

**SecureZone** and **CdPartition** are the stick: the zone with its password
and try counter, and the partition table with the contents of the CD. The
firmware is not in the repository; these modules are modelled from the use
`u3_commands.c` and `main.c` make of it and from the authors' notes in
`doc/commands.txt`. They are marked external in `PROJECT.json`. They also hold
what its owner does: putting files on it, and replugging it.

**SecurityTool** is `-u`, `-c`, `-e`, `-d` and `-R` from `main()` down to
`u3_send_cmd()`, for a set `Procs` of processes. `pc[p]` is the place of a
process in the code; a step is one answered prompt or one `u3_send_cmd()`:

| label | code |
|---|---|
| `idle`, `open` | start and option parsing, `u3_open` |
| `ask`, `confirm` | the password prompts and `confirm()` of `main()` |
| `tries`, `maxtry`, `last` | the two commands of `get_tries_left()`, the warning before the last try |
| `guess` | `u3_unlock`, `u3_change_password` or `u3_disable_security` |
| `size`, `round`, `secure` | the three commands of `u3_enable_security` |
| `remove` | the `u3_disable_security` of `do_reset_security` |
| `close` | the message is printed, `u3_close` is next |

The other variables are the program's: `given` is `password[]`, `new` is
`new_password[]`, `seen` is `dpinfo.pass_try`. `consent` and `result` record
the answers given and the message printed.

**CdTool** is `-p` and `-l` in the same way: `sectors` is `cd_sectors` and
`cd_size`, `filePos` the number of blocks `fread()` has returned, `blockNum`
is `block_num`, `quit` is the flag of the signal handler. `linked` is the set of
processes whose handle still reaches the stick: a stick that resets leaves all
handles behind.

**UsbTransport** is `u3_send_cmd()` of the libusb subsystem, packet by packet:
each endpoint of the stick holds at most one packet, every transfer may time
out, and a stick may go on with what it was sent. All commands carry the tag 1,
so nothing in a packet tells which command it belongs to; the field `cmd` of a
packet exists for the properties and no action reads it to decide.
`GoesOn` tells the callers apart: every action stops at the first failed call,
except `-D`, which reports it and sends the next command.

**ScsiChannel** is the abstract specification `UsbTransport` implements. It
justifies `ScsiCall`: its fourth outcome makes the command's effect and the
failure one step, whereas a stick can perform the command after the call has
returned. By `ScsiChannel` it never does so after the next call was made, so the
late effect can be placed at the failed call.

**DeviceReport** is what the tool makes of a stick's answers: the questions of
`-i` and `-D` in their order, and the two other readers of property pages,
`get_tries_left()` and `u3_partition()`. A page has whatever length its header
says and is read, in two commands, into an uninitialised structure; `filled` counts
its bytes. `u3_send_cmd()` succeeds whatever number of bytes comes, so each of the two
transfers brings any number up to what was asked. Of fewer than a header,
`hdr->length`, its last field, is not read and may be anything. `short` remembers which
pages this happened to; it is read by the properties only. `used` and `failed` are the questions whose answers were taken and that
failed. `retval` is "unset" until `do_dump()` sets it; an unset value is
returned as any. The other answers go into structures that are zeroed first
(`memset` in `u3_partition_info()` and its like), so that they need no count: what a
short transfer leaves of them reads as zero.

**UsbOpen** is `u3_open()` and `u3_close()` of the libusb subsystem, one step for
each call of the library that can fail or that others can come before:

| label | code |
|---|---|
| `idle` | `locate_u3_device`, for a pair of numbers or for `scan` |
| `open` | `usb_open`, `bNumConfigurations` |
| `configure` | `usb_set_configuration`, whose result is not looked at; interfaces and settings |
| `detach` | `usb_detach_kernel_driver_np` |
| `claim` | `usb_claim_interface` |
| `endpoints` | which endpoint is which; `claimed_fail` |
| `opened`, `command` | between two commands, and in one that may be cut short |

The sticks have descriptors `u3_open()` takes or refuses (`desc`), the kernel's
driver bound or not (`driver`), at most one claim (`claim`), and something left
of an unfinished command or not (`stale`). They are plugged and unplugged, and
their owner binds the driver again, at any time. `shared` marks the processes
for which another one had the claim when they set the configuration, or got it
before they did. `unset` marks those whose `SET_CONFIGURATION` the kernel passed on
and that then stalled or timed out on the wire, which leaves the stick as it was;
like `shared` it is read by the properties only.

**StickLock** is the abstract specification `UsbOpen` implements: a stick is
linked to at most one process, which gets it only when nobody has it. It is
what `Exclusive = TRUE` means in SecurityTool and CdTool.

**PasswordHash** is `u3_pass_to_hash()` and the MD5 code below it, except what the
rounds make of a block: `md5_starts`, then `md5_update` for the message, the
padding and the length, each in the three parts of that function (`Enter`,
`Loop`, `Rest`). A byte is known by where it comes from, so that one that is
lost, doubled or out of place can be told. `blocks` is what `md5_process()` was
called with.

**Console** is what the tool and its user say to each other, character by
character, over a terminal or a pipe. `typed` is what the terminal holds, which
`TCSAFLUSH` drops; `buf` is what stdio has taken from it, which only `fgetc()`
empties. It extends PasswordHash: what was typed is hashed.

| label | code |
|---|---|
| `hide`, `read`, `flush`, `unhide` | the four parts of `secure_input()`; after the last one `main()` takes the password or asks again |
| `switch` | the switch of `main()` and what comes before a `confirm()` |
| `sure`, `drop` | the answer, and the loop that drops the rest of its line |
| `hash` | `u3_pass_to_hash()` and the commands |
| `close` | the message is printed, `u3_close` is next |

In SecurityTool and CdTool each prompt is one step, which is answered, declined
or killed; Console is about what such a step consists of.

### Two subsystems, one constant

With libusb, `u3_open()` claims the interface (`src/u3_scsi_usb.c:226`), and a
second process fails there: `Exclusive = TRUE`. With sg and spt nothing keeps
two processes apart: `Exclusive = FALSE`. Where libusb is so old that detaching
the kernel driver takes away another process's claim, the libusb subsystem
behaves like the others. The claim is a guard of `Open`; that `u3_open()` gives it
is `LockSpec` of UsbOpen, and what follows from it is proved; that the actions take
and give back the stick as the same `StickLock` says is `ImplementsLock` of
SecurityToolProofs and of CdToolProofs.

## 3. The runs

| run | distinct states | shows |
|---|---|---|
| `SecurityExclusive` | 46 992 | two processes, all five actions, with the claim: the try counter does not go stale, OK is true, `-R` knows the password and blocks no stick, no loss without consent; under fairness, a blocked stick whose owner keeps running `-R` recovers |
| `SecuritySg` | 584 750 | the same without the claim: a zone is only replaced after a yes |
| `SecurityRace` | violation | without the claim two processes block a stick without a warning |
| `SecurityChangeResult` | violation | "Password incorrect" for a right password |
| `CdExclusive` | 440 339 | two processes, both actions, with the claim, files that change while they are loaded: all CD properties; under fairness, the copy loop ends |
| `CdTruncates` | violation | a size above `uint32_t` sectors makes a small CD partition |
| `ReportComplete` | 253 270 | all readers of the stick's answers, pages of every length, transfers that come short: no buffer overrun, `-D` and `-p` use whole pages only unless a transfer came short, failures are returned |
| `ReportUnchecked` | violation | `-i` and the try counter use a page whose length nobody compared, although every transfer brought what was asked |
| `UsbOpen` | 88 480 | two processes, two sticks that come and go: an open stick is claimed, and clean unless runs overlapped or its configuration failed on the wire, endpoints are told apart, `StickLock` is implemented |
| `UsbStops` | 583 | callers that stop: answers are their own, the assertion holds, `ScsiChannel` is implemented, `u3_send_cmd()` returns from a dead stick |
| `UsbDumpMixed` | violation | `-D` prints a late answer as that of the next command |
| `Console` | 187 551 | all prompts and the hash, on a terminal and on a pipe: lines are kept apart, passwords are never shown, the echo comes back, MD5 gets the padded password, a prompt never goes over the same input twice, prompts end |

The violations are disagreements between the code and a sentence of the
documentation, a header or an assertion; each is a finding in `PROJECT.json` with
both quoted. Eight more were met and have no run. A transfer that brings fewer
bytes than it was asked for, with a status of zero, is a success: `u3_send_cmd()`
looks neither at the count nor at the residue (`src/u3_scsi_usb.c:361-388`,
`src/u3_scsi_sg.c:142-170`) and passes neither on. So `u3_read_device_property()` can
succeed with a header that was not read (`src/u3_commands.c:107-131`), where the header
file says that "atleast sizeof(struct property_header) bytes will be valid"
(`src/u3_commands.h:104-105`), and `-D` prints, and `u3_partition()` computes with, bytes
that were never read. `WholeUnlessShort` and `EveryReaderChecks` are therefore about
pages whose transfers brought what was asked; without `\ short` in the former,
`ReportComplete.cfg` shows it. `u3_open()` does not look at the result of
`usb_set_configuration()` (`src/u3_scsi_usb.c:204`): a stick that hangs in the command of
an earlier run can let the request stall or time out, the claim succeeds all the same,
and the next command meets what is left of the old one. `CleanUnlessUnset` is
about runs to which this does not happen; without `unset` in it `UsbOpen.cfg` shows
it. A signal in the copy loop of
`do_load()` ends it like the end of the file does, and the tool reports OK for a
part of the image (`src/main.c:234-241`); `OkMeansLoaded` is therefore about runs that
were not interrupted. In `-D`, the late data of one command can be read as the status
of another, and the assertion on the tag stops the tool (`src/u3_scsi_usb.c:384`):
`UsbDumpMixed.cfg` with the invariant `NeverAborts` shows it. `u3_reset()` sleeps for two seconds and
returns whether the stick is back or not (`src/u3_commands.c:417`; the header,
`src/u3_commands.h:246-247`, promises a reconnected device), which no action depends
on. `u3_open()` detaches the kernel's driver (`src/u3_scsi_usb.c:220`) ten lines
above a comment that says not to, "this can cause data loss" (lines 230-233):
`UsbOpen.cfg` with the property `DriverStays` shows it. `confirm()` keeps the int of
`fgetc()` in a char (`src/main.c:64`): where char is signed, byte 0xFF is taken
for the end of the file in spite of the comment "drop any extra chars and the
new line" (line 86), and what follows it answers the next question;
`LinesAreApart` makes an exception for it. And the manual says that `-e` protects the files on the partition
(`doc/u3-tool.1:21`) where the tool itself warns that it deletes them.

Each property of a passing run has a mutant: a version of one definition
with the bug one would fear there (a claim not looked at, an off-by-one in the
tries, a status not checked, a rest rounded up instead of down), under which the
run reports that property violated. The mutants stand before the definitions
they replace, named `...Unclaimed`, `...OffByOne` and so on, and nothing else
refers to them.

### Bounds

* Two processes. Interference needs one other; a third can only repeat what the
  second does, since processes share nothing but the stick. The proofs hold for
  any number.
* Two passwords, `password` among them: a right one and a wrong one, and the
  case of a zone already under the literal `-R` uses.
* Three tries: the decision tells 0, 1 and more apart, so that three makes
  "more" two values.
* A data partition of two sectors: no zone, a partial zone, a full one.
* A device of 7 sectors of 2 bytes, blocks of 2 sectors, sector counts modulo
  16: a device with an odd rest, counts that fit the word but not the device,
  requests that wrap to one sector (33 bytes) and to zero (127 bytes, what
  `-1` becomes). Images: empty, one short block, whole blocks, a short last
  block, one larger than the CD.
* The stick rounds CD sizes up and data sizes down to whole blocks. The proofs
  allow any rounding up and down; only `WritesInside` needs that partitions
  are whole blocks, because the tool compares sectors and writes blocks.
* A page header of 2 bytes, structures of 3 and 4, and pages of 0 to 5: shorter
  than the header, just the header, part of a structure, each structure
  exactly, longer than both. A transfer brings every number of bytes from none to what
  was asked, and a length that was not read is any of 0 to 5. What differs between real sizes is only which of
  these a page is; the proofs hold for all.
* Files of all these lengths may take each other's place between `stat()` and
  `fopen()`, and grow to any longer one while they are read: shorter than, as
  long as, and longer than what was compared with the partition.
* Two sticks of two types and two processes in UsbOpen: the stick that is looked
  for first may be there or not, and two runs meet on one stick or not. The
  descriptors are a good one, one with its endpoints the other way round, and
  one for each reason to refuse.
* Passwords of up to 4 characters, blocks of 8 bytes with a length of 2: the
  message of 2 to 10 bytes ends inside a block, fills it, leaves less room
  than the length needs, and takes two blocks. The proof is for blocks and
  lengths of any size, those of the code (64 and 8 bytes) among them.
* One line is typed ahead: it can be one that was typed before the prompt came
  up. Lines: empty, yes, no, neither at first, with byte 0xFF, and longer than
  a password with a yes at its end; each ends in a new line or at the end of
  the file.
* Three calls of `u3_send_cmd()`: a late answer can meet the next call and the
  one after it. The proofs hold for any number.

### Fairness

Process steps are weakly fair: the operating system runs the tool, and the
prompts are answered. For `ResetRecovers`, each stage of `-R` that is reached
again and again is not killed, refused, failed or declined every single time
(strong fairness of `Advance`, per stage, over all processes): no one run of the
tool has to succeed, but the owner goes on trying. `LoadEnds` needs only that
the process runs; nothing is assumed of its user or the stick. `PromptEnds` needs
that the process runs and that the user, or whatever writes to the pipe, goes on
typing where a prompt waits. It is about each loop over one line: at the end of
the input both `confirm()` and the password prompts ask again for ever, and SIGINT
only sets a flag neither looks at. `SendReturns` assumes nothing of the stick; it rests on the
time-outs of the transfers (`src/u3_scsi_usb.c:330,342,363,375`), which the
action for a failing transfer stands for.

## 4. The proofs

All are for arbitrary constants under the named assumptions of the modules.

**SecurityToolProofs.** `TypeCorrect` and `ReplacingIsConsented` hold with the claim
or without. The argument is `LocalInv`: the types, which action can be at which
label (`ActionAtLabel`), and which labels are only reached through a yes
(`ConsentAtLabel`). With `Exclusive`, `ClaimInv` adds that at most one process is
past `u3_open()`, and the three properties about what the process knows. None
of these is inductive alone: that the counter read is still true needs that
nobody else is there, that an OK is true needs the counter's and the zone's
state at the command before, and `-R`'s second half needs what the first left
behind. From `ClaimInv` follow `TriesAreTrue`, `OkIsTrue`, `ResetIsSure` and the
action properties `LossIsConsented` and `StaysUsable`. The last
(`ResetNeverBlocks`) is what is safety in `ResetRecovers`: while nothing but `-R` is
run, no step blocks a stick that was not blocked. `ImplementsLock` maps the
processes past `u3_open()` to the links of `StickLock`.

**CdToolProofs.** `TypeCorrect` includes that sector counts sent to the stick are
`uint32_t` values. `TablesFit` holds for every device size and every rounding
that rounds up and down, and for any number of processes with the claim or
without; its invariant `TableInv` adds what `do_partition()` knows between its
size check and its command. `OkIsLoaded` needs the claim: `LoadInv` (`LoadCorrect`)
says that the loading process is the only one linked, that file position and
block number move in step, and that the blocks before the block number are the
file's; it is proved for every file, block and device size, and for files that
change. `RequestIsMet` adds in `RequestInv` that the size only grows on its way
to the stick, and that a process that resets a stick it still reaches resets it
to its own table. `WritesAreInside` adds in `InsideInv` that the comparison with
the partition stays true up to the last block; it assumes that the stick rounds
to whole blocks, since the tool compares sectors and writes blocks. `CopyGoesOn` is
what is safety in `LoadEnds`: by `LoadInv`, each step inside the copy loop leaves less
to read and write (`Remaining`), also when the file has just grown. `ImplementsLock`
maps `linked` to the links of `StickLock`; a stick that disconnects gives up its link.

**UsbTransportProofs.** For callers that stop at a failed call, `ExchangeInv`
describes which states of the stick's two endpoints go with which place in
`u3_send_cmd()` (`ExchangeInvariant`). `AnswersAreOwn` and `AssertionHolds` are parts of it, and
`ImplementsChannel` is the refinement: each step is a step of `ScsiChannel` or
changes nothing it sees. `SettledAnswersAreOwn` and `SettledImplementsChannel` say the
same of every caller, `-D` included, for the behaviours in which no call finds the
stick still at something (`CallsSettled`): between a failure and the next call
`HostInv` does not hold, and the rest of the invariant (`LateInv`) does.

**DeviceReportProofs.** `ReportInv` adds to the properties what is in hand between the
commands of a page (`PageInHand`) and that every question so far is taken or
failed, with a return value to match (`Accounted`). A page in use must not be read
again: that rests on no reader asking anything twice (`QuestionFacts`). `BuffersHold` and
`ExitIsTrue` follow for every structure size, every page length and every number of
bytes a transfer brings, a length that was never read included.
`PagesAreWholeUnlessShort` says what the comparison of the length with the structure is
worth: the page is whole unless one of its own transfers came short.
`LongPagesAreWholeUnlessShort` needs one more invariant, `LongInv`: a page that is read,
without a short transfer, to the length its header says, and is at least as long as
its structure, fills it.

**UsbOpenProofs.** For any number of processes and sticks, any bus and any
descriptors. `OpenInv` adds to the types what a handle reaches (`HandleInv`), that a
claim belongs to a process that is past `usb_claim_interface()`, on an interface
without a driver (`ClaimInv`), and where something of an unfinished command can
be (`StaleInv`): only in a stick without a driver, and not in one whose
configuration a process has set, on the wire, with nobody there since. The last is why the
kernel's refusals, which `u3_open()` does not look at, are harmless: a refused
configuration means that a driver was bound, which has cleaned the stick, or that
another process was there. It says nothing of a process whose request failed on the
wire (`unset`): nothing cleans that stick. `OpenedHasAll` and `RefusalsAreHarmless` follow,
and `ImplementsLock` is the refinement of `StickLock`.

**PasswordHashProofs.** The invariant `HashInv` says where the input of the current
`md5_update()` lies in the padded message of RFC 1321 (`PositionInv`), and that the
blocks processed and the bytes held in the buffer are those before it
(`ContentInv`). `HashStaysInStep` proves it for every length of password, every
size of a block and every size of the length field that `PasswordHashAssumption`
allows; `HashCorrect` and `HashStaysInside` follow. The arithmetic it rests on is in
lemmas of its own (`Division`, `DivisionIsUnique`, `HashConstants`, `BlocksAndMore`).

**ConsoleProofs.** All are for any set of lines, any amount of type-ahead and any
length of password. `ConsoleInv` (`ConsoleCorrect`) adds to the properties that stdio
holds the rest of one line at most (`LineInv`), that a prompt in the middle of a
line has the rest of it (`RestInv`), and that nothing that was shown can be
read while a password is asked for (`HiddenInv`). `LinesStayApart`, `PasswordsStayHidden` and
`EchoReturns` follow, and from `RestInv` the action property `PromptsAdvance`: a prompt
waits once at most, and otherwise every turn of its loops leaves less of the
line, the end of the input included. `ConsoleHashes` shows that Console takes only
steps of PasswordHash, so that `TypedStaysInStep`, `TypedIsPadded` and
`TypedStaysInside` follow from the theorems there.

### What the findings need

A violation run shows that a sentence about the code is wrong; for four of the
five a theorem says what it takes, and so that nothing else is wrong with it:

| violation | cannot happen | theorem |
|---|---|---|
| `SecurityRace` | where `u3_open()` claims the stick | `LossIsConsented` |
| `CdTruncates` | where each request is a count of sectors a `uint32_t` can hold (and the stick is claimed) | `FittingRequestsAreMet` |
| `ReportUnchecked` | with a stick whose pages are as long as the structures, and transfers that bring what was asked | `LongPagesAreWholeUnlessShort` |
| `UsbDumpMixed` | as long as no command is sent to a stick that is not done with the last one | `SettledAnswersAreOwn` |

The fifth, `SecurityChangeResult`, takes no more than a stick that is busy once.

### What is only model-checked

`ResetRecovers`, `LoadEnds`, `SendReturns` and `PromptEnds`: liveness under fairness is
out of the prover's reach. What is safety in three of them is proved
(`ResetNeverBlocks`, `CopyGoesOn`, `PromptsAdvance`); `SendReturns` has no loop that
would need it. Every other property of a passing run has a theorem.

## 5. What is assumed, and what is left out

* In SecurityTool a password stands for its hash. MD5 collisions are not
  considered, nor `total[1]`, which the length of a password never reaches.
* The stick's answer to a command that asks for a constant is that constant.
  In SecurityTool property page 0x0C has the expected length and comes whole;
  `ReportUnchecked` shows that the code does not make sure of the length. CdTool gives up on an unexpected
  length of page 0x03, as the code does.
* A `SET_CONFIGURATION` that succeeds resets the endpoints, and the stick drops the
  command it was at. Every `u3_open()` of libusb sends one, does not look at its
  result (`src/u3_scsi_usb.c:204`), and comes to the claim after it. UsbOpen shows
  that the stick is clean after it unless another process had the claim in between or
  the request failed on the wire; in both of these the code goes on with a stick that
  may hold something of an old command. UsbTransport assumes that neither happened:
  its runs do not overlap and their request has worked. `OwnAnswer` depends on it: the
  mutant `OpenAsItIs` leaves it out.
* SecurityTool and CdTool take every answer with status zero for complete. In the
  code a short one is a success too: of the structures that are zeroed first (partition
  and chip information, the try counter) the rest is then zero, of property pages and of
  the rounded sizes (`src/u3_commands.c:261,292`) it is what was on the stack. DeviceReport
  has the pages; short rounded sizes are in no model.
* In UsbOpen the kernel refuses a configuration or a claim while a driver is
  bound or another process has the claim, and its driver resets a stick it finds
  in the middle of a command. A handle of a stick that left the bus stays dead.
* `char` is signed, as on x86, and end of file is sticky, as C99 has it. Where
  `char` is unsigned, end of file never ends an answer to `confirm()`.
* A stick that conforms in this: a status packet is complete. A short one would fail the
  assertion on the tag.
* A stick unplugged in the middle of an action is not a step of its own; the
  tool sees failing calls, which can happen at every command.
* A file that is loaded keeps the bytes that have been read; it may be replaced
  before it is opened and appended to until its end is read.

Not modelled:

* what sg and spt do in the kernel: of their `u3_send_cmd()` only the result is
  modelled. SG_IO restarted after a signal, which sends a command twice, is
  listed as a hazard;
* the debug subsystem (no state), error texts, what `-i` and `-D` print, the
  progress display and the sizes in words: no decision depends on them. The
  sizes decisions do depend on, those of `-p` and `-l`, are in CdTool;
* `strtoll()`: `Requests` are the byte counts it gives;
* the MD5 rounds, a function of the block.

## 6. Order of the modules

The models were written with the most important behaviour first, and the
order is also a good one to read them in:

1. `ScsiCommand`, `SecureZone`, `SecurityTool`: the data-destroying decisions.
2. `CdPartition`, `CdTool`: tables, reset and the copy loop.
3. `ScsiChannel`, `UsbTransport`: the transport and its refinement.
4. `DeviceReport`: property pages and the information actions.
5. `StickLock`, `UsbOpen`: opening, the claim, and what the refused calls leave.
6. `PasswordHash`, `Console`: prompts, the terminal, and the hash.

Each has the proofs of all the safety properties its runs check. What remains
open is a composition of the tools with `ScsiChannel` in place of `ScsiCall`:
their actions would be the same with one more place to stop in each call.
