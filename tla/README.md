# A TLA+ model of rpibld

rpibld is a bare-metal bootloader for the Raspberry Pi 4 (`src/bld`), with a program for the
host, the imager (`src/img`), that writes the image it boots. The imager packs a kernel and a
device tree blob into one file and stores it on a partition of an SD card. The bootloader runs
on one core without an operating system: it brings up the card, finds the partition, loads the
two files to fixed addresses, and jumps. Every failure ends in `signal_error()`, which blinks an
LED until the power is cut.

This directory holds the modules, the TLC configurations (`*.cfg`) and the proofs.
`PROJECT.json` lists components, runs, mutants, findings, hazards and theorems, and maps every
definition that models code to its lines. To check a run, `tlc -config Boot.cfg MCBoot`; to
check proofs, `tlapm SdReadProofs.tla`. A module of proofs has the name of what it is about
(`UartProofs` is about `Uart` and its use by `SerialLog`).

## 1. Inventory

| Component | State it keeps | Operations | Interacts with |
|---|---|---|---|
| SD commands (`sd/cmd.c`, `sd/reg.h`) | EMMC2 registers, the error of the last command | `sd_issue_cmd`, `sd_wait_for_interrupt`, `sd_issue_read_cmd`, the wrappers `sd_issue_cmd3` .. `sd_issue_acmd51` | the host controller and the card, concurrently, through registers; the timer, for timeouts |
| SD reads (`sd/sd.c`, second half) | loop counters, `struct card` | `sd_read_blocks`, `sd_read_bytes` | SD commands |
| SD initialisation and reset (`sd/sd.c`, first half) | `struct card`, controller registers | `sd_init`, `sd_reset` | SD commands, the VideoCore, the card |
| Imager (`img/img.c`, `include/img.h`) | image in memory, position in it, the partition | `build_image`, `image_append_item`, `file_write` | the files, the partition; the bootloader later, by the card alone |
| Boot flow (`boot.c`, `addrmap.h`, `heap.c`) | RAM, position in the image | `init_peripherals`, `load_mbr`, `load_image_head`, `load_item`, `load_image_items`, `boot_kernel` | SD reads, MBR, error signal |
| MBR (`mbr.c`) | none: a view of a block in RAM | magic, partition number, start, length | boot flow |
| Timer, interrupt controller (`timer.c`, `ic.c`, `int.c`) | queued timers, pending interrupts | `usleep`, `timer_poll_start`, `timer_poll_done`, `timer_isr`, `ic_irq_exception_handler` | everyone who waits |
| VideoCore mailbox, tags (`vcmailbox.c`, `tag.c`) | property buffer on the heap, two message registers | `vcmailbox_request_tags`, `tag_clock_get_rate`, `tag_power_get_state`, `tag_gpio_get_state` | SD initialisation, UART; the VideoCore, concurrently |
| Error signal (`error.c`, `led.c`, `gpio.c`) | GPIO pins | `signal_error`, `led_init`, `led_turn_on` | every component, at the end |
| Serial log (`debug.c`, `uart.c`) | UART registers | `serial_log`, `Vsnprintf`, `uart_init` | every component |
| Helpers (`mmio.c`, `help.c`, `bits.h`) | none | register access, `mcopy`, `while_cond_timeout_infinite` | every component |
| Entry (`entry.S`, `boot.ld`) | stacks, processor mode | set-up and jump | boot flow |

What is hard here, and what has to hold:

* **Driver against hardware.** The driver polls a register that the controller changes whenever
  it likes, and clears flags it may not have looked at. A wait must not be satisfied by a flag
  that belongs to something else, the copy loop must not read an empty buffer, and every wait
  must end.
* **Long reads.** A read is cut into passes of at most 65535 blocks, done in one of three ways,
  with addresses in blocks or in bytes and 32 bit arithmetic. Success must mean that every block
  is in its place, and failure that nothing else has been touched.
* **The card's own state machine.** The firmware has used card and controller before. Every
  command must come when the card can serve it, and after `sd_init()` the two must agree on
  address, width and clock.
* **Two programs that share only a format.** The imager may fail or be interrupted over an older
  image; the bootloader then has nothing but ids, sizes and magics. The kernel that starts must
  be the one that was imaged, and no load may overwrite an earlier one.
* **Shared memory without an allocator.** MBR, image head, end item and the property buffer use
  the same address, and RAM holds what an earlier boot left.
* **Time.** The counter that every wait is measured with wraps around every 71 minutes. One build
  polls it; the other sleeps until an interrupt that may come before the core sleeps. No wait may
  be shorter than asked, or endless.
* **A second processor.** The VideoCore answers in place, in a buffer of the core's, and says so
  in a mailbox that anyone may write to. An answer must be the one to this request.
* **Signals to the user.** The code of an error must be readable off the LED, and the log must be
  what was logged; both have only the timer, a UART that may be stuck, and no second chance.
* **Limits.** Block counts of 16 bits, products of 32 bits, a clock divider of 8 bits, a kernel
  that ends right at the device tree blob.

`PROJECT.json` lists these as hazards, each at its line, with the properties that would catch it
going wrong, or what is missing for that.

## 2. Modules

    BlockTransfer  <--refines--  SdCommand      one command, register by register
    BlockRead      <--refines--  SdRead         one read, command by command
                                 SdInit         sd_init() and sd_reset()
    Image <- Imager <- Boot                     format; writing it; booting from it
    Timer <- ErrorSignal                        waiting, both builds; blinking an error
    Uart <- SerialLog                           sending a message; formatting and logging it
                                 VcMailbox      requests to the VideoCore
    SdCommandProofs, SdReadProofs, SdInitProofs, BootProofs (with the imager),
    TimerProofs (with the error signal), UartProofs (with the log),
    VcMailboxProofs                             theorems about the module of that name
    Induction                                   induction on the natural numbers, for proofs
    MCSdCommand, MCSdRead, MCSdInit, MCBoot, MCTimer, MCErrorSignal,
    MCVcMailbox, MCSerialLog                    constants for TLC

The levels meet in one contract each. A command copies its blocks in order and may fail after
any of them: that is `BlockTransfer`, which `SdCommand` implements, and it is all that `SdRead`
assumes. A read copies all blocks or fails after some: that is `BlockRead`, which `SdRead`
implements, and it is what `Boot` uses (`Loaded`, `ReadFails`). `Boot` also has the ways in which
the other modules end a step: a mailbox that fails, a UART that does not take a log
(`log_and_signal`, `WaitTimesOut`).

**SdCommand.** `pc` is the position in `sd_issue_cmd()`, `sd_wait_for_any_interrupt()` and the copy
loop of `sd_issue_read_cmd()`; registers are sets of the bits that are high. Reading `INTERRUPT`
(`PollInterrupt`) and writing it back (`ClearInterrupt`) are separate steps, and so are
`usleep(50)` with the look at the timer, the write of `CMDTM`, and the copy of a block. The
controller and the card (external) answer, raise an error instead, fill the buffer, complete the
transfer, or release a busy line, between any two of them. `Quirks` says how far the hardware
may go: errors, answers that never come, data before the driver has seen the command complete, a
busy phase that outlasts the answer. It is chosen once per behaviour, from `Boards`. `stale` and `dat_stale` are history: which flags do not
belong to the current command.

**SdRead.** Both loops of `sd_read_blocks_card()` and `_sd_read_blocks_card()` with their
variables, additions and products modulo `WORD`. `written` is the set of pairs of RAM address and
card block that the current call has copied.

**SdInit.** One step per command and per access that matters: reset, power, clock, interrupt
masks, then the commands in the order of the code (`Then`). The card (external) accepts each
command in its states only (`AcceptedIn`), and needs a clock it can follow and the bus width it
is set to; `broken` collects every reason for which a command that was sent could not have been
served. Initially the card, the controller and the VideoCore's settings are in any state the
firmware may leave them in. The test of the voltage window is modelled as C parses it.

**Image, Imager.** Cells of 32 bits stand for memory and storage; a cell says what it is and
which run of the imager wrote it. The imager builds head, kernel, device tree blob and end item,
then writes from the start of the partition, block by block, as many blocks per `write()` as that
takes. A run fails where the code can fail. What `write()` accepted reaches the card when the
file is closed; if the machine stops before, *any* subset of the accepted blocks may have reached
it, as nothing asks for an order. `whole` is the run whose complete image the partition holds.

**Boot.** One action per function of `boot.c`, with its checks in their order. The board can be
switched off at any moment, RAM keeps its contents, and the card moves between the computer and
the board. Addresses, block size and word size are constants. Two things that the code leaves open
are choices: what was never written may be zeros, which are an end item, and after the string of an
unknown item is asked for (`stritem()` returns none) the program may be `lost`.

**Timer.** The build (`ENABLE_GIC`), and whether WFI also returns without an interrupt
(`OtherWakes`), are chosen once per behaviour, from `Builds`. `Tick` is the counter, modulo `TICKS`; it may run up to `LAG` ticks between two steps of
the core. `usleep()` is either the polled loop (`Spin`) or, with interrupts, the read of the counter, the
reset of the flag, the write of the compare register, WFI and the look at the flag as steps of
their own (`usleep` to `CheckServiced`); the exception may be taken before any of them, and the
handler and `timer_isr()` are steps as well. Of the timer's channels only the bootloader's is there.
`while_cond_timeout_infinite()` polls its condition and the timer in turn. `start` and `elapsed` are
history.

**ErrorSignal** extends `Timer`: `signal_error()` between the sleeps, the LED as a pin of a function
select register that is written whole. `seen` and `dark` are what the user counts. In the build with
interrupts, these may be enabled or not when the error happens.

**VcMailbox.** The heap as words by address, so that the layout that `build_property_buffer()` makes
and the walk of `return_tag_responses()` can disagree. The core writes and reads the two mailboxes; the
VideoCore (external) takes a message, answers tag by tag in place, sets the response code, replies.
Every answer carries the number of its request. `Quirks` says what may go wrong, as in `SdCommand`.

**Uart.** The registers, the transmitter's queue and a receiver set to 115200 8N1, that reads a
character only if pin, rate and data size are right when it leaves the queue. `UartSpec` has any
caller of `uart_transmit()`; the runs have the one of `SerialLog`.

**SerialLog** extends `Uart`: after `uart_init()`, or in the middle of it if that fails, a program logs
one message after the other. One step of `Vsnprintf()` per character or conversion, first from the template to
`newfmt`, then from `newfmt` to `buf`, while the transmitter drains what is left of the message before;
both buffers start with what an earlier message left. The reference at the end of the module says what a
format should give.

## 3. Runs

| Run | States | What it shows |
|---|---|---|
| `sd_command` | 748 973 | A board with all quirks at once and one with none. A command that succeeds has moved exactly its blocks (`ImplementsBlockTransfer`, `NoUnderrun`), no wait is satisfied by another command's flag (`NoStaleCompletion`), a transfer leaves lines, buffer and flags clean (`QuietOnSuccess`), every command returns (`CallReturns`); with hardware that answers correctly and in time every command succeeds (`CallSucceeds`), as long as the counter does not overflow during a wait, which `timer.h:50` assumes. |
| `sd_command_fast_data` | | Violation, finding 1. |
| `sd_read` | 42 481 | Reads of 0 to several passes, to the last byte of RAM and of both kinds of card, a failure at any command: `ReadInFull`, `NothingOutside`, `ImplementsBlockRead`, `ReadReturns`. |
| `sd_init` | 8 180 | Every card and every state left by the firmware, every command and wait may fail: `NeverOutOfTurn`, `InitAgrees`, `ResetToBoot`, `InitEnds`. |
| `sd_init_voltage` | | Violation, finding 2. |
| `boot` | 2 090 545 | Two runs of the imager, each whole, failed or interrupted, any number of boots: `BootsWhatWasImaged`, `LoadsDoNotOverlap`, `ReadsWithinImage`, `RefusedForAReason`. |
| `boot_overflow` | | Violation, finding 3. |
| `timer` | 1 144 089 | Both builds, sleeps and waits that start at any time. Polls end early only while their timestamp has overflowed and the counter has not, sleeps by interrupt only after a WFI that returned without one (`NeverEarly`); late are only polls whose timestamp is among the last values of the counter, and sleeps by interrupt that are too short or were woken otherwise (`NeverLate`); a sleep ends even if its interrupt was missed and a wait ends without what it waits for (`SleepsAndWaitsEnd`). |
| `signal` | 247 302 | The user reads the right code, with polled sleeps until the counter overflows (`SignalReadsAtFirst`), the signal goes on (`SignalsForever`) unless a polled sleep misses its timestamp period after period, and the pin of the serial log stays connected (`LogStaysConnected`). |
| `signal_masked` | | Violation, finding 4. |
| `vcmailbox` | 430 036 | A board with all quirks at once and one with none: a caller that goes on has the answer to its own request (`AnswerIsFresh`), the walk meets the tags where they are (`WalkFollowsLayout`), every request ends (`RequestEnds`), and a VideoCore that answers is never refused (`NoFalseAlarm`). |
| `serial_log` | 191 476 | No character is lost, doubled or garbled between `uart_transmit()` and the receiver (`LogIsReadable`); no read or write out of bounds (`InBounds`); the message is the reference, cut to the buffers and wrong formats, and only they, end in the error (`LogsWhatItShould`); a stuck transmitter does not hold the core (`LogCallEnds`). |

Every property of a passing run has a mutant in `PROJECT.json`: a definition that models code,
replaced by one with a plausible mistake (named and placed before it in the module), for which
TLC finds the property violated.

### Bounds

* `MaxBlocks = 3`: a multi block read has a first block, one in the middle and a last one, and
  the loop treats all those in the middle alike. `POLLS = 2`: a wait with a poll that finds
  nothing and goes on, and one that is the last.
* `UINT16_MAX = 3`, `SD_BLKSZ = 4`, `WORD = 64`: passes of three blocks, requests of up to more
  than two passes, around every border, and ending at the last byte. The proofs of section 5
  lift these bounds.
* `TRIES = 3`: a card that powers up at once, later, or not in time. The clock rates are the real
  ones.
* `SD_BLKSZ = 5`, a partition of 6 blocks, `RUNS = 2`: kernels of one block, of the largest size
  that fits, and of one that only just does not; device tree blobs of one block, and of two, of which
  the second is in the heap; an image one block larger than the partition; files with the wrong magic. Two runs are enough for a
  new image over an old one, whole or torn, of equal or other layout.
* `LAG = 2` in `timer` and `signal`: the core may miss values of the counter, so that a polled sleep whose
  timestamp is the last value before the overflow may never see it. `TICKS = 26` in `timer`: each sleep is
  tried at every offset to the overflow. 3 ticks are too short for the build with interrupts, 19 just long
  enough: the core may need 18 to get to WFI if the handler comes in between. `CAP`, two periods, is where
  the count of elapsed ticks stops: at 52, beyond the 51 that a sleep of 19 and its slack of 32 may take. `TICKS = 92` in `signal`, so that a long and two
  short pauses fit into a period. The violation in `signal_masked` needs no more than `LAG = 1`.
* `Errors = {1, 2, 3}`: a signal of a single blink, of two, and one with a blink in the middle. The long
  pause is longer than the short one by more than the slack of a sleep, 32 ticks; 2250 ms and 370 ms are
  so by far.
* `MAX_CALLS = 2`: what one request leaves in heap and mailbox meets the next one. Requests of one tag
  and of two.
* `FIFO_SZ = 3` with messages of up to 19 characters. The core clock is the one of `config.txt`, 250 MHz.
  One message, and two in a row of which the first leaves a full queue and longer texts in both buffers.
* `FMT_SZ = BUF_SZ = 20`: the template takes 15, so that the longer formats end before, at and past the
  end of either buffer; some are cut within a conversion of their own, after its `%` or its width.

### Fairness

* The driver's steps are weakly fair: there is one core, nothing else runs on it, and nothing
  preempts the bootloader.
* The hardware is fair only where it is never late (`"late" \notin Quirks`), and in `SdInit` without
  faults. `CallReturns`, `RequestEnds` and `InitEnds` are checked with hardware that may stop answering for
  good.
* Time is fair (`WF(Tick)`): the counter is driven by a crystal. The transmitter is fair until it is stuck;
  the VideoCore only where it is never late.
* `Boot` has no liveness property and no fairness: its steps follow each other without a loop, and the
  loops inside them are in the modules above.
* The imager is not fair: it may be stopped.

## 4. Findings

1. `sd_wait_for_any_interrupt()` clears every flag it reads (`cmd.c:177`). If the first block is
   ready by the time `CMD_COMPLETE` is read, `READ_READY` is cleared with it, and the wait for it
   times out with the block in the buffer. The read is reported as failed; no data is corrupted.
   `CallSucceeds` shows that nothing else fails a command to hardware that is in time (short of the
   counter's overflow, `timer.h:50`).
2. The check of the voltage window (`cmd.c:374`) is always false because `!=` binds tighter than
   `&`; a card that does not support the voltage is made inactive, which the comment at
   `cmd.c:364` says the inquiry is there to prevent. `InitAgrees` shows that no such card is
   used as if it were fine.
3. The size of the partition in bytes (`boot.c:118`) is computed in 32 bits: an image that fits
   on a partition of 4 GiB or more may be refused.
4. In the build with interrupts, `signal_error()` before `enable_interrupts()` (`boot.c:42`) sleeps
   forever, and no code is blinked. The same holds after `disable_interrupts()` (`boot.c:67`).

The models also show these, which have no run of their own: each is an exception that a property of a
passing run names.

* The end item is padded like the others, and so has a data size of 504 and not 0 as `img.h:60`
  says. The bootloader does not depend on it (`Item`, `validate_item`).
* `load_item()` logs the name of the item it found, and `stritem()` returns nothing for a word that is
  no id (`boot.c:131`, `boot.c:164`). The card of an interrupted imager can hold such a word; what
  follows is undefined (`lost`) where `ERROR_IMAGE_CONTENTS` should be. A whole image never gets there
  (`RefusedForAReason`).
* The device tree blob's size is not compared with the heap's address (`boot.c:200`), although
  `addrmap.h:8` draws a hard border there. Of such a blob, one of more than 128 MiB, the part in the heap is
  lost: the end item is loaded over it. The `boot` run has one, and `BootsWhatWasImaged` and
  `LoadsDoNotOverlap` bound the damage to that part.
* `usleep()` with interrupts looks at its flag and then executes WFI (`timer.c:94`). After a wake-up for
  another reason the interrupt may come in between, and a sleep of any length lasts until the
  counter passes 0. The warning at `timer.h:27` knows this only for very short sleeps; `NeverLate` excepts
  `OtherWakes`.
* `timer_isr()` writes back all matches it reads (`timer.c:84`), and so clears those of the
  VideoCore's channels too. The model leaves these out.
* A polled sleep over the overflow of the counter returns at once (`timer.c:100`): in `signal_error()`,
  which runs for as long as the power is on, two signals run into each other once in 71 minutes
  (`SignalReadsAtFirst` excepts it by `over`).
* A polled sleep whose timestamp is among the last values of the counter may not be noticed in time, and
  then lasts for another period, with nothing but luck to end it in the next (`timer.c:100`). `NeverLate`,
  `SleepsAndWaitsEnd` and `SignalsForever` (`MayMissTimestamp`) except it.
* The check of the reply's channel (`vcmailbox.c:281`) is one of bit 0, again because `!=` binds
  tighter than `&` (`WrongChannel`). `AnswerIsFresh` shows that the other checks still refuse what is not the
  answer.
* A failure of the mailbox in `uart_init()` is logged before the UART is set up (`uart.c:79`), with a
  rate and a data size that nobody can read, although `debug.h:15` and `uart.h:35` ask for a call of
  `uart_init()` before. There are up to two such logs, one of `vcmailbox.c` and one of `tag.c:58`
  (`failing`, which `LogIsReadable` excepts). The error code is still blinked, in the polled build.
* `uart.h:10` reports that the mini UART does not work with the core clock fixed at 200 MHz. Nothing in the
  code explains it: the divisor for 200 MHz is as close as the one for 250 MHz. So the model says nothing
  about other rates; it has the one that `uart.h:7` asks for and `config.txt` sets.

## 5. Proofs

Each module of proofs extends the module it is about. In each, a named invariant is shown to be
inductive, one lemma per action, and the properties follow from it. TLC has checked every one of
these invariants on the instance of the corresponding run before it was proved, so that none of the
theorems is about no state at all.

| Module | Theorems | Property of the run |
|---|---|---|
| `SdCommandProofs` | `TypeCorrect`, `CompletionsAreOwn`, `CopiesTheBlockThatIsDue`, `LeavesNothingBehind`, `SdCommandImplements` | `TypeOK`, `NoStaleCompletion`, `NoUnderrun`, `QuietOnSuccess`, `ImplementsBlockTransfer` |
| `SdReadProofs` | `TypeCorrect`, `ReadIsComplete`, `ReadStaysInside`, `SdReadImplements` | `TypeOK`, `ReadInFull`, `NothingOutside`, `ImplementsBlockRead` |
| `SdInitProofs` | `TypeCorrect`, `CommandsInTurn`, `SuccessMeansAgreement`, `ResetIsComplete` | `TypeOK`, `NeverOutOfTurn`, `InitAgrees`, `ResetToBoot` |
| `BootProofs` | `ItemsFillBlocks`, `KernelClearsDtbHeader`, `TypeCorrect`, `LoadsStayApart`, `WhatWasImagedBoots`, `NothingBeyondTheImage`, `RefusalsHaveAReason` | `TypeOK`, `LoadsDoNotOverlap`, `BootsWhatWasImaged`, `ReadsWithinImage`, `RefusedForAReason` |
| `TimerProofs` | `TypeCorrect`, `NotEarly`, `NotLate`, `TheCodeIsReadable`, `LogIsLeftAlone` | `TypeOK`, `NeverEarly`, `NeverLate`, `SignalReadsAtFirst`, `LogStaysConnected` |
| `VcMailboxProofs` | `TypeCorrect`, `OnlyFreshAnswers`, `WalkIsInStep`, `ObeyedRequestsSucceed` | `TypeOK`, `AnswerIsFresh`, `WalkFollowsLayout`, `NoFalseAlarm` |
| `UartProofs` | `TypeCorrect`, `NothingIsGarbled`, `TheLogIsRead`, `VsnprintfStaysInBounds` | `TypeOK`, `LogIsReadable`, `InBounds` |

**SdCommandProofs**, for every number of blocks and of polls, and boards with any quirks. That no
wait is satisfied by another command's flag depends on what may be raised when: `IInv` says which
flags the controller can still raise at each place of the driver. `CallInv` ties the read loop to
the blocks in RAM; `CmdInv` says that a command is answered once, after it was issued; `RestInv`
that between two commands that succeeded nothing is in the buffer or under way; `DataInv` that
during a transfer the card is ahead of the driver by the block in the buffer, and of the flags by at
most one. The refinement follows action by action, as a copy of a block is a step of `BlockTransfer`
and everything else stutters or ends it.

**SdReadProofs**, for all block sizes that are multiples of 4, pass lengths of at least 2, word
sizes and requests that fit into RAM and card. That a read is complete at its end depends on where
each pass begins. `OuterInv`: the arguments of the next pass are those of the request, moved on by
the blocks of earlier passes. `InnerInv`: the same for the next command within a pass, in the card's
unit of addresses. `WrittenInv`: what is in RAM is the first so many blocks of the request. No
intermediate sum wraps around, since the request itself fits (`InRange`), with one exception: after
the last pass the arguments may point beyond it and may wrap, which is harmless because `nblks` is
then not positive; `OuterInv` speaks of them only while there is a pass to come. `BytesToBlocks` is
what `bytes_to_blocks()` computes.

**SdInitProofs**, for every clock that `ClockAssumption` allows, every card address and number of
tries. The assumption is that the rates of `sd.c:20` are in order and that the base clock divided by
256 is slow enough to identify a card, without which no divider of 8 bits would do, and exact. The loop
of `sd.c:181` compares a quotient that is rounded down, and `DividedClock` rounds up: were the rates not
multiples, the divider found could give a clock a fraction above its target. `Divider` and
`Rates` prove that `sd_8bit_clock_divider()` then finds one, that it fits its field, and that the
two rates lie on either side of the identification rate. `HostInv`, `CardInv` and `KnownInv` say for
each step what controller, card and `struct card` have been brought to; a command is in turn because
its place is one where the card is in the state that serves it.

**BootProofs**, for every block size, address map, choice of files, and number of
runs of the imager. `ItemsFillBlocks`: the imager's items fill whole blocks.
`KernelClearsDtbHeader`: a kernel item of whole blocks that passes the check of `boot.c:188` ends
below the *header* of the device tree blob's item. That check alone does not give it: it compares
with the address of the data. Addresses and items are multiples of a block, so the kernel's data
ends `sizeof(struct item)` before a multiple, and if that is not above `DTB_RAM_ADDR` it is not
above `DTB_RAM_ADDR - sizeof(struct item)` either. `LoadsStayApart` rests on this.

`ImagerInv` says what is built at each step of the imager (`ImgInv`), that writes come in whole
blocks (`AtInv`), and what is on the partition (`PartInv`): the image of `whole`, and, however torn,
no kernel item whose header has another size than some file gives, because header and size are in
one block. That last part is what makes `LoadsStayApart` true of torn images. To this are added
where the bootloader is (`PlaceInv`) and what it has copied (`ItemInv`, `KernelInv`, `DtbInv`).
`RefusalsHaveAReason` is proved for partitions whose size in bytes fits 32 bits (`PartCells <
WORD`): finding 3 is that it does not hold for others.

**TimerProofs**, for every width of the counter, lag of the core, and times shorter than a period.
That no call ends early (`EarlyInv`) needs where counter and compare register are relative to the
call. That none is late (`LateInv`) needs a count: for each place of the program, and of the
exception handler under it, how many steps of the core there may have been since the call was due
(`Late(n)`), since it began (`Old(n)`), or since the counter overflowed (`Over(n)`), as the overflow
raises the match that `timer_isr()` leaves at 0. `Slack` and `LongEnough` are what these counts add
up to.

The part about `ErrorSignal` builds on this: its steps are steps of `Timer` where sleeps end at
all (`StepsOfTimer`), so a dark phase is neither shorter nor longer than its sleep and the slack
(`HowLong`, `LongEnoughAtEnd`). `BlinkInv` has the blinks seen and the length of the dark phase at
each place of `signal_error()`. With interrupts masked the signal does not get beyond its first
sleep (`MaskedInv`, finding 4). It is assumed (`PausesAssumption`) that the short pause is long for
the timer, and the long one longer by more than the slack of a sleep; 370 and 2250 ms are,
by far. WFI returns for interrupts only (`WakesAssumption`): what other wakes do to a sleep is in
`Timer`.

**VcMailboxProofs**, for every request whose tags have sizes that are multiples of 4 and that fits
into the heap (`CallsAssumption`, `RoomAssumption`: all requests of `tag.c` do), every board and
every number of calls. Everything rests on where the tags are, and `TagAddrs` is defined by
recursion: `LayoutUnfolds` shows that it satisfies its recursion, and by induction tags follow each
other without a gap (`LayoutSteps`), lie apart (`LayoutApart`), and no word belongs to two of them
(`WordOfOneTag`). The invariant `IInv` has the types, what was built for the current request
(`Started`), what of it the buffer holds after each tag that the VideoCore has answered (`Buffer`),
what follows for the driver at each step (`Phase`), and what it has copied (`Got`). Its main point
is that a response code that is set was set for this request, because building the request has reset
all of them: hence `OnlyFreshAnswers`, although replies may be late, repeated or wrong. `ObeyInv`
adds what a VideoCore without quirks has done; `ObeyedRequestsSucceed` follows from it check by
check.

**UartProofs**, for every queue, every text, every caller of `uart_transmit()` (`UartSpec`), and
the core clock of 250 MHz, for which the rounded divisor is within 2 %. `SentInv`: what was to be sent has been read, is queued, or is left, in
this order. `TheLogIsRead` shows that `SerialLog` is such a caller.

`VsnprintfStaysInBounds` is about both calls of `Vsnprintf()` in `serial_log()`, for buffers of
every size, all time stamps, and all programs that pass at least one argument for each `%` of a
format (`ProgramsAssumption`; every call in `src/` does). That the second call does not run out of
arguments depends on what the first one wrote: the format of the second is a line that may be cut
anywhere, and each `%` in it must be one that the caller wrote. `LineInv` says so (`PercentsFrom`:
every `%` in `newfmt` is one of the caller's format, moved by a constant), for which the time stamp
must consist of digits and spaces (`NumbersAreDigits`: `uint_to_str_base()` ends within ten turns
for every 32 bit number). `MessageInv` then counts: no more arguments have been taken than there
are `%` before the read index (`Passed`). That the read index stays in the format, a `%` at its end
included, is `SpecPlace`.

**Induction** has what proofs about recursive definitions need. The library's induction theorems
have a predicate as a parameter, which the provers cannot instantiate; `SetInduction` has a set in
its place, and follows from the well-foundedness of `<`. `left` of `uint_to_str_base()`, `val` of
`str_to_int()` and `TagAddrs` are unfolded with it, and `LeastElement` gives what a `CHOOSE` of a
first place chooses.

The assumptions are those the modules declare, each of which TLC evaluates on the runs: constants
are of their types, addresses are multiples of the block size, files end within the address
space (`FitAssumption`), images stay below 2 GiB (`IntAssumption`), a file with the magic of a kernel is long enough to hold it
(`ZImageAssumption`), those on clocks, pauses, requests and arguments above, and that the literals
of `SerialLog` are strings (`CharactersAssumption`), which the provers do not know.

Checked by TLC alone:

* Liveness (`CallReturns`, `CallSucceeds`, `ReadReturns`, `InitEnds`, `SleepsAndWaitsEnd`,
  `SignalsForever`, `RequestEnds`, `LogCallEnds`), which is out of the prover's reach.
* What `Vsnprintf()` gives for a format (`LogsWhatItShould`). The reference defines digits by powers
  of the base, and the provers do not know what a power is; it also assumes formats without
  terminators in them, as the instance has.

## 6. What is not modelled

* A torn image that happens to have ids, sizes and magics in the right places is accepted by the
  bootloader: there is no checksum. No document says otherwise, so no property forbids it;
  `BootsWhatWasImaged` speaks of whole images, `LoadsDoNotOverlap` of all.
* Images of 2 GiB and more, whose sizes are negative as `int` (`IntAssumption`: `img.c:102`, `img.c:177`,
  `boot.c:143`, `sd.c:489`), and of a heap that the device tree blob reaches into,
  more than the first block.
* Interrupts of the host controller: it is told not to generate any, and the bootloader polls.
* Ticks in `SdCommand`, which counts polls; `Timer` has the ticks. So a wait that `timer_poll_done()` ends at
  once because its timestamp has overflowed (`timer.c:119`) is not there: `timer.h:50` assumes that the
  counter starts at 0 and has not been running for 71 minutes.
* How long 200 ms are for the VideoCore: without quirks it answers before they are over (`NoFalseAlarm`).
* Core clocks other than 250 MHz (`Uart`).
* The contents of messages, beyond what `SerialLog` needs to tell formats apart.
* Callers that ask the mailbox for a value whose size is not a multiple of 4: there is none, and
  `NextTag` would not find the next tag.
* Assembly, linker script, Makefile; of the MBR, entries of other partitions.

## 7. Plan

Done, in this order: SD commands, SD reads with proofs, initialisation and reset, imager and boot
flow, the first theorems about layout; then the timer, the error signal, the mailbox, the UART and
the log, and the errors they cause in `Boot`; then the proofs about `SdCommand`, `SdInit`, `Boot`
and the imager, `Timer`, `ErrorSignal` and `Uart`; then about `VcMailbox` and `SerialLog`. Every
invariant that a passing run checks is now also a theorem. What is left:

1. `LogsWhatItShould` for every format. `RefDigits` would have to be written without powers, and the
   invariant of `UartProofs` extended by what has been written, which is a prefix of `Reference`.
2. Liveness, with a prover that can handle fairness.
