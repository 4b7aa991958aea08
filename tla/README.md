# Verification of the STM32 DDS firmware

The firmware drives an AD9910 DDS chip from an STM32F4. In setup mode it
receives SCPI commands over TCP and either applies them at once (`MODE
NORMal`) or stores them as a program (`MODE PROGram`). `MODE EXECute` starts
run mode: the program is replayed, waiting for external triggers, and the
device returns to setup mode. This directory models that system in TLA+,
checks it with TLC on small instances and proves the main results with TLAPS.

## Inventory

| Part | Source | Modules |
| --- | --- | --- |
| Command queue: byte-packed commands, merging of register changes, repeat loop | `src/commands.c`, `include/commands.h` | `CommandList`, `CommandBytes` |
| Setup and run mode: SCPI modes, queued and immediate commands, execution, triggers | `src/scpi.c`, `src/commands.c`, `src/ethernet.c` (loop) | `Sequencer` |
| AD9910 driver: initialisation, register copy, SPI writes, I/O update | `src/ad9910.c`, `include/ad9910.h` | `Ad9910` (operators) |
| Startup program in flash | `src/commands.c`, `src/eeprom.c`, `src/crc.c` | `Eeprom`, `StartupStore`, `ProgramStore` |
| Network configuration in flash, `SYSTem:NETwork` commands | `src/config.c`, `src/eeprom.c`, `src/scpi.c` | `Eeprom`, `ConfigStore`, `ConfigCell` |
| TCP server, packet chain, main loop | `src/ethernet.c`, on `tcp.c`, `tcp_in.c`, `pbuf.c` of lwIP | `Server`, `Pbuf` |
| Parallel playback and its data upload | `src/ad9910.c`, `src/scpi.c`, `src/ethernet.c` | `Parallel` |
| Time base, `delay`, lwIP timers, link supervision | `src/timing.c`, `src/interrupts.c`, `src/ethernet.c` | `Clock` |
| Data segments, GPIO, SPI, start-up, newlib glue, vendored libraries | `src/data.c`, `src/gpio.c`, `src/spi.c`, `src/main.c`, `src/syscalls.c`, `lib/` | see "Not modelled" |

There is one thread. Callbacks of lwIP run inside `ethernet_next_packet`, and
the only interrupt that changes shared state is SysTick (`LocalTime`).
Concurrency comes from outside: the trigger source, the network peers and
the power supply.

## Modules

`CommandList` is the abstract command queue: a list of commands, its size in
bytes, the number of repeats, and the position of the running execution
(`pos` is 0 in setup mode). Its actions are the calls of `commands.c`. A
command is appended if header and payload fit. `PutRegister` is
`command_queue_register`: it gives up a trailing `spi_write`, appends the
register command and a new `spi_write`, each only if it fits. Payloads are
opaque values. The search for the `spi_write` is blind behind a parallel
command, whose payload `get_command_length` does not know: it may miss the
`spi_write` (`Searched`), or take the last byte of a payload for one and remove
that (`Mistaken`). In the second case the list is lost (`intact` is false) and
nothing is promised until `commands_clear`.

`CommandBytes` is the same queue as `commands.c` stores it. `buf` holds the
bytes between `commands.begin` and `commands.end`. `find_last_command` and
`execute_commands` are loops over a cursor, one turn per step, and each uses
its own way to compute where the next command starts (`get_command_length`
and `execute_command`). `hdrs` is a history variable: the positions at which
`command_queue` wrote a header. `damaged` is another: a search has removed a
byte that was no header. `RefinesList` maps the bytes to the list, a damaged
queue to a lost one, and states that this module implements `CommandList`.

`Ad9910` holds the driver's operations as operators on a chip state. A field
has three values: the driver's copy (`shadow`), the last one sent over SPI
(`buffered`), and the one the chip works with (`active`). `Latch`, what the
chip does on a rising edge of `IO_UPDATE`, is external. A mask is the set of
its bit numbers; `Selected` is the test `mask & (i << i)` of
`ad9910_update_multiple_regs`. `ad9910_init` starts from a chip with any
register contents (`Leftover`): a comment in the code says that only the
processor may have been reset. It makes the PLL settings in `cfr3` active and
sends every register, but gives no I/O update for the others.

`Sequencer` composes the two: SCPI commands in setup mode (`mode`,
`ProgramPlain`, `NormalRegister`, `SequenceClear`, ...) and one action per
executed command in run mode. `execute_command_trigger` takes three steps:
open the pin, see it high, see it low. The external level `ext` may change at
any time; while the pin is an input its rising edges reach the chip.
`truncated` is a history variable: a list that ends in a register command
without `spi_write` has been executed, and no `spi_write` since. The first
state is the one at the end of `ad9910_init`, so the driver's copy and what the
chip works with differ until the first update. There `startup_command_execute`
may run a saved program (`Startup`) before the first SCPI command; it runs from
the flash, once, and `commands` is empty afterwards (`EndStartup`). The module
assumes that no payload ends in the byte 6, the header of a `spi_write`
(`PayloadAssumption`), so that its list is never lost: for a wait that byte
means 28 hours or more, for a parallel command 10^8 repeats or more. (A
register command is the last one only in a full queue. There a new `spi_write`
takes the place of the removed byte, and is the same byte.) The ramp, output and target commands of `scpi.c` are
register and pin changes, one or two each, and are not told apart. The
TX_ENABLE pin and LEDs are left out; the samples of a playback are the subject
of `Parallel`.

`Eeprom` is a flash sector as `eeprom.c` uses it: a CRC word and data.
Programming a byte can only clear bits, so writing over old data gives the
bitwise and of both (`BitAnd`); an interrupted erase leaves any set of bytes
erased. The CRC unit is external: each byte of `crc(d)` is a copy of `d`, so
two contents never share a CRC. The one collision that matters in practice
was computed: the CRC of an erased sector is not the erased CRC word.

`StartupStore` adds `STARTup:SAVe`, `STARTup:CLEAR` and the boot.
`startup_command_save` is an erase and three calls of `eeprom_write` (length,
program, CRC), one step per byte. `PowerLoss` may come between any two bytes
and during the erase. `Boot` is `startup_command_execute`; `BootCleared` is a
boot with the red button pressed. `Failures` lets erases and writes fail; the
code ignores their results. `saved` is a history variable. `ProgramStore` is
the abstract promise: the flash holds no program or a whole one, and a boot
runs what it holds.

`ConfigStore` is the other sector: the network configuration. `config_write`
erases the sector and writes the CRC first, then the data. `config_get` checks
the CRC and, if it is wrong, rewrites the default before it returns; `todo` is
what its caller does then. A caller uses the configuration (boot, link change,
query) or changes a field of a copy and writes it back. `With` is
`scpi_param_ip_address`: it stores the numbers it finds modulo 256, and the
callers write the copy back even if there were too few. `asked` and `acked`
are history variables. `ConfigCell` is the abstract promise. Changing the
configuration is not atomic: when the power is lost during a change the device
falls back to the default. What is promised is that no mixture is ever used.

`Pbuf` has the reference counts of lwIP's packet buffers as operators.
`Server` is `ethernet.c` on top of the part of lwIP that calls it. Its actions
are the frames that one iteration of `ethernet_next_packet` may find (`Syn`,
`Ack`, `Data`, `Fin`, `Rst`), the timer that gives up on connections
(`Slowtmr`), and the steps of the main loop: leave the polling loop
(`NoFrame`), run the program (`Execute`), parse a pbuf (`Process`), and take a
pbuf for data (`Copy`, one round of `ethernet_copy_data`). A callback is an
operator of the action that calls it, so each action is everything that
happens before the loop looks at `es.pin` again. lwIP has a pool of
connections; a new one aborts the one that was inactive longest (`older`). The
receive window is counted in pbufs, one command each. `asker` is a history
variable: the client whose block `ethernet_copy_data` waits for, forgotten when
a connection is accepted meanwhile. `failed`, `overlapped` and `leaked` are
history variables for the three events after which the code
no longer keeps its promises: an accepted connection ended with
`server_err_callback`, a connection was accepted while another one was open,
a pbuf was chained or overwritten.

`Parallel` is the upload of a block and its playback. A block may be too long
and is refused then (`Lengths`). The network cuts it into packets at any byte;
other commands may precede it in its first packet (`Earlier`) and follow it in
its last (`tail`), also blanks; the connection may end in the middle, and what
comes then is another client's. `DataOffset` is the offset the code computes:
it counts the path that the parser takes over from the preceding command and
the blanks it skips behind the block, but not the commands in front. Every byte has a
value of its own, and two successive blocks (`generation`) have none in
common. A queued play command has its own length and repeats but points to
the one buffer. `Poll` is one round of the loop of `ad9910_execute_parallel`,
with the timer flag set or not (`missed`); `Sample` is what it writes; `Word` is the range of a `size_t`, so that
`len * rep` can overflow.

`Clock` is `LocalTime`, modulo `Word`, and what depends on it. A `Tick` counts
a millisecond; while a playback has interrupts disabled, one tick is pending
and further ones are lost. `lwip_periodic_handle` is one action, with its
timers in a function; `link_status` is the value it compares the PHY with,
`link_up` the flag of the interface. `left`, `since`, `wraps` and `agreed` are
history variables: true time, and whether the link has been agreed on.

The parts meet at few places, and the modules cut the system there.
`Server` leaves open what a command does, apart from setting the execute flag
and fetching data. `Sequencer`, `ConfigStore`, `StartupStore` and `Parallel`
take commands in any order, as `Server` delivers them. `Clock` and `Server`
share the polling loop: in `Clock` it may be kept from running by a wait or a
playback, in `Server` its timers may run in any iteration.

The modules named `...Proofs` hold the theorems (`EepromProofs` the lemmas
that both stores share), the modules named `MC...` the bounds. An operator
whose comment starts with "Mutant" is a deliberately wrong variant of the
definition that follows it, used to see that a property can fail.

## Runs

| Run | Configuration | Shows |
| --- | --- | --- |
| `bytes` | 8 bytes, payloads of 1 or 2 bytes that look like headers, register, pin, wait, update, parallel, 0 or 1 repeats | `Capacity`, `Packed`, `ExecInStep`, `FindInStep`, `OnlySpiWriteRemoved`; refinement of `CommandList` |
| `sequencer` | 6 bytes, a programmed field and the enable bit of the parallel port in another register, updates, triggers, parallel playback, 0 or 1 repeats, at boot a chip with other contents and none or one of two saved programs, with fairness | the chip properties below and `ExecutionEnds` |
| `startup` | programs of 0 to 3 bytes, also with bytes that look erased, 5 bytes of data, a CRC word of 2 bytes, power loss anywhere | `SavedBoots`, `RunsWholeCommands`, `CrcCovers`; refinement of `ProgramStore` |
| `config` | addresses of 2 bytes, also with numbers above 255 and malformed ones, all three network commands, a CRC word of 2 bytes, power loss anywhere | `Durable`, `ValidWhenIdle`, `CrcCovers`; refinement of `ConfigCell` |
| `server` | 3 clients, 2 connections, 3 pbufs, segments of 1 to 3 pbufs, a window of 4, blocks that need one more pbuf, with fairness | the server properties below, `PacketsProcessed`, `ExecuteServed` |
| `clock` | a counter with 8 values, waits of 1 and 5, timers of 2 and 3, with fairness | `WaitExact`, `TimerNotEarly`, `WaitReturns`, `TimersRun`, `LinkFollows` |
| `parallel` | a buffer of 4 bytes, blocks of 0, 3, 4 and 5, cut anywhere, behind other commands and in front of blanks, 0 or 3 repeats, a `size_t` with 8 values, with fairness | `TypeOK`, `UploadExact`, `PlaysOneBlock`, `PlayEnds` |
| `ramp` | a ramp register | finding 1: `mask & (i << i)` |
| `config_commands` | as `config`, well-formed addresses | finding 2: `GATEway` |
| `server_reset` | as `server`, a window of 3 | finding 3: reset connections |
| `server_window` | as `server_reset` | finding 4: the window is not reopened |
| `parallel_play` | as `parallel`, without overflow | finding 5: polls instead of samples |

The bounds are scaled, the cases are not. Payloads are shorter than in the
firmware, so a queue of 6 or 8 bytes holds all kinds of lists: a register
group with an update or a trigger behind it and a second group that is cut
short, a group that is merged, a parallel command with a group behind it whose
`spi_write` the next register command misses, and lists that fill the queue
with 0, 1 or 2 bytes to spare. The last case decides whether a `spi_write`
fits. Payload bytes take the values of headers (register, spi_write), so a
cursor that leaves the headers does not go unnoticed, and a search may take a
payload for a `spi_write`. One of the saved programs ends in a register
command: it leaves a mark that the first program of a client finds. Repeats of 0 and 1 cover the only pass, the first and the last.
Two CRC bytes are enough for a CRC word that is written or erased in part, and
the longest startup program leaves a byte of the sector unused. Two bytes are
the shortest address that can be malformed with a number in it; the default
and one of the addresses hold a byte that looks erased. Three clients are
what it takes to have two connections and a third one that lwIP makes room
for. Three pbufs hold a chain of two segments or one long segment, and are
used up by leaks. A counter with 8 values wraps while a wait or any of the
timers runs, and a wait may be longer than every timer. With 4 bytes a block
fits into one packet or is cut into up to four, has one sample or two, fills
the buffer or not, and three repeats of it overflow a `size_t` with 8 values.
Two bytes in front of the command are a path to take over and a separator.

What the chip properties say:

- `NoLostUpdate`: a field that differs between the driver's copy and the chip
  is marked in `update_registers`.
- `MarkedInGroup`: marks exist only between a register command and its
  `spi_write`, or where a truncated list left them for the next `spi_write`.
  With `NoLostUpdate` this gives `SentWhenIdle`: in setup mode the chip has
  received what the driver's copy holds.
- `ActiveAfterUpdate`: behind an update or trigger command everything
  programmed before is active, unless `truncated`.
- `TriggerLatches`: the trigger command goes on only after the chip has seen
  the edge.
- `PllActive`: the clock settings of the chip are active from boot on,
  whatever it held before.
- `RegisterThenWrite`: register commands form groups closed by one
  `spi_write`, behind a parallel command by one or more; only a queue that is
  full to the last byte may lack it.

What the server properties say:

- `NoUseAfterFree`: the pbuf being parsed or copied exists; no pbuf of `es.pin`
  is in the pool or linked twice.
- `PoolComplete`: pbufs are lost by `pbuf_chain` and by a new connection that
  overwrites `es.pin`, and in no other way.
- `ReplyToOpen`: while `failed` is false, `es.pcb` is an established
  connection.
- `AcceptIffFree`: while also `overlapped` is false, connections are accepted
  exactly when none is open.
- `ReplyToSender`: while `overlapped` is false, commands are answered to the
  client that sent them. This includes a `PARallel:DATA` that waits in
  `ethernet_copy_data`, unless a connection is accepted while it waits: then
  the answer goes to the new client.
- `PacketsProcessed`: every pbuf in `es.pin` is processed in the end.
- `ExecuteServed`: the execute flag is served, unless from some moment on the
  loop waits for packets forever. The second case is real: the flag is looked
  at only behind `ethernet_next_packet`, so the program starts with the next
  command. It is the only excuse: a loop that keeps processing packets and
  does not serve the flag violates the property.

What the properties of `parallel` say:

- `UploadExact`: the buffer holds the block as it was sent, however it was cut,
  unless `aligned` is false (another command in front of it in its packet, or
  blanks behind the block) or `foreign` is true.
- `PlaysOneBlock`: a play is about the block in the buffer, unless a later one
  replaced it (`stale`), and every sample of it that lies in the block is two
  bytes of the block, in their order. `parallel.length` is in bytes and
  `ad9910_execute_parallel` takes it for a number of samples: of the samples a
  play goes through, the second half lies behind the block.

Fairness. In `sequencer`: the processor takes the next step of a running
program (weak fairness of `Exec`); the trigger source keeps changing its level
(weak fairness of `ExtRise` and `ExtFall`); and the polling loops sample it
often enough to see some high and some low level (strong fairness of `SeeHigh`
and `SeeLow`). The loops of `execute_command_trigger` contain nothing but the
read, so a pulse longer than a few cycles is seen. In `server`: weak fairness
of the main loop, which is all the processor does; frames cannot keep it in
`ethernet_next_packet` once a pbuf waits. In `clock`: time passes, a wait or a
playback that can return does, and `lwip_periodic_handle` meets a timer that
is due again and again (strong fairness, because time may pass and commands
may run in between; the loop calls it many times per millisecond). In
`parallel`: weak fairness of the sample loop, which runs with interrupts
disabled. Nothing is assumed about the client in any run: no SCPI command, and
no frame, has to arrive.

The type invariants (`TypeOK`) are proved, so only `parallel` checks its own:
there it says that the upload stays inside the buffer.

Deadlock is not checked for `server`: with the pool used up and all
connections gone, the loop polls and changes nothing.

## Findings

1. `ad9910_update_multiple_regs` (ad9910.c:183) tests `mask & (i << i)` over
   struct positions for a mask of SPI addresses. Changes to ramp registers
   alone are never sent in run mode. `cfr2` and `prof0` are covered.
2. `SYSTem:NETwork:GATEway` (scpi.c:785) changes the subnet mask, and no
   command changes the gateway.
3. `server_err_callback` (ethernet.c:695) leaves `es.pcb` and the accept
   callback as they are. After a client's reset, or after lwIP aborted the
   connection to make room for a third one, no connection is accepted until
   the device is restarted.
4. Nothing calls `tcp_recved` (its only caller, `ethernet_get_data`, is
   unused). The window of a connection shrinks with everything it sends, and
   after 2920 bytes the client can send nothing more.
5. `ad9910_execute_parallel` (ad9910.c:290) counts polls of the timer flag. It
   returns after `len * rep` polls, when few samples may have been written.

More results that follow from the modules; each says how to see it.

- `get_command_length` (commands.c:321) lacks `parallel` and
  `parallel_frequency`. A register command queued behind a parallel command may
  leave the old `spi_write` where it is, which sends nothing and does no harm,
  or cut off the last byte of a payload that is 6. The comment at commands.c:65
  ("if the last command was a spi write we remove that") holds only without
  parallel commands in the queue. `OnlySpiWriteRemoved` without its last
  disjunct (`\E h \in hdrs : ...`) is violated in the run `bytes`.
- `startup_command_save` (commands.c:301-312) ignores failing flash operations
  and computes the CRC from the flash instead of the queue. After a failed
  write the next boot accepts and runs what was written. `MCStartupStore` with
  `Failures = TRUE` violates `RunsWholeCommands`.
- The network commands (scpi.c:755, 770, 785) test the result of
  `scpi_param_ip_address` for 0, but `SCPI_RES_ERR` is -1: a malformed address
  is answered with an error and written as far as it was understood.
  `config_commands` with `Addresses <- MCAddresses` violates `AsAsked` by it.
- `config_get` (config.c:31) ignores a failed rewrite of the default.
  `MCConfigStore` with `Failures = TRUE` violates `ValidWhenIdle`.
- A register command that fills the queue to the last byte (commands.c:74)
  loses its `spi_write`, and its change stays in the driver's copy when the
  program has run (`RegisterThenWrite`). In 1024 bytes: 112 register commands,
  their `spi_write`, six updates and a register command.
- `SEQuence:NCYCles INFinite` stands for 2^32 - 1 repeats (scpi.c:889), so
  `ExecutionEnds` holds for it too.
- `ActiveAfterUpdate` is the strongest statement about the settings that
  `ad9910_init` sends besides the PLL's: they are active behind the first
  update, not from boot on.
- The conditions of the properties are where the code stops keeping them:
  `overlapped` (two handshakes begun before the first was accepted share one
  state), `leaked` (each chained packet costs a pbuf of 8), `aligned` (the
  offset of a block is wrong if another command precedes it in the packet, or
  blanks follow the block), `foreign` (an upload cut off by the end of its
  connection swallows the next client's commands, and its answer goes to that
  client), `stale` (a queued play uses the data of a later upload), `wraps` (a
  wait whose end is past the wrap of `LocalTime` returns at once), `agreed` (a
  link that is up at boot and lost before the first poll is not noticed).

## Proofs

All theorems hold for every queue length, payload size, set of payloads,
fields, repeat counts, sector layout, pool, window, buffer and word size; the
assumptions are the named `ASSUME`s of the modules (`QueueAssumption`,
`BytesAssumption`, `FieldAssumption`, `SequencerAssumption`,
`PayloadAssumption`, `EepromAssumption`, `ConfigAssumption`, `PoolAssumption`,
`ServerAssumption`, `ClockAssumption`, `ParallelAssumption`, and a
`StartupAssumption` each in `Sequencer` and `StartupStore`). They state types,
that `spi_write` has no payload, that commands do not touch the PLL register,
that no payload in `Sequencer` looks like a `spi_write`, that a saved program
is a list of whole commands in groups and fits into the sector, that a
configuration is three addresses, and that the buffer of a playback holds at
least one sample of two bytes (60 KiB in scpi.c:30) and its size is a `size_t`.

- `NeverOverflows`: `Spec => []Capacity`, without further condition. The check
  in `command_queue` bounds every append, and the only other change shortens
  the queue.
- `QueueTypes`, `QueueStaysPacked`, `ExecStaysInStep`, `FindStaysInStep`,
  `RemovesOnlySpiWrite`: for all command types. While the queue is not damaged
  the bytes are whole commands, the cursor of an execution stays on headers,
  and that of a search leaves them only behind a parallel command. `Packed`,
  `ExecInStep` and `FindInStep` are inductive together: the cursor properties
  need the packing to make a step, the packing needs `FindInStep` to know that
  what is cut off is a command, or that the queue counts as damaged.
- `BytesImplementList`: `CommandBytes` implements `CommandList`, step by step,
  for all command types. The list is decoded from the headers: `Nth` is
  the header of a rank, the rank of a header the number of headers up to it
  (`Rank`). That every rank has exactly one header (`RankInjective`,
  `RankOnto`) needs no induction over the queue: ranks are pairwise different
  numbers from 1 to the number of headers. From there each operation on the
  bytes is shown to be the one on the list (`PutMaps`, `DropMaps`,
  `RegisterMaps`), and a turn of the inner loop of `execute_commands` to pass
  one list entry (`BeforeStep`). The invariant of the queue is strengthened by
  `FindBefore`: in a queue without parallel commands, `find_last_command`
  stands on a header and not behind the last one, so it finds the last command.
- `HarmlessPayloads`: a queue is never damaged if no payload ends in the byte
  of a `spi_write`'s header. This is the link to `PayloadAssumption`.
- `ListGrouped`: `RegisterThenWrite`, in the first half of `SequencerProofs`.
  The invariant adds that the byte count is at least the number of list entries
  (`Counted`).
- `SequencerTypes`, `NoUpdateIsLost`, `MarksEndWithGroup`,
  `UpdatesTakeEffect`, `TriggerSeesEdge`, `IdleIsSent`, `ClockKept`: under
  `Covers` (the mask of each field in use selects its register; true of `cfr2`
  and `prof0`, false of the ramp registers, which is finding 1). The inductive
  invariant `SeqInv` joins the properties with two facts about the trigger:
  the processor polls only for a trigger command (`WaitOK`), and whenever it
  may see a high level the chip has latched (`EdgeSeen`). `AllSent` is the
  central lemma: where the program stands on a command other than register or
  spi_write, grouping implies that nothing is marked, so copy and chip agree.
  For `PllActive` the fields of `cfr3` have the same value in the copy, in
  what was sent and in the chip: nothing an I/O update could change.
- `StartupTypes`, `SavedProgramBoots`, `BootRunsWholePrograms`,
  `StartupCrcCovers`, `StartupIsAtomic`: if flash operations do not fail, the
  startup program is safe and `StartupStore` implements `ProgramStore`. The
  inductive invariant `StoreInv` says for each stage of a save what exactly
  the sector holds (`AtLen`, `AtBody`, `AtCrc`), and that a valid sector is
  the image of a program (`ValidFull`). It needs `CrcCovers`: where the sector
  has a CRC, its data is what the CRC was computed from or erased. This is why
  an interrupted erase cannot produce another valid sector
  (`EraseKeepsCovered`), and it holds because the sector is erased before a
  save and the CRC is written last.
- `ConfigTypes`, `AcknowledgedIsDurable`, `IdleIsValid`, `ConfigCrcCovers`,
  `ConfigImplementsCell`: the same for the configuration, if flash operations
  do not fail. `ConfigInv` says what the sector holds while
  the CRC (`AtCrc`) and the data (`AtData`) are written. Here the CRC comes
  first, and `CrcCovers` does the work again: the data behind it is a part of
  what it was computed from, so the sector becomes valid only when the data is
  complete. `Underway` says that `config_get` rewrites the default only for
  the boot: afterwards the sector stays valid.
- `ServerTypes`, `NoFreedPbufIsRead`, `TwoLeaksOnly`, `RepliesGoToOpen`,
  `AcceptsWhenFree`, `RepliesGoToSender`: without further condition, for any
  number of clients, pbufs and connections. `BufInv` is about the pool: the
  chain in `es.pin` holds no pbuf twice and none with count 0 (`Chain`), and
  as long as nothing was leaked each pbuf of it has count 1 and all others 0
  (`Exact`). `Exact` is not inductive without the flag, because `pbuf_chain`
  breaks it; `Chain` survives, because a count that is too high only delays a
  free. That a connection which was just accepted has nothing in `es.pin` is
  needed where `server_recv_callback` overwrites it. `ConnInv` ties the
  accept callback, `es.state` and `es.pcb` together, which holds even after an
  error, and says that without overlap the only established connection is
  `es.pcb`.
- `ClockTypes`, `WaitsAreExact`, `TimersAreNotEarly`: for every word size and
  every set of timers. `DelayInv`: the time a wait still has is the distance
  to its end, if that does not wrap. `TimerInv`: what the code believes to have
  passed since a timer ran, plus a pending tick (`Owed`), is at most what has
  passed; a playback and a full turn of the counter only make the belief
  smaller.
- `ParallelTypes`, `UploadIsExact`, `PlayCoversOneBlock`: without further
  condition, for every buffer size, block, cut into packets and width of a
  `size_t`. `UploadExact` speaks of the end of an upload only; `CopyInv` says
  the same of the part that has arrived between two packets, and that the
  function has copied as much as the client has sent unless something shifted
  the block (`aligned`, `foreign`). `QueueInv`: a queued play has the length of
  the block in the buffer, unless a later one replaced it. `PlayInv`: the poll
  counter is within `len * rep` modulo `Word`, so the overflow of the product
  shortens a play and does nothing else.

Only model-checked. The liveness properties `ExecutionEnds`,
`PacketsProcessed`, `ExecuteServed`, `WaitReturns`, `TimersRun`,
`LinkFollows` and `PlayEnds`: they rest on fairness, whose `ENABLED` the proof
system does not handle. Every safety property and every refinement that a
passing run checks is proved.

## Not modelled

- Most of the code under `lib/`, by far the largest part of the repository:
  the CMSIS headers, the drivers of ST and TM, scpi-parser, and the rest of
  lwIP (IP, ARP, sending, retransmission, parts the firmware does not enable).
  It is third-party code; a model of it would not be about this firmware. The
  functions of lwIP that decide what the server sees are in `Pbuf`, `Server`
  and `Clock`. Lines of `lib/` are mapped only there, so the share of all
  lines that is mapped is small.
- Numbers with units, and the conversions of frequency, amplitude and phase
  (`scpi_param_...`, `ad9910_convert_...`): floating-point arithmetic that TLC
  cannot evaluate. They change no state; their results are the values that
  `Sequencer` takes from a set. The queries read and format only.
- `data.c`: no SCPI command and no other code creates a data segment.
  `ad9910_program_ramp`, `ad9910_program_ram`, `ethernet_get_data`,
  `server_send` and the callbacks that would call it, and the negotiation
  branch of `ethernet_link_callback` are unused or unreachable as well.
- `gpio.c` and `spi.c` access registers of the processor and keep no state;
  what they do to pins and chip is in the actions that call them. SPI
  transfers are taken to succeed. `main.c` and `syscalls.c` have nothing to
  interleave. A wait for the PLL lock that times out (ad9910.c:94) changes
  nothing the code looks at.
- Commands that are split across pbufs, and what follows a block in its last
  packet: the first is two commands for the parser, the second is dropped.
  Which commands these are is a matter of text, which the models do not have.
