# A TLA+ verification of the GPS speedometer firmware

The repository is the firmware of a GPS speedometer for an ESP32: it reads NMEA
sentences from a GPS receiver on UART 1, shows the speed on an SH1106 OLED and
times the acceleration from standstill to 40, 60, 80 and 100 km/h.  The
application is about a thousand lines under `src/`, three small libraries under
`libs/` and the vendored ESP-IDF.  All paths below are relative to the
repository root.

## 1. Inventory

| part | source | state | operations |
|------|--------|-------|------------|
| acceleration timers | `src/hw/hw_gps.c:27-124` | `_trig_lim_str[4]`, `trigger_0..3_ms` | `_trig_one_limit`, `_check_and_apply_trigers` |
| GPS task | `src/hw/hw_gps.c:129-255` | `line[256]`, `ext_speed`, `gps_valid`, the event queue handle | `readLine`, `task_gps`, `gps_init` |
| NMEA parser | `libs/minmea/minmea.c`, `minmea.h` | none (pure functions) | `minmea_check`, `minmea_sentence_id`, `minmea_scan`, `minmea_parse_*`, `minmea_rescale` |
| UART driver (receive side) | `esp-idf/components/driver/uart.c` | hardware FIFO, `rx_data_buf` stash, ring buffer, `rx_buffered_len`, `rx_buffer_full_flg`, event queue | interrupt handler, `uart_read_bytes`, `uart_check_buf_full`, `uart_driver_install` |
| LCD task | `src/hw/hw_display.c` | `_speed_triggers[4]`, the u8g2 frame buffer | `_refresh_tirgger_list`, `_draw_speed_trigger`, `task_lcd`, `display_init` |
| display bus | `src/hw/u8g2_esp32_hal.c`, `libs/u8g2/csrc` (`u8g2_buffer.c`, `u8x8_cad.c`, `u8x8_d_ssd1306_128x64_noname.c`) | frame buffer, `handle_i2c` command link; in the panel: registers, address counters, memory | `u8g2_InitDisplay`, `u8g2_SetPowerSave`, `u8g2_UpdateDisplay`, `u8g2_esp32_i2c_byte_cb`, u8x8 command/data layer |
| I2C master driver | `esp-idf/components/driver/i2c.c` | `p_i2c_obj` (status, command link, event queue of length 1), `clear_bus_cnt`, the controller's registers | `i2c_master_cmd_begin`, `i2c_master_cmd_begin_static`, interrupt handler, `i2c_hw_fsm_reset` |
| start-up | `src/main.cpp`, `src/hw/hw_board.c` | created tasks, NVS handle | `app_main`, `hw_board_init`, `ArduinoNvs::begin` |
| settings store | `libs/ArduinoNvs/src/ArduinoNvs.cpp`, `esp-idf/components/nvs_flash` | flash pages with their headers, entry tables and items; `mPageList`, `mFreePageList`, `_nvs_handle` | `begin`, `setInt`, `getInt`, `erase`, `eraseAll`, `commit`, `close`; page load, recovery and reclamation |
| debug UART | `src/hw/hw_uart.c` | - | not called by the application |

How the parts interact: `app_main` opens the settings store, then creates the
LCD task (priority 10) and the GPS task (priority 100, which FreeRTOS lowers to
24) on one core.  The UART interrupt puts bytes into the driver's ring buffer
and events into a queue of 120; the GPS task waits on the queue, reads the
bytes an event announces, parses the first line in its buffer and, for an RMC
sentence, publishes `gps_valid`, `ext_speed` and the four lap times in volatile
globals.  The LCD task reads these globals one by one, draws, sends the frame
over I2C and sleeps 50 ms.  There is no lock anywhere.

What is hard to test here: every pair of steps of the UART interrupt, the tick
interrupt and the two tasks can be interleaved by preemption; buffers and
queues have limits whose overflow paths run only when the task is starved; the
tick counter wraps; a failing I2C transfer resets the chip between any two
steps, and leaves the panel, which has no reset line, in the middle of a command
or a row; the power may go between any two writes to the flash; sentences are
cut anywhere; numbers are parsed and converted in 32 bits.  `PROJECT.json` lists these
hazards with their lines and the properties aimed at them.

## 2. Modules

| module | models | state and actions |
|--------|--------|-------------------|
| `SpeedTriggers` | the acceleration timers of `hw_gps.c` | `trig_lim_str`, `trigger_ms`, `tick`; `check_and_apply_trigers` enters a call, `ApplyOne` is one stopwatch of it (`_trig_one_limit` and the publication of its result), `Tick` is the tick interrupt |
| `LapTimer` | what the timers promise: one stopwatch with laps | `armed`, `open`, `lap`; `Stand`, `Start`, `Cross`, `LoseFix`, `Advance` |
| `UartRx` | interrupt handler, stash, ring buffer, event queue and `uart_read_bytes` of the ESP-IDF | `rx_fifo`, `stash`, `ring`, `queue`, flags; `Receive` (hardware), `IsrRx`, `IsrOverflow`, `IsrLineError`, `ReadIteration` |
| `GpsTask` | event loop and `readLine` of `hw_gps.c`, on top of `UartRx` | `line`, `pc`, `ev`; `ReceiveEvent`, `ReadLine`, `HandleLine` |
| `Minmea` | arithmetic of `libs/minmea` | the operator `minmea_rescale` |
| `MinmeaField` | case `'f'` of `minmea_scan`, a character per step | `sign`, `value`, `scale`; one action per branch of the loop, `Finish` for what follows it |
| `SpeedConversion` | knots to `ext_speed` | a step per sentence |
| `SpeedMeter` | the running firmware: `app_main`, `hw_board_init`, what `task_gps` does with a parsed frame, `task_lcd`, resets | `SpeedTriggers`' state and `gps_valid`, `ext_speed`, `_speed_triggers`, the frame buffer and the panel; a step per access of a shared variable |
| `MinmeaScan` | `minmea_check`, `minmea_sentence_id`, the field loop of `minmea_scan` under each `minmea_parse_*` | `line`, `fpos`, `field`, `optional`, `out`; `Check`, `SentenceId`, a step per character of the format, `Finish` |
| `I2cMaster` | `i2c_master_cmd_begin`, `i2c_master_cmd_begin_static` and the interrupt handler of `i2c.c` | the task's place and locals, `status`, `head`, `cmd_evt_queue`, interrupts, command registers; a step per turn of the handler's loop, per stage of the call, and per command of the controller (external) |
| `I2cTransfer` | what a call of it promises: the steps of a link in order, `ESP_OK` only when all are out | `phase`, `sent` |
| `DisplayBus` | start and update of the panel, by transfers | host: `pc`, `k`, `row`, `off`, `pic`; panel (external): `on`, `page`, `col`, `need`, `regs`, `ram`; `SendCmd`, `SendData`, `Draw`, and `FailCmd`, `FailData` for a transfer that fails and restarts the chip |
| `PanelPicture` | what `u8g2_UpdateDisplay` promises: whole pictures, one after the other | `screen`, `pic`, `done` |
| `NvsStore` | `ArduinoNvs` for integers over `nvs_flash`, a step per flash write | `log` (pages in use, oldest first, with their items), `fresh`, `op`, `old`, `readEntryIndex` (how far `copyItems` has come), `handle`; groups `Load`, `Begin`, `Write`, `Erase`, the calls of the program, and `Crash` |
| `SettingStore` | what a settings store promises: a call changes what it asks for or nothing | `store`, `open`, `req` |
| `MC*` | small instances for TLC | |
| `*Proofs` | theorems checked by TLAPS | |

`SpeedMeter` composes `SpeedTriggers` and `Minmea` with the two tasks;
`GpsTask` composes the task with the driver.  Between the two, an RMC sentence
that `minmea_parse_rmc` accepts is the interface: `GpsTask` shows which
sentence the task acts upon (`applied`), `MinmeaScan` which fields of it can
have been cut, `SpeedMeter` starts from the frame.  The display is stacked in the
same way: `I2cMaster` implements `I2cTransfer`, whose promise (a failing transfer
has sent some first part of its bytes) is what `DisplayBus` assumes of a
transfer; `DisplayBus` implements `PanelPicture`, whose promise (a restart may
leave a part of a picture on the panel) is the `Torn` picture of `SpeedMeter`.

Abstractions.  In `UartRx` a byte is its position in the stream.  In `GpsTask`
a token stands for the characters between which the task can be interrupted
with a different result: start, fields, checksum, newline, other text; the
checksum is assumed not to fit the fields of another sentence.  In `SpeedMeter`
a picture is the number drawn as the speed and the numbers drawn as laps; fonts
and coordinates are left out.  The two's complement wraparound that the build
gives signed overflow is modelled (`Wrap`), with the width as a constant.
In `MinmeaScan` a field is a class of text and the number of the field it came
from; the class of a cut text is any class of a prefix; of the types of a format,
`;` is written `"semi"` and `_` `"skip"`.  In `I2cMaster` the link
is a list of positions and `Bytes` its length; a controller that is stuck raises
any or no error interrupt.  In `DisplayBus` a picture's byte is named by its
picture, row and column, and the panel's commands are the byte values of the
code.  In `NvsStore` flash reads and writes do not return errors; a write is
taken whole or not at all, apart from the 32 bytes of an item; an interrupted
header write or sector erase leaves an unreadable header, which the code treats
like a free page; sector numbers are abstracted, as only the order of the
sequence numbers matters; every item takes one entry (integers); the items of
other namespaces are filled in before the first start.  `begin` runs once after
each power-up, as in `main.cpp`; the other calls are the interface of
`ArduinoNvs`, which the application does not use yet.
Auxiliary variables (`begunAt`, `runAt`, `startedAt`, `closedAt`, `seen`;
`popped`, `announced`; `applied`; `during`; `sent` of `I2cMaster`) are written and never read by the
actions, apart from the bound on ticks within a call.

Scheduling.  The build has `CONFIG_FREERTOS_UNICORE`, so a task runs only while
the tasks above it are blocked: gps above lcd above main.  That is `LcdMayRun`
and `MainMayRun`; `SpeedIsReal` rests on it (its mutant is a build for two
cores).  The interrupt handlers are atomic for the tasks.

## 3. Runs

| run | question | bounds, and why they are enough |
|-----|----------|--------------------------------|
| `triggers` | do the stopwatches measure the run they belong to, in step with each other, across wraparound, and implement `LapTimer`? | 2 limits (a lower and a higher one), a counter of 5 ticks seen for 8 (it wraps in the middle of a run), 1 tick inside a call; speeds below, between and above the limits and just below 1 km/h |
| `gps_rx` | does the receive path hold when the buffer, the queue and the FIFO are full and events are lost? | FIFO 4, ring 5 (not a multiple: items are split at its end), queue 2, ten bytes, one line error, line buffer 5: all limits are reached, and the line buffer is larger than a chunk as in the code |
| `meter` | what can the panel show? | 2 laps, 4 sentences out of no fix, standstill and two speeds, one reset, one tick: enough to finish a lap, lose the fix, and be reset before and after |
| `float_field` | does the scanner decode decimal numbers? | every field of at most 5 characters out of sign, point, space, three digits and a letter; the largest integer is 108, so that overflow happens at the third digit |
| `conversion` | is the speed accurate and monotone? | some 90 values with none to five decimals, all remainders of a division by ten; 20 bit unsigned arithmetic, so that wraparound is among the cases |
| `nmea_scan` | is what a parser accepts what the receiver sent? | all seven kinds and an unknown one; each sentence whole, with an empty field anywhere, all fields empty, one too many, with a right, wrong, partial or no checksum, or cut in any field |
| `i2c` | does `ESP_OK` mean that all bytes went out, and does the call end? | links of start, 4 bytes and stop: a first, two middle and a last byte, each of which may fail in each way; any number of calls and restarts |
| `display_bus` | is the panel configured and its picture whole after any failures? | 2 rows of 8 columns at offset 2 in a memory of 12, transfers of 3 bytes (the last one of a row is shorter), 2 pictures, 2 failing transfers: a failure while the damage of the first is repaired; the initialisation sequence is the real one |
| `nvs` | does the store keep its promise when the power goes at any write? | 3 pages of 2 entries, 3 keys, the namespace and foreign items: pages fill up after two writes, the last free page is used for copying, a full partition rejects a key, a truncated one is formatted; any number of power losses |
| `uart_stop`, `float_scale`, `nvs_types` | the disagreements of section 6 | as above |

`gps_rx`, the field scanner and the sentence scanner may stop (the receiver falls
silent, the field or the sentence ends), so their configurations do not check for deadlock; the others do.

Fairness.  `GpsTask`: weak fairness of the task, which has the highest
priority and so runs whenever it is not blocked; none of the receiver or the
interrupts.  `SpeedMeter`: weak fairness of the gps and lcd steps (a ready task
on a core that is not kept busy from above is scheduled) and strong fairness of
`main`, which runs in the pauses of the lcd task: each lasts 50 ms and `main`
needs far less.  No fairness of sentences.  `EventuallyShown` also depends on
the bounds `MaxSentences` and `MaxResets`: it speaks of the time after the last
sentence and the last failing transfer.  `I2cMaster`: weak fairness of the
interrupt handler (a pending enabled interrupt is served) and of the task, whose
wait has a time limit; nothing is assumed of the controller.  `DisplayBus`: weak
fairness of the host, because a transfer returns or the program restarts, which
is `Returns` of `I2cMaster`; transfers need not fail.  `NvsStore`: weak fairness
of the library's steps, which run to their end once begun; nobody has to make a
call, and `CallsEnd` speaks of behaviours in which the power stays on in the end.

What the properties of `gps_rx` show in words: the bytes an event announces
are in the ring when it is handled, even when events were dropped or the stash
was used, because the ring never holds less than what the queued events
announce; when bytes got in without an event (a stash pushed by
`uart_check_buf_full`, a dropped event) the task is behind from then on and
handles an event with older bytes (`Lag`), which never reverses the order of
the sentences acted upon, but costs delay and split sentences, and can cost
more.  The stash of a full ring is pushed only when `uart_read_bytes` has read
an item to its end, and the interrupt that would announce more bytes is off
until then.  With a lag the events can run out in the middle of the last item:
the task waits, nothing comes any more, and reception has stopped until the
chip restarts (`Deaf`).  `FullEnds` says that this is the only alternative to a
full ring being drained; that it does happen is run `uart_stop` (section 6).
With the buffers of the firmware it takes a second full ring of 2048 bytes after
a stash has been pushed or an event dropped.

Of the display: whichever interrupts come in whichever order, a link is not
entered twice and its bytes are neither skipped nor repeated (`NotReentered`,
`LoadedInOrder`); what the caller is told rests on the missing acknowledge being
recorded before the end of the transaction is handled (mutant of `Promise`).  The
check of `status` at that end, which the code has "for unexcepted situations
caused by noise", is not what these properties rest on: without it a failed link
would only send its event once more.  A life that ends between a command and its
argument makes the panel swallow the first byte of the next initialisation; that
byte is "display off", and the panel is still off then, and no later register is
missed (`Configured`): both depend on the sequence beginning with commands
without arguments (mutant `InitSeq_noOff`).  `Promise` implies that `ESP_OK`
means that the whole link was sent, and `UpdatePromise` that the picture is
complete when `u8g2_UpdateDisplay` returns.

Of the parser: task_gps asks for no checksum, so a cut sentence is parsed; all
twelve fields of RMC are mandatory and only the last one can be cut, which the
task does not use (`RmcUsedIntact`).

Of the store: the refinement `Durable` covers recovery from a loss of power at
every flash write, including those of the recovery itself; `PagesSound` is why
the next `begin` does not format the partition.  If `begin` has failed, whose
result `main.cpp` ignores, or after `close`, a call is made all the same and is
refused (`Refuse`): `SettingStore` allows no change then but those of `begin`
(mutant `setInt_unchecked`: the handle is not looked up).

## 4. Proofs

`SpeedTriggersProofs` proves, for every number of stopwatches, every increasing
list of limits, every width of the tick counter and every skew: type
correctness, `Lockstep`, `LapAccurate`, `LapsOrdered` and the action property
`ResultIsKept`.  None of them is inductive: they speak of the moments between
calls, while a call takes a step per stopwatch.  The invariant `IndInv` says
for every moment of a call what the status of a stopwatch is, as a function of
the view before the call and of the call's arguments (`Statuses`), that the
auxiliary clock readings are ordered (`Clock`), that the wrapped difference of
a running stopwatch is the true one as long as the run is shorter than the
counter's period (`Running`), and that results belong to the current run and
are ordered like their limits (`Results`).  The proof has one lemma per action,
a step per part.  It uses the assumptions on the constants stated in the module.
It also proves that the stopwatches implement `LapTimer` (`LapTimerSpec`).  A call
takes a step per stopwatch, the abstract one a single step, which is the return
of the call: `seen` holds the view until then, and the steps inside a call
stutter.  `LapInv` adds what that needs: clock readings are the ticks modulo the
counter's period (`Moduli`), and at every moment of a call the results that were
already handled are blanked, closed in this call or as they were before
(`CallLaps`).

`SpeedMeterProofs` carries these results into the running firmware: every step of
`SpeedMeter` is a step of the timers, a step that leaves them alone, or a reset
to their initial state, so that `IndInv` holds in the composition and laps stay
accurate there (`MeterLapAccurate`).  On top of it, it proves `SpeedIsReal`,
`LapsAreFresh`, `NoFixNoResult` and `PanelOfThisLife` for every number of
stopwatches, every set of frames, every integer width and any number of
sentences and resets.  These speak of the moment a picture is complete or the
gps task is blocked; `MeterInv` says what holds on the way there: what is
published without a fix at each stage of a frame (`NoFix`), that the
publications since a picture was begun are recorded (`Recorded`), that each lap
copied, drawn and shown so far is one of them (`Laps`), the same of the speed
(`Speed`), and that the frame buffer belongs to this life (`Life`).

`GpsTaskProofs` proves the safety properties of the receive path, `TypeOK`,
`ReadNeverBlocks`, `ChunkIsInterrupt`, `InOrder`, `TerminatorInside` and
`NeverBackwards`, for every FIFO, ring, queue and line buffer with FIFO smaller
than ring and line buffer (`uart_driver_install` checks the first; `line` has 256
bytes and the FIFO 128) and every stream of sentences.  The heart of `GpsInv`
is an account: each event in the queue has announced what the one before had
plus its own size (`Chain`), the task has read exactly what was announced up to
its event, and the ring holds at least the rest, the surplus being a lag that
never shrinks (`Account`).  `Order` and `Past` follow the bytes from FIFO, stash
and ring to the line buffer: nothing still to be read is older than what the
line buffer or `applied` holds.  `LastByte` is why the terminator fits.

It also proves what can be said of the stop without liveness.  `FullInv` adds
that a full ring is never empty, and that everything announced has been read
once no event is left that announces bytes; so a task that waits then has a lag
(`StopMeansLag`), and in that state every step of receiver, interrupt and task
keeps it there (`DeafForGood`), for any number of further bytes.

`DisplayBusProofs` proves `NothingOutside`, `Configured` and that `DisplayBus`
implements `PanelPicture` (`UpdatePromise`), for every panel geometry, transfer
size and number of restarts.  Two assumptions bound the geometry: at most 16
pages, and fewer than 256 columns (`WidthAssumption`: `default_x_offset` is a
`uint8_t` and "SendData can not handle more than 255 bytes", says the driver);
without the second one `RowBytes` would wrap around.  `BusInv` says where the
host is (`Control`), which command the panel waits to complete, and that it is
dark then (`Waiting`), which registers this life has set (`Registers`), how much
of the address the commands of a row have set (`Address`) and which cells hold
the picture (`Shown`).  In the refinement, a data transfer is `Write`, a failing
transfer `Restart`, `Draw` is `NewPicture` and commands stutter; the arithmetic
is that cells are numbered row by row (`RowMajor`).

`SpeedNumberProofs` is about the numbers of a sentence.  Of `SpeedConversion` it
proves `Nearest`, `KmhAccurate` and `Monotone` for every
integer width and every decimal scale that has not overflowed
(`DecimalScale`, a part of `Rescalable`; run `float_scale` shows that it can).
Monotonicity follows from nearness alone: two roundings by at most a half each
cannot reverse a strict order.

`MinmeaScanProofs` proves `AcceptedAsSent`, `RmcUsedIntact` and
`DecidesAsFormat` for every line, with any number of fields and any texts in
them, cut anywhere (`LinesAssumption`: only the last field can lack its end, and
then there is no checksum), under every parser.  `ScanInv` keeps format, fields
and outputs in step (`Position`), says where each output came from (`Sources`),
that the types scanned so far have read their fields (`Passed`) and what each
outcome says of the line (`Verdict`).  Of the seven formats the proof uses that
they have one `;` at most and begin with the only `t`.

Of `MinmeaField` it proves that scanning a fractional field never overflows its
value, for every field and every largest integer: the test against
`(INT_LEAST32_MAX-digit)/10` is exact.  It also proves `Accepted` and `Decoded`
for fields of every length.  The reference speaks of the first `k` characters of
a text, and `ReadAs` says that `sign`, `value` and `scale` are what it says of
those read so far, the scale as long as it fits.  There is a lemma per kind of
next character, and `BadCharacter` for one that cannot follow.  `Number` and
`Power10` are recursive; `Recursion` shows, by least counterexamples
(`SetInduction`), that such a definition over the numbers has a solution, so that
their equations may be used, and `Power10Grows` that a scale that fits in the end
did before.  `TextAccurate` joins the two parts: the scale of an accepted field
satisfies `DecimalScale`, and unless a result overflows, `ext_speed` is less than
0.002 km/h off the speed written in the sentence.

`I2cMasterProofs` proves, for links of every length and every number of
tolerated missing acknowledgements (`I2cAssumption`: both are at least 1): type
correctness, `LoadedInOrder`, `NotReentered`, `OkMeansSent`, and that `I2cMaster`
implements `I2cTransfer` (`Promise`).  Task, interrupt handler and controller
each see a part of a transfer, so none of these is inductive: that the registers
are loaded in order depends on which interrupts are raised when the handler runs,
and that the controller is quiet when a call begins on how the call before ended.
`LinkInv` puts a link that is neither finished nor known to have failed in one of
five places, each with the interrupts that belong to it: being sent (`Sending`),
at the END of a batch (`AtEnd`), at its stop (`AtStop`), refused (`Refused`) or on
a dead bus (`Dead`).  `Finished` and `Returned` say what is left when the event
came and when the call returns, `Running` that the controller works only for a
waiting call, `Enabled` that the interrupts the handler needs are enabled until
something fails.  There is a lemma each for the controller, the handler and the
task.  For the refinement, a step on the wire is `Send`, `Start`, `Return` and
`Reboot` are `Begin`, `Succeed` or `Fail`, and `Reboot`, and the rest stutters.

`NvsStoreProofs` proves the settings store, for every number of pages, every page
size, every set of settings and any number of power losses, those during a
recovery included.  `PagesSound` needs no more than the constants' assumptions.
`KeysUnique`, `GetsLast` and `Durable` (the store implements `SettingStore`) are
proved under `OneTypeEach`, that a setting is always set with the same integer
type: run `nvs_types` shows that `KeysUnique` fails without it.

None of these is inductive, because a call takes several flash writes and the
power may go between any two of them.  `PageInv` is about the pages: only the last
one is active, one at most is being freed and only the last item of the active
page can be half written (`Shape`); which stage of `begin` or of a call may see a
page that is being freed, a half written item or no free page (`Stage`); and a copy
is no longer than what was read of its source, so that it fits (`Copying`).
`Spare` is why the recovery always finds a free page for its copy: a page that is
being freed has a copy already, whose page is thrown away first, or not all pages
are in use.
`DataInv` is about the items.  The heart is `Unique`: of two items of a key that
count, one is the last item written to the active page (`Newest`), and the program
is at a place where that one's predecessor is still to be erased: in the call, or
anywhere in the recovery from a power loss.  An item counts (`Counts`) unless it is in a copy
of a page that is still there; `Source` and `Copied` say that such a copy holds
what its source holds, up to the place where copying is.  `NoneReplaced` is what
loading the active page has done before the last item's twin is looked for in the other pages;
`Unopened` is why formatting loses no setting: a partition without a free page has
never been opened.  `Writing`, `Replacing` and `Erasing` tie the call's variables
to the items it looks for, and `Opened` says that a call without a handle writes
nothing but a namespace that is not there yet.

There is a lemma per action and a step per part; those about items rest on lemmas
about the few ways a step changes the log (an item changes its state, is appended,
a page is appended, changes its state or is removed).  In the refinement the
abstract value of a key is the value of its last counting item (`Stored`), which
`LastAt` pins to a place.  The actions fall into classes: steps that leave all
values alone (`StepQuiet`: most of the recovery, copying and page changes), steps
that make a requested change (`StepChanges`: marking an item written, erasing one,
formatting), calls (`StepCalls`), returns (`StepReturns`) and failed or refused
calls, `close` and the power loss (`StepLeaves`).  That erasing a replaced item or
a twin is quiet is `Unique` again: the item that is erased is not the last one.

Only model-checked: all liveness (`FullEnds`, `EventuallyShown`, `Returns`,
`KeepsDrawing`, `CallsEnd`), which the prover cannot reason about.  Every invariant,
every action property and every refinement that a passing run checks is also a
theorem.

## 5. Not modelled

Nearly all of the repository's lines are the vendored ESP-IDF (network stacks,
cryptography, file systems, tools) and u8g2 (fonts, drivers of other displays),
which this firmware does not run or which hold no logic of it; the modelled
parts are the application and those paths of the libraries that it depends on.

* The SPI callback and the debug UART are not used by the firmware.
* Pixel drawing, fonts and logging.
* NVS strings and blobs (items of several entries), encryption, and errors
  reported by the flash driver.  Reading and slave mode of the I2C driver,
  transmission and the other modes of the UART driver.
* Case `'s'` of `minmea_scan`, which no parser asks for, and `minmea_gettime`,
  which is not called.
* Failure of `xTaskCreate` (`hw_display.c:203`): at start-up the heap is almost
  unused.
* A lap of 0 ms is drawn like no lap (`hw_display.c:61`); two sentences would
  have to be handled within a millisecond.

## 6. Disagreements between code and comments

* `uart_stop`: the receive interrupt keeps bytes that do not fit into the ring
  and would "send next time".  Ring 5 and queue 2 show how that time may not
  come: three interrupts of one byte, the event of the third is dropped; one of
  four bytes does not fit, so the receive interrupts are turned off; the two events
  are handled and one byte of the last item stays unread, hence
  `uart_check_buf_full` is not called again.  The task ignores the FIFO overflow
  events that follow, and the speed on the display no longer changes.
* `float_scale`: digits beyond the precision of the integers are dropped when
  the value is full, but the scale is multiplied by ten untested: a number with
  ten or more decimals and few significant digits gets a wrong scale.
* `nvs_types`: the README of `nvs_flash` promises an error when a key is written
  with another type; `Storage::findItem` takes the mismatch for "not found", so
  a second item is written and the key has two values.  If both are in the active
  page, loading it the next time erases the first; if they are in different
  pages they stay, because the twin in another page is looked for by type.
* A comment only: `minmea_rescale` rounds to nearest, half away from zero, which
  is `Nearest` of run `conversion`; the comment above it (`minmea.h:205`) says
  "Rounds towards zero", which -19/10000 at scale 1000 contradicts (-2).  The
  example in the README of minmea agrees with the code.

## 7. Plan

1. NVS strings and blobs, which take several entries of a page.
2. A composition of `NvsStore` with the application, once the application keeps
   settings; so far it only opens the store.
