# frank-test in TLA+

frank-test is the test firmware of the FRANK boards: a desktop on the master
RP2350 that identifies the board it runs on, runs the tests that board can
take, and, on a FRANK Core 2, talks to a second RP2350 (the slave) over a home
made parallel link. This directory holds TLA+ models of it, the TLC
configurations that check them and the TLAPS proofs of what holds for every
value of the constants. `PROJECT.json` maps every definition to the lines it
stands for.

    tlasany M.tla                                 parse
    tlc -workers 2 -config LinkFaulty.cfg MCLinkSession.tla
    tlapm LinkSessionProofs.tla                   check the proofs

## 1. The system

| component | source | state it keeps | operations | modules |
|---|---|---|---|---|
| link: wire | `common/link_bus.c`, `link_proto.c` | two doorbell lines, a DMA receiver per chip, the bulk divider | arm / wait / abort a receive, start / finish a transmission, set / wait for a doorbell | `LinkWire` |
| link: session | `common/link_session.c`, the loop of `slave/src/main.c` | `link_t.seq`, position in a call, tallies, watchdog | nine `link_m_*` functions, `link_m_resync`, `link_s_serve` with nine opcodes | `LinkSession`, promise in `LinkExchange`, proofs in `LinkSessionProofs` |
| link diagnostics, slave recovery | `tests/link_diag.c`, `tests/tests_link.c`, `slave/src/main.c` | is the slave up, failure count, back-off, FS line, the slave's count of high samples, its watchdog, the sweep's figures | three HELLOs, sweep, reconnect with escalation, FS reset pulse, reset test, soak, polling | `LinkRecovery`, proofs in `LinkRecoveryProofs`; what the rows conclude in `LinkVerdict`, proofs in `VerdictProofs`; the chains of calls in `LinkSession` |
| boot requests, video, settings | `core/video_request.c`, `oc_request.c`, `video_select.c`, `settings.c`, `main()` | watchdog scratch registers, FRANKID record in flash | ask for a video mode or overclock across a reboot, take it once, select and open a backend, save settings | `BootRequests`, promise in `OneShotRequest`, proofs in `BootRequestsProofs` |
| registry and run loops | `core/registry.c`, `app/main.c`, `app/dlg_burnin.c`, `tests_link_poll` | per row a verdict; totals, selection, burn-in counts | run one / all / selected, burn-in, Set Board, re-run when a slave turns up | `Tests`, proofs in `ConsoleProofs` |
| SD test and report | `app/report.c`, `tests/tests_sd.c`, `drivers/fatfs/ff.c`, `drivers/sdblock` | the card; FatFs's window, free count, directory and file objects; the saved sector | append a report, write row on the last sector | `Storage`, proofs in `StorageProofs`, `StorageHealthProofs` |
| SD card on its wires | `tests/tests_sd.c`, `drivers/sdblock`, `drivers/sdcard` of the bring-up image | the card's mode, what each driver remembers of it | three bring-ups, blocks read and written, speed row, release | `SdSpi`, a scene of `Verdicts`, proofs in `VerdictProofs` |
| board detection | `core/detect.c`, `pinsig.c`, `board_table.c` | what answered a probe, candidates, score, runner-up, verdict | probe, veto, fingerprint, decide | `Detect`, a scene of `Verdicts` |
| keyboard and pointer | `ui/ui_input.c`, `ui_input_ps2.c`, `drivers/ps2`, `drivers/usbhid` | shared HID report, PS/2 FIFO, decoder and ring, repeat timer, button and movement flags | callbacks, `ui_input_getkey`, `ui_input_pointer`, `ps2_mouse_poll` | `Keyboards`, `Pointer`, composed by `Input` |
| USB devices | `drivers/usbhid/hid_app.c`, the XInput class driver beside it, the USB rows | who is mounted where, inventory, two gamepad slots, the flags of keyboard and mouse | mount, unmount, set_config, reports, rows | `UsbDevices`, a scene of `Input` |
| pads and sound | `tests/tests_audio.c`, `app/dlg_audio.c`, `dlg_tape.c`, `drivers/nespad`, rows of `tests_board.c`, `tests_esp.c` | function of each pad, the I2S state machine, PWM slices, the hat's DAC, the gamepad's state machines | open, pass, stop of each source; rows that borrow pads; Set Board | `Pads`, a scene of `Interface`, proofs in `InterfaceProofs` |
| desktop | `app/main.c`, `ui/ui_desktop.c`, `ui_menu.c`, `ui_textpage.c` | list, scrolling, selection, open menu, dirty flags | pointer, wheel, key, poll, draw; run one or all; menus | `Desktop`, a scene of `Interface`, proofs in `InterfaceProofs` |
| dialogs that watch hardware | `app/dlg_nespad.c`, `dlg_keys.c`, `dlg_led.c`, `dlg_audio.c`, `dlg_tape.c`, `dlg_overclock.c`, `dlg_ps2.c`, `core/attest.c` | what each compares and last drew | open, pass, leave | `Panels`, a scene of `Interface`, proofs in `InterfaceProofs` |
| cursor, video back ends | `app/main.c`, `ui/ui_video*.c`, `ui_cursor.c`, `drivers/pico_hdmi`, `pico_vga`, `hdmi_pio` | two framebuffers, overlay patch, swap flags, scan-out position | redraw, present, vertical blank, scan a line | `Display`, proofs in `ConsoleProofs` |
| QSPI PSRAM | `drivers/psram_init.c`, `common/mem_test.c`, `tests/tests_memory.c` | timing registers, cache, the part | size by aliasing, sweep through the cache, two rows | `Memory`, composed with `LinkVerdict` by `Verdicts`, proofs in `VerdictProofs` |
| HDMI data-island queue, `drivers/audio.c` | `drivers/pico_hdmi/hstx_data_island_queue.c` | | | not modelled, section 16 |
| other rows, drawing, third-party code | `tests/`, `ui/`, `drivers/` | | | not modelled, section 16 |

How they interact. The user interface is one loop on the master's core 0: it
polls input, redraws, presents, and every 5 s lets `diag_link_try_reconnect`
probe the slave if the link is down. A test is called from that loop and blocks
it, so a wait that did not end would freeze the machine. Interrupts are few:
the PS/2 mouse's bytes on core 0 and the scan-out on core 1. A dialog is a loop of
its own inside the first one. Master and slave share two doorbell lines and a
bus in each direction, and nothing else. Everything the slave keeps is lost when
it reboots, by its own 8 s watchdog, by the master pulsing the FS line, or by
losing power. What survives a reboot of the master is in watchdog scratch
registers (requests), in flash (the FRANKID record) and on the SD card.

| shared between components | where it is modelled |
|---|---|
| doorbells, bus, divider (master and slave) | `LinkWire`, `LinkSession` |
| a slave that turns up re-runs the list | `LinkRecovery` for the probing, `Tests` (`SlaveAppears`) for the re-run |
| a request written by a menu, taken by the next boot | `BootRequests` |
| Set Board under finished rows; under set-up peripherals | `Tests`; `Pads` |
| the card under two users, report and write row | `Storage` |
| the framebuffers under core 0 and core 1 | `Display` |
| the mouse under the interface and the ports dialog | `Pointer` |
| the overclock's timings under the memory rows | `Memory` |

What is hard about it:

* the two chips are sequenced by doorbell *levels*, not edges, and every wait has
  a deadline of its own; which side arms its receiver first differs per phase;
* a reply carries a sequence number and an opcode that `link_m_recv_ctrl` does
  not look at; nothing but the order of doorbells keeps an old reply from being
  taken for a new one;
* any wait may run out while the other side is still inside the same exchange;
  the two sides then find each other again by timeouts alone;
* a request written across a reboot has to reach one boot and no other, with
  power lost, keys held or a clock the chip does not hold in between;
* an append rewrites a sector in place, may grow a chain and a directory, and
  puts off its writes; any transfer may fail and the card may come out;
* peripherals are set up once and outlive the dialog, the row and even the
  descriptor they were set up for;
* three plain words hand a framebuffer from one core to the other, and the
  sender gives up after 50 ms whether or not the other one takes it;
* two keyboards share one report, two mice share one pointer, and bytes that
  arrive while a test blocks the loop are lost;
* devices enumerate, report and leave while the callbacks of another are under way;
* two drivers that know nothing of each other bring up one card;
* a result changes the height of a row while the list is drawn, scrolled and selected from.

The state machines have a type invariant, `TypeOK`. It runs in `link_faulty`,
where it is not obvious (it carries the bounds on tallies and times the proofs
need) and is proved wherever section 15 says so.

## 2. The link: `LinkWire`, `LinkSession`, `LinkExchange`

`db[p]` is the doorbell side `p` drives. `rx[p]` is its DMA receiver: `off`,
`armed`, `late` (armed while the peer was already transmitting), `partial`
(heard part of something), `done`. `Landed` says what a transmission leaves in
a receiver: complete and good only in one that was armed, before it began, for
that kind of transfer. PIO and DMA register programming is reduced to that
question. `Fate` is the fault model: a transfer is whole, corrupted, or loses a
word, in which case the receiver never completes. `MaxFaults` bounds how often
(`faults` counts down; spurious reboots of the slave come out of the same
budget).

`left[p]` is the time side `p` may still spend in its current call, in
microseconds. `Advance` moves the clock to the next deadline once neither side
can go on without it, so code takes no time and waits take as long as the
firmware says. The timeouts derived from the byte rate (`bulk_timeout_us`) are
computed as the code computes them, at the 252 MHz clock.

A frame is `[op, ack, cur, arg, sum, good]`. `cur` stands for the sequence number
being that of the master's current request: `Call`, which bumps `s->seq`, makes
every frame in existence stale. `good` is the outcome of the checksum.

Every function of `link_session.c` is a straight line of calls on the wire with
early returns. `Script` gives that line for each function (eight on the master,
the resync included; seven on the slave, and its boot), `at[p]` says which call
of which function a side is in, and there is one action per kind of call and
outcome:

| action | code |
|---|---|
| `Arm`, `Up`, `Transmit` | `link_rx_arm(_ring)`, `link_db_set(true)`, `link_tx_start` .. `link_tx_finish` |
| `SeenHigh`, `Unanswered` (master), `Unrung` (slave) | `link_db_wait(true, t)` true / false, with the early return of the function it is in |
| `Received`, `RxTimeout` | `link_rx_wait` true / false and `link_rx_abort`, with the tally of the block |
| `MasterDown`, `Settled`, `Unsettled` | `link_db_set(false)`, `link_db_wait(false, t)` and the end of the function: next block, next function, back to the caller |
| `ResyncQuiet`, `ResyncWake`, `ResyncDone` | `link_m_resync` |
| `SlaveLow`, `SlaveDown` | the slave's wait for the doorbell to drop, and its own drop with everything that follows: dispatch, next block, reply, new divider, back to the main loop |
| `Booted`, `PowerGlitch`, `Hang`, `WatchdogBite` | the slave's life: it boots, resets at any call, or its foreground stops between two calls until the watchdog bites |
| `Call` | a caller in `tests/link_diag.c` starts an exchange, at any idle moment, in any order |

`Chain(x)` is the order in which `diag_link_run` strings the functions of exchange `x`
together, `ChecksOp` names the callers that compare the reply's opcode and
`Resyncs` those that call `link_m_resync` when the exchange fails. The two sides
interleave between any two calls.

`LinkExchange` is what all of it promises a caller, with wires and time left out: a
request is carried out at most once, success is reported only after it was,
and failure promises nothing. `ExchangePromise` is the refinement
(`INSTANCE LinkExchange WITH open, served, result`).

What makes the link correct: a transfer starts only into an armed receiver; every
phase starts with both lines low; success is reported only on the reply to the
request that was made and, for a verify, only for all blocks; every call returns;
after the last fault exchanges succeed again; the watchdog does not fire on a
slave that serves.

* `CleanWiresWork`, until the first fault: no transmission ever starts into a receiver that
  is not armed for it, every phase starts with both doorbells low, the dividers
  agree between calls, and no wait runs out.
* `DoorbellsComeDown`: a doorbell is up exactly between a function's "up" and its
  "down", on every path out of it.
* `SuccessIsEarned`: a success is the reply to this very request, although no sequence
  number is compared, and a verify that succeeds compared all its blocks.
* `MostResyncsConverge`: when `link_m_resync` returns, the slave waits for a fresh
  request, whatever failed - the M->S verify excepted, see section 14.
* `WatchdogStaysQuiet`: no chain of waits starves the watchdog of a slave that serves.
* `EveryCallReturns`, `Recovers`: every call returns; from some time on every exchange
  succeeds, also after a slave that hung anywhere in an exchange.
* `ExchangePromise`: the refinement of `LinkExchange`.

Fairness. `FairSpec` is `WF_vars(Run)`: the chips keep executing and time keeps passing.
It is weak fairness of one big action, not of each action: nothing is assumed
about which side goes first. Each wait of the code has a deadline and the clock
is part of `Run`, which is all that `EveryCallReturns` uses. `Recovers` also assumes
that callers keep calling (`CallingSpec`), because a system nobody uses shows
nothing. The run `link_progress` has the nine exchanges of the link test; the tenth,
the probe with its 200 ms patience, is left to `link_faulty`: a probe of a slave that is still
booting fails on clean wires too, and a caller who always probes at the one
microsecond the slave is turning round could be unlucky for ever, where the
firmware probes every 5 s.

## 3. The proofs about the link: `LinkSessionProofs`

TLAPS proves, for all values of the timeouts, dividers, block counts and for any
number of faults, from the two assumptions `WireAssumption` and
`SessionAssumption` (the constants are positive numbers, divider 1.00x exists):

* `Invariance`: `Spec => []IInv`;
* `TypeCorrect`: `Spec => []TypeOK`;
* `DoorbellSafety`: `Spec => []DoorbellsComeDown`;
* `ReadCoverage`: a verified read that reports success compared all its blocks;
* `PromiseInvariance`, `TakenAtMostOnce`: the slave never takes one request twice, and a
  caller that holds the reply to its own request knows that it was taken;
* `PromiseKept`: the refinement of `LinkExchange`, under two hypotheses.

The argument for the first four. `DoorbellsComeDown` says that a doorbell is up exactly when the script
of the function its side is in has passed an "up" and no "down" (`Raised`). It is
preserved by a step inside a function by `RaisedNext`, and where a function can
end early `RaisedLast` shows the script is at a place where the doorbell is down
already, or the early return drops it. The type invariant needs the rest of
`IInv`: a block counter stays below `VerifyBlocks` and a tally stays in its range only because
the tally equals the number of turns of the loop (`TallyInv`), a call index stays
in its chain only because the function the master is in is the one the chain
names (`ChainInv`), and a deadline stays a natural number because `Advance` never
goes past the soonest. `TallyInv` is also what makes `ReadCoverage` work: the chain
leaves `integrity_recv` with success only after the last block, and nothing touches
the tally until the reply. There is a lemma per action; `FinishKeeps`,
`SlaveBegins`, `PlainStep` and `EndOfReceive` are the four shapes a step has.

The argument for the promise follows the one request through the system: until the master's
transmission nobody holds it (`Unsent`); the slave's receiver can hold it only while the slave
listens and has not taken it (`TakesCtrl`); whoever serves it or replies to it has taken it
(`Serves`, `ReplyHeld`, `ReplyGiven`); and the caller has an answer exactly when its exchange is over
(`AnswerGiven`). No timeout occurs in it: "at most once" and "a reply means it was taken" hold for
every choice of them. What does depend on them is that the reply the master accepts *is* the
reply to its request, since it compares no sequence number: `SuccessIsEarned`. `PromiseKept`
therefore reads `Spec /\ []SuccessIsEarned /\ []StreamsAreAsked => ExchangePromise`, where `StreamsAreAsked` is
the same for the one exchange without a reply. Both hypotheses hold with the firmware's times:
`link_faulty` checks the first by name and the second as part of `ExchangePromise`, whose success needs
a request that was taken.

Only model-checked: everything that depends on how long the waits are relative to
one another (`SuccessIsEarned` but for the halves proved as `ReadCoverage` and `TakenAtMostOnce`, `WatchdogStaysQuiet`,
`CleanWiresWork`, `MostResyncsConverge`): they are false for other timeouts.

## 4. The runs

| run | instance and bounds | distinct states | shows |
|---|---|---|---|
| `link_faulty` | the firmware's times, two faults, all ten exchanges in any order | 520 000 | `TypeOK`, `DoorbellsComeDown`, `SuccessIsEarned`, `WatchdogStaysQuiet`, `MostResyncsConverge`, `ExchangePromise` |
| `link_progress` | one fault or one hang of the slave, nine exchanges, fairness | 577 000 | `CleanWiresWork`, `EveryCallReturns`, `Recovers` |
| `recovery` | the firmware's times, one lost probe, one mishap, FS net whole or broken | 965 000 | `PulseFits`, `PassIsHonest`, `InterfaceReturns`, `SlaveIsFound` |
| `boot` | four kinds of board, four clocks, no counter | 71 000 | `PlugCures`, `RequestsAreHonoured`, `RequestsAreOneShot`, `ConsoleIsExplained`, `BootEnds` |
| `tests` | four rows, three boards, two cycles of a burn-in | 191 000 | `RowsAreHonest`, `NothingLeft`, `StopIsHonoured` |
| `storage` | seven cards of five clusters, two reports | 372 000 | `CardStaysSound`, `HealthyCardTakesReport`, `SectorComesBack`, `CallsEnd` |
| `input` | two USB keyboards, a PS/2 one, a PS/2 and a USB mouse, pads and composite devices, six scenes | 708 000 | `KeysAreTrue`, `OnePacketResyncs`, `PointerFollows`, `DevicesAreTrue` |
| `interface` | three rows in a window of six half rows, two boards, both outputs; four boards with every sharing of pads; seven dialogs | 592 000 | `SoundIsTheDialogs`, `DesktopIsTrue`, `PanelsAreTrue` |
| `gamepad_dead` | one board | 3 000 | `GamepadHears` **violated**, section 14 |
| `display` | four benches, three changes, one stop of core 1 | 909 000 | `PictureIsWhole`, `ScreenIsCurrent`, `PresentsAreTaken`, `PresentReturns` |
| `verdicts` | memory parts with every single fault, all clocks and ceilings on offer; two dividers, five faults; eight cards, two faults, one change of card; thirteen descriptors with every rival's levels | 594 000 | `MemoryRowsAreTrue`, `LinkVerdictIsEarned`, `CardsAreTrue`, `VerdictIsRight` |
| `sd_speed` | the cards, nothing lost | 1 000 | `SoundCallsWork` **violated**, section 14 |

Every property of a passing run has a mutant of the code in `PROJECT.json`, a slip such as a
missing reset or a swapped order, under which TLC finds that property violated on that very instance.
Deadlock is checked, except in `verdicts` and `sd_speed`, where the boot goes on
and the row is over.

`Input`, `Interface` and `Verdicts` put models that share no variable side by side and pick one of them as
the run's scene, which costs the sum of their states instead of the product; each header says which
state of the code would have to be shared for that to be wrong.

Bounds of the link. `VerifyBlocks` is 2 where the firmware has 16: the loop needs a
first, a last and a next block, all of which 2 gives, and a block that is lost gives the
same states whichever it is. The two dividers (1.00x and 2.00x) are enough for the sides
to disagree. Two faults are enough for a fault in the recovery from a fault. The
other bounds are named in the sections of their modules.

## 5. Finding and reviving the slave: `LinkRecovery`

One level up, an exchange is a single step: a probe is heard or runs out of
patience. What is modelled in full is who probes, how often, what a failure
leads to, and what the slave does meanwhile.

| state | code |
|---|---|
| `at`, `job`, `n`, `wait` | where the master is: in a probe, a pulse, a sleep, for which caller, which attempt, how long still |
| `todo`, `spell`, `verdict` | rows of `run_all` still to come, time left of `SOAK_MS`, how the last row ended |
| `next` | `next_link_probe` of `main()` |
| `fails`, `backoff` | the statics of `diag_link_try_reconnect`; of `fails` only its parity is ever used |
| `contacted` | `s_result.contacted` |
| `slave`, `boot`, `dog`, `ticks`, `tick` | absent, booting from cold or warm, serving, hung with or without interrupts; time left of boot and watchdog; `high_ticks` and the phase of the slave's 40 ms timer |
| `reboots`, `news`, `pulsed` | history for the properties only |

`HelloHeard` .. `SweepOver` are `diag_link_run` for the two rows that call it,
`ReconnectHeard`, `ReconnectUnheard` are `diag_link_try_reconnect` for the idle loop
and for "Processor link", `FirstHeard` .. `PulseOver` are `diag_link_reset_slave`.
`End` and `RunRows` are `run_all` going from row to row; `Poll` and `Command` are the idle
loop. `Booted`, `FsTick`, `WatchdogBite` are the slave; `Hang` and `Reflash` are what may
happen to it. `Advance` moves time to the next deadline.

`Command` needs `next > 0`: the loop polls the link on every turn, so a user who keeps
starting runs does not keep the poll from happening.

The run `recovery` uses the firmware's own times, with `SOAK_MS` shortened from 30 s to
6 s (two sweeps: a first and a repeated one), a 6.3 s cold boot (longer than the
5 s between two probes), a 1.2 s warm one, and the FS edge at either extreme of the slave's
timer period. The FS net is whole or broken, one probe is lost anywhere, and one
mishap (hang, lock-up, reflash) strikes anywhere: 965 000 states.

* `PulseFits`: the pulse (250 ms) is over before the slave samples again, so one
  test is one reboot, and "Slave reset" never fails a slave that answered its first probe;
* `PassIsHonest`: until a probe is lost, a passed test means a reboot;
* `InterfaceReturns`: every row and probe ends;
* `SlaveIsFound`: a slave that is there is contacted in the end, also when it locked up
  with its interrupts off (its watchdog's doing) or booted late (the back-off's).

Fairness is again `WF_vars(Run)`: both chips run and time passes. The user, the mishaps
and the wire are not fair.

Proved in `LinkRecoveryProofs`, for any times, boot lengths, numbers of lost probes and
mishaps, from `RecoveryAssumption`: `TypeCorrect`, `ResetTestIsHonest` (`Spec => []PassIsHonest`)
and `ResetTestIsFair` (`Spec => []PulseFits` for all times that fit).

`PassIsHonest` speaks only of the last phase of the reset test and is not inductive. `ResetInv`
adds that from the pulse on the slave is not absent, and that if it is booting it has
rebooted within the row: the "went away" probe then finds either a slave that serves, and
is heard, or one that has rebooted or hangs, and a hung one serves again only through a
reboot. `LostStays` carries the condition that nothing was lost.

`ResetTestIsFair` replaces the firmware's times by what about them matters. `Timings(outage)`
asks that the pulse is longer than the detection threshold and one sampling period together
(250 >= 120 + 40), that every boot is longer than pulse and probe (1200 > 450), and that the 100
probes for the slave's return last longer than one outage more than there can be mishaps, plus what
lost answers cost (29 900 > 18 900 ms, for the 9.3 s that a hang with its watchdog freshly fed takes).
`MCLinkRecovery` has TLC evaluate it for the firmware. The invariant has four parts: `PlaceInv` (FS is
high in a pulse and only there), `OutageInv` (one mishap, one outage), `PulseInv` (time left in the
pulse plus time already counted covers the next tick and the threshold; a slave that reboots in the
pulse is away until the probe that should miss it is over) and `BackInv` (a budget: what the slave
still needs, mishaps to come and answers to be lost are less than what the remaining probes last).

## 6. What a verdict proves: `Memory`, `LinkVerdict`, `SdSpi`, `Verdicts`, `VerdictProofs`

Four things draw a conclusion from many small steps; `Verdicts` puts each on
its bench (they share nothing but the run). Detection, the fourth, is section 11.

`Memory` is the QSPI PSRAM from boot to row. `Timing` is `psram_init`'s divisor, RX
delay and select times, computed in femtoseconds as the code does; `KeepsUp` is what
the part and the register fields ask of them, and a part that is not kept up
with reads as junk. A part is a function from address to cell, dead cells and a rating: every way an
address line can be dead, stuck or doubled is such a function. `Probe` and `Size` are
`mem_test_psram_probe`, `Store`, `Clean`, `Invalidate`, `Verify` the sweep, with a
cache that may write any line back whenever it likes.

`LinkVerdict` is `diag_link_run` at the level `LinkExchange` justifies: an exchange is
one step that succeeds, or fails and leaves open what it did to the slave. `bad`
counts what went wrong, `proved` the verifies that were clean and at which divider.

`SdSpi` is a card on four wires and the three drivers that bring it up: the bit-banged one of
the rows, `sdblock` under the report, and `drivers/sdcard` under FatFs in the bring-up image
(`image` says which program runs). One step is a command and its answer, or a block. `card.mode` is what the
card is ready for, `sees[d]` what driver `d` remembers of it, `ill` whether anything
went wrong for the call; answers and blocks get lost, a commit may be slow, and the card may be changed
between calls. Taken as given: a read of several blocks is ended by CMD12 or by deselecting the card. The report's own
multi-block read is not modelled: no report reads more than a sector at a time.

* `MemoryRowsAreTrue`: if both rows pass, every word of the size shown has a cell of its own that
  holds what it is given (`PassMeansMemory`); and a sound part passes at its size, at every clock and
  ceiling the overclock dialog offers that is not above its rating (`GoodPartPasses`);
* `LinkVerdictIsEarned`: a passed "Processor link" has moved every divider's blocks both ways, with
  both chips at that divider and not a byte wrong; a failed row of either kind has
  something to show for it;
* `CardsAreTrue`: a driver that has a card up has it ready and of the size its register says
  (`UpMeansReady`); what was moved is the sector asked for (`SectorsAreTheOnesAskedFor`); a sound card to
  which nothing happened is not refused, but for the speed row (`GoodCardsWork`).

Bounds. `Low` = 2 and `Steps` = 3: four words to a megabyte, parts of 1 to 4 MB, so that the
first, a middle and the last doubling exist; `CacheSize` 2 forces evictions in the middle of a sweep. The benches are sound parts at
12 clocks and 6 ceilings of `dlg_overclock.c`, and every single fault at the built-in clock.
Two dividers, three HELLOs as in the code, five bad exchanges: enough for a handshake to fail and
for each exchange of a divider to fail once. The XIP window limit of 16 MB, beyond every
part in the fleet, is left out. A slave that reboots between two exchanges is back within
the master's 2 s patience and goes unnoticed; the model has it, and the property speaks of a row without it.
Cards of every kind with the smallest and the largest register fields (`Width` scales the 32 bits of a
capacity with them), two faults, one change of card.

Proved in `VerdictProofs`:

* `LinkInvariance`, `LinkVerdictEarned`, for every list of dividers, wires and number of faults. `LinkInv`:
  as long as the slave has not rebooted both chips are at the divider being tried (`BothAtTheRate`); what the result
  holds against the link did happen (`BlameIsBad`); a sweep not yet failed has proved every divider behind it, and
  of the present one whatever its figures do not deny (`SweepIsProved`); what was said is still earned when the next
  row begins (`SaidIsEarned`).
* `TwoPassesMeanMemory`: `PassMeansMemory` for every decoding, every set of dead cells and every clock. When the
  sweep verifies the cache is empty, so what it reads comes from the part; each word read right up to the place of the
  verify sits in a live cell of its own (`ReadBack`), because a cell two words share holds the later one's value.
* `CardInvariance`, `CardsTrue`, for every fleet whose registers keep to the physical layer (`SdAssumption`: a version 2
  size in sectors is below 2^`Width`, version 1 bytes are a number, at least two ACMD41s of patience). `CardInv`: what a driver remembers is
  of the card in the socket (`SeesTheCard`); a bring-up starts from nothing and leaves a card of high capacity that it takes for an old one
  idle (`InABringUp`), so that a driver is never up with a card that is not ready (`EndsReady`); and nothing having gone wrong, the card is on its
  way, with an ACMD41 left for every poll it needs (`OnItsWay`).
* `GoodPartsPass` and with it `MemoryRowsAlwaysTrue`, for every number of address lines and doublings, every cache, and every clock from 150 to 504 MHz and
  ceiling from 84 to 200 MHz (`Offered`, the range of the overclock dialog; outside it a field overflows: the longest select's from 512 MHz on, the RX delay's under a ceiling of 63 MHz or less at 504 MHz).
  `InitKeepsUp`: the divisor, rounded up, is between 2 and 6 there, and selects and deselects stay in their fields. `SoundDoublings`: a size below the part's
  is a cell of its own, the part's size is address 0 again. `PartOnItsWay`: the probe has gone no further than the part's size; in the sweep a
  word is in the cache or in its cell, and after the cache is cleaned and dropped, in its cell. The powers of two are the function `Pow2`, whose
  recursion is justified by hand: `FromZeroOn` is induction for one set at a time, from the library's least elements of well-founded orders.

## 7. Requests across a boot: `BootRequests`

A mode or a clock cannot be changed in place, so the interface writes it to a watchdog scratch
register and restarts. `BootRequests` is one board over any number of boots.

| state | code |
|---|---|
| `at` | how far `main()` is: `main` (clock), `load` (settings), `select` (boot window), `open` (backend), `run`; `erased` within `settings_save`; `hung`, `off` |
| `video`, `clock` | scratch 3, and scratch 1 with 2: a request, nothing, or what a cold register holds (`junk`) |
| `live`, `cpu`, `volt` | `s_live`, the system clock, the regulator |
| `core1` | what the other core executes from |
| `board`, `choice`, `mode` | `g_detect.board`, `g_choice.source`, `g_choice.mode` and then the open backend's |
| `record`, `kept` | the FRANKID sector as far as the console preference goes, `g_console_kept` |
| `cause`, `wish`, `hope`, `shown`, `hurt` | history for the properties only |

A clock is a name with a frequency and a voltage; `Holds` says at which pairs the chip runs.
`Stop` is the chip failing at any moment it is outside them. `PowerOff` may come between any two
steps, also between erase and program. The regulator and core 1 may or may not be reset by
`watchdog_reboot`: the code is written for either, and so is the model.

`OneShotRequest` is the promise of both headers. The clock's mailbox is emptied by the very next
boot (`MayWait` false); the video mailbox may be left alone by a boot (`MayWait` true).

The run `boot` has one descriptor of every kind in `board_table.c` (HDMI that HSTX cannot reach, HDMI
and VGA, all three, no connector) and four clocks: built-in, one that holds, the same without
the voltage it needs, one that never holds. Every list is that of the code or a representative
of each class of it; nothing is counted, so there is no other bound (71 000 states).

* `PlugCures`: a stopped board is one that was asked to overclock, and pulling the plug
  undoes it: a boot from power-on runs the built-in clock, voltage and mode;
* `RequestsAreHonoured`: the boot a request was made for carries it out;
* `RequestsAreOneShot`: the refinements, one per register;
* `ConsoleIsExplained`: the preference a boot reads is the one the menu showed, or after a failed
  or interrupted save the default or the one being saved;
* `BootEnds`: every boot reaches the interface, unless the clock does not hold or the power goes,
  under weak fairness of the steps of `main()` and of the save: straight-line code whose one wait is
  the two seconds of the boot window.

Proved in `BootRequestsProofs`, from `BootAssumption` (the built-in clock is within the PLL's reach, and it
and the fallback hold at every voltage on offer), for any boards, clocks and chip: all of the above but
`BootEnds`, which is a liveness property. `IInv` ties the place in `main()` to what has been looked at
(`Places`), says that a clock is pending only at the start of the boot made for it (`ClockPending`), that
a mode waits from its restart to the selection (`VideoPending`), that nothing but a
clock request moves the chip off its built-in clock (`OnlyAsked`), and that the sector and the menu
agree except after a failed save (`RecordExplained`). `PlugCures` needs all but the last: a boot
can hang only at a clock it was given, and it is given one only by the register.

## 8. The test list: `Tests`, and `ConsoleProofs`

| state | code |
|---|---|
| `rows`, `tally` | `ui_test_state_t` of each row and the totals `registry_tally` last computed |
| `doing`, `on` | which loop (run all, Run Selected, burn-in) is at which row, and whether its test is running |
| `board`, `selected` | `g_detect.board`, `g_desk.selected` |
| `inited`, `contacted` | `s_inited`, `s_result.contacted` of `tests_link.c` |
| `burn`, `asked` | `burn_t`, a stop waiting to be read |
| `got`, `ran` | history: the board a row last ran on, its runs in this burn-in |

A test begins and ends in separate steps with any verdict; the screen may be drawn in
between. Set Board, selecting and Run Selected come whenever the loop is idle,
`SlaveAppears` whenever the link was brought up and no slave has answered.

* `RowsAreHonest`: the totals are those of the rows whenever something may be drawn (while one
  finished row runs again they still count its old verdict, and the property says so), and the
  burn-in counts each row the board has once per full cycle (`CountsAreTrue`); a verdict on the screen was had on the board that
  is named beside it, and only from hardware that board has (`VerdictsAreEarned`);
* `NothingLeft`: a run of everything ends with no row untried;
* `StopIsHonoured`: an Esc ends a burn-in, although input is read only between two tests.

Four rows (two of the link, one for everybody, one for some) and three boards (linked, not
linked, unknown) give every answer of the capability gate; `MaxCycles` = 2 lets a cycle start over the verdicts of another.
Fairness is `WF_vars(Work)`: a test returns and the loop goes on; the user is not fair.
Assumption `TestsAssumption`: every board has a row without requirements it lacks, as the table has, or a burn-in
would go round without ever looking at its input.

Proved in the second part of `ConsoleProofs`, for any list of rows, any boards, any number of cycles: `RowsStayHonest` (`TestsSpec => []RowsAreHonest`) and
`EveryRowIsTried` (`TestsSpec => NothingLeft`). (`Tests` names its initial states, step and types `TestsInit`, `TestsNext`, `TestsTypeOK`, because that
module extends `Display` as well.) Neither half of `RowsAreHonest` is inductive. `Inv` adds where a loop can be: the row that
runs is the one its loop is at (`RunsInPlace`); behind that place no row is untried and ahead of it none has been touched
(`InOrder`), which is what makes the end of a run a run of everything; on a known board the rows marked n/a are those it lacks
something for (`GatedRows`), whatever Set Board did in between; a burn-in that reached the bound stops at a row the board has
(`CyclesEnd`). The headline of a burn-in is the number of (row, failure) pairs there were, so `FewFailures` keeps that set finite;
the totals are cardinalities, and the lemmas before them say what a row that begins or ends does to them.

## 9. The card: `Storage`, `StorageProofs`, `StorageHealthProofs`

One step is what happens between two transfers of a sector. `Mount`, `Find`, `Alloc`, `DirClear`,
`Seek`, `Stretch`, `Probe`, `Hunt`, `Mark`, `Link`, `WriteMore`, `Edge`, `Direct`, `Copy`, `SyncEntry`, `SyncFs` are FatFs's
`f_mount`, `dir_find`, `dir_alloc`, `dir_next`, `create_chain`, `f_write`, `f_sync` as this configuration compiles them, with
`Flush` and `Fetch` for the one window that everything shares and `GetFat` for `get_fat` with its range check; `Call` and `Leave` are `report_write`;
`RowRead` .. `RowConfirm` the write row of `tests_sd.c`.

Every transfer may fail; a failed write may or may not have reached the card; a sector is
whole, old or new; the power goes at any step (`PowerOff`); the card is changed between calls
(`SwapCard`), which the mounted file system does not notice. `sound` says that no power cut has left the
row's pattern in the last sector; while it is there nothing can be said of a file that owns that sector.

* `CardStaysSound`: at every instant the file is what it was when the call began and
  after that a beginning of this report (`EarlierReportsSurvive`); no cluster belongs to two chains, none in use is marked
  free, no chain loops (`NothingIsShared`);
* `HealthyCardTakesReport`: a call without a failed transfer, on a card with room, succeeds, whatever
  became of the calls before it;
* `SectorComesBack`: unless the row says RESTORE FAILED, the last sector holds what it held;
* `CallsEnd`: under weak fairness of the program.

Bounds: five clusters of two sectors of two units, a report of five units: it fills the rest of a cluster, a whole one
and begins a third; three entries to a sector of the table, so that a chain crosses sectors and the hint
`last_clst` lies on either side. Seven cards: FAT16 and FAT32, with and without a free count in FSInfo, with room, a
directory full, with only a deleted entry, with no cluster, and one that does not mount. Left out: the copy of
the FAT, which nobody reads and whose write nobody checks; the partition table; what happens on the wires below a
transfer, which is `SdSpi`.
Two branches are in the model and never fire, as in the code: FatFs's `cs < 2` checks and the
refusal of a file that is already open - the second is a theorem, see below.

Proved in `StorageProofs`, for every geometry, every card laid out as `StorageAssumption` says, any length of report and any failures:

* `StorageInvariance` (`Spec => []StorageInv`): at every instant, also after a power cut or a failed transfer, a sector of the table holds entries of
  its own clusters (free, a cluster, the end), so no text of a report ever lands in the table, and a directory entry of the report has a cluster and a size;
* `RowPutsBack`: `SectorComesBack`, on a bus that garbles no block (`~MayGarble`, the deviation section 14 describes);
* `BootSectorStays`: neither report nor row ever writes the boot sector;
* `NeverFoundLocked`: `inc_share` and `dec_share` pair up, so a save never finds its own file open.

The argument. Everything goes through one window, so `WindowHolds` says that what is in it could be written to the sector it is for,
and that the boot sector is in it only until the directory is looked at, and then never dirty: a step makes the window dirty only with
the sector it fetched for itself. `FileIs` says when `fp.sect` may be written to (it names a sector of a cluster whenever the position
is inside a sector), `ChainIs` that the cluster a chain is about to be given is one of the card's, `DirIs` that a place in the directory is one. The end
of a chain is a number without an entry of its own, which is why `get_fat`'s range check is in the model and in the proof. `RowIs` carries what the row
read through its write to the restore, and with it the sector's return.

* `CardAlwaysSound`: `CardStaysSound`, on a bus that garbles no block as well: without that the row can lose the last sector and say that it put it back.

The second invariant. `CardStaysSound` speaks of the card, and FatFs works on something else: on the card as it would be if the window were
written, `Seen`. What it decides from one is seldom written to the other yet. So `CardInv` has two pairs of chains, those on the card (C of the directory, G of the
file) and those that are seen (D and F), each `Good` on its own: the chains lead where they say and have nothing in common, at most one unit of the whole card is a
report's entry and a search comes by it, it claims no more than its chain holds, and up to there the text is what it should be. C is the beginning
of D and G that of F (`Pre`); a power cut therefore leaves a card that is `Good`, whatever was in the window. The rest is what each place has to know for its step
to keep that: the search has ruled out what it went past (`Searching`); a directory that grows has no free unit and the card no report (`DirGrows`), which is why
linking a cluster before clearing it does no harm; the cluster that is marked is free in the table that is seen, and the one that is linked nobody's
(`Linking`); while the file is open the size in its entry is still the old one, so that all that is written lies behind what the entry claims (`InTheFile`,
`InTheCluster`), and the window is dirty only with a sector of the table, the entry's or the file's current one. A clean window holds what the card does (`Fresh`), but for
the one sector that is about to be filled. The row's part is that the card with the saved sector put back is `Good` (`RowBefore`). The proof is one lemma per step
(`FetchSound` to `RowSound`), on lemmas about what a chain holds (`ChainFound`: FatFs's walk along the table finds just the chain there is; `TableRead`,
`FilePlaceAt`: division by sectors and clusters finds each unit once) and about what changes leave in order (`ChainsLinked`, `EntryMade`, `GoodTexted`,
`GoodCleared`). Before the proof TLC checked `CardInv` on the run's instance, with the chains `ChainFrom` finds for C, D, F and G.

* `HealthyCardAlwaysTakesReport` (in `StorageHealthProofs`, which goes on from there): `HealthyCardTakesReport`, on a bus that garbles no block.

The third and fourth invariant. A save fails for want of room only where the code looks for room: at the entry, at a cluster for the directory, at each cluster for the
file. `create_chain` trusts a count, `fs.free`, before it looks, so `FreeInv` says that no more clusters are free than the program counts, nor than FSInfo counts on the card: a call that was
cut off may have left FSInfo with a count that is too high, never with one that is too low, because a cluster is taken from the table before it is from the count. `HealthInv` then
says of a call that has met no failure, on a sound card that had room for it, how many clusters it can still need at its place (`Need`, less those the file has, `Has`, and the one that is marked
and not linked yet, `InLink`) and that as many are free in the table that is seen; that what a search for a free cluster has passed is taken (`Hunted`), so that a search that comes all the way
round would contradict the count; and that in the end the file holds what it held and the report (`Whole`). The lemmas are one per step again (`FetchHealthy` to
`SyncFsHealthy`), on lemmas about what each step does to the number of free clusters (`MarkCalm`, `LinkCalm`, `FreeCalm`).

Only model-checked: `CallsEnd` (liveness).

Seen on the way: a directory that grows links its new cluster before it clears it, so a power cut
shows old text as entries, which FatFs's own reader survives; `fs` stays registered after a failed `f_mount`.

## 10. Keys, pointer, devices: `Keyboards`, `Pointer`, `UsbDevices`, `Input`, and `InterfaceProofs`

`Keyboards` has the report `hid_app.c` keeps for all keyboards, the comparison and the typematic
repeat of `hid_getkey`, the PS/2 FIFO and the set 2 decoder. `Pointer` has the ring the PS/2 interrupt fills, the
packet loop and failsafe of `ps2.c`, the flags of `hid_app.c`, the two blocks of `ui_input_pointer`
and the second reader, the ports dialog. `UsbDevices` has the mount and unmount callbacks, the inventory, the two gamepad
slots with the maps they are read by, and the XInput class driver. Keys and pointer share no state in `ui_input.c`, and
neither asks who is plugged in but for a flag each, so `Input`
runs one of six scenes at a time instead of their product.

* `KeysAreTrue`: every press a poll could see is counted once; a repeat needs a hand on the key
  (unless a keyboard was pulled out with a key held: see below); with the FIFO drained and nothing
  lost to it, the PS/2 map is the keys that are down, with no prefix left over and Alt not stuck;
* `OnePacketResyncs`: however many bytes were lost, one whole packet of small movement puts
  the driver back in step;
* `PointerFollows`: a button that stuck is let go once the mouse falls silent, and a poll that finds PS/2
  movement reports it, with a USB mouse plugged in or out, as long as that one does not push at the same time;
* `DevicesAreTrue`: the inventory is what is on the bus; a slot belongs to a pad that is there and shows what that pad last
  reported; a report goes where its interface's usage says, whole; and every mounted interface is listened to - each
  with the exceptions of section 14.

Bounds: two keyboards, since one report for all is the hazard; two keys held, three presses: a key over another, and a
third after a release; a FIFO of three (eight in the chip) overflows inside an E0 F0 sequence; a ring of five keeps one
whole packet and a piece; three addresses and four HID instances, so that slots, addresses and instances run out.
Taken as given of TinyUSB, which is not in the repository: the lowest free address and instances, one enumeration
at a time, callbacks of other devices while a `set_config` waits, all interfaces closed when a device leaves.
Fairness: the loop polls (`PollByte`, `Deliver`, `ReadPanel` as one action) and two seconds pass.

Proved in `InterfaceProofs`, for any number of keyboards and keys, any depth of FIFO, any ring that holds a packet, and any
devices, addresses and HID instances:

* `MouseAlwaysResyncs`. `RingInv` says of a packet that came whole what is left of it in the ring, and from that how far the driver's own packet can have
  come: with one byte left to read it is not waiting for its second, so that byte is never taken for a first one that would start a packet.
* `KeysAreAlwaysTrue`, the whole of `KeysAreTrue`. `UsbKeyInv`: the report kept for all keyboards is one plugged keyboard's, and while one is used at a time
  it is that of each with keys down; presses already counted and those the next poll will see make up all there were. `Ps2Inv`: the bytes still in the
  FIFO lead the decoder from where it is to the keys that are down. That is a statement about decoding a sequence, which a recursive definition would
  put out of reach; it is said as "there is a run of the decoder" (`Reading`), which a byte more extends (`ReadOne`) and a byte read shortens, and compared with the
  function of the code at the first place where the two would differ.
* `DevicesAreAlwaysTrue`, the whole of `DevicesAreTrue`, if `WellDescribed`: a report cut short is not also a whole one, and no pad reports a silence
  (TLC evaluates it on `MCInput`'s devices). `Wiring` is how bus, instances and enumeration agree: an instance is one interface's, and what is
  enumerated is there unless it went while its `set_config` waited. On it rest `InventoryInv` (each mounted interface is in the inventory
  once), `ArmedInv` and `InfoInv` (who is listened to, and what the driver knows of it), `PadInv` (the driver has what the pad reported last) and
  `SlotInv` (a slot's holder is there, and holds no other). The step that needs an idea is an unplug: the code clears a slot per interface
  that closes, not the slots of the device, and `AllAreCleared` counts that there are as many closings as slots.

Seen on the way, and not asserted: `s_rep_kc` may be another key than `s_rep_key` (F5, then Up, in
one report); a keyboard unplugged with an arrow held repeats for ever, and a mouse unplugged with
its button held leaves `ptr.button` down; a
press on a repeat tick is counted and not delivered; with two mice the USB block overwrites
the edges the PS/2 block found, against "the two cannot disagree" (`ui_input.c`, about line 152); the
failsafe also releases a button that is really held, after two seconds, and the
interface learns of it at the next movement.

## 11. Which board is it: `Detect`

`truth` is a board: its chip, the parts that answer, and the level of every pin, those the
descriptor is silent about included. `Silicon`, `ProbePsram`, `ProbeI2c`, `ProbeOneWire`,
`ProbeLink`, `Veto`, `Fingerprint`, `Candidates` and `Decide` are `detect.c` in its order, `Score` is
`pinsig_score`, `Classify` the majority vote; the table is that of `board_table.c`. It is the fourth scene of `Verdicts`.

`VerdictIsRight`: every board of the table, on each chip it comes with, with and without its DS2401 and its
peer, its unspoken pins as any rival would like them, one sample of one pin wrong on each reading (which two others
outvote), is
named - or asked for among the pair that nothing electrical tells apart, and those two are all that is
offered (unless a floating doorbell on silicon with the pull-down anomaly was taken for a peer).
One board is excepted, in the property itself: a FRANK with a module of the larger chip, which `board_table.c:236-242` says is fitted, is
quietly named as another board when all of that board's longer signature fits its pins too (`Outscored`; with no
peer misheard that is "pga"). The property still says that nothing less than such a full match outscores it; that
nobody is asked is in section 14.

`Fleet <- Healthy` (`Verdicts.cfg`) is every board with the parts and pins its descriptor says. Three samples are the code's.
It is a statement about these thirteen descriptors and true of no others, so there is nothing to prove for every
fleet. What happens to boards that are not as their descriptor says is in section 14.

## 12. The operator's side: `Desktop`, `Pads`, `Panels`, `Interface`

None of the three reads a variable of another's, so `Interface` runs one of them at a time.

`Desktop` is the event loop over the desktop or the text page: `at` is the step of a pass (pointer, wheel, key, poll, draw), `kinds` the
height each row's detail needs, `first` the rows scrolled off, `sel` the selected one, `geom` what the last draw laid out,
`open` and `hl` the menu, `dirty`, `menuOnly`, `fresh` the flags of the loop and what they did to the screen. A test that runs draws for itself (`Result`),
with its status line if it has one. `DesktopIsTrue`: when the loop rests the list on the screen is the list, but for a redraw of the menus alone (`ListIsDrawn`); a row
the list was moved for is on the screen, and whole (`SelectionIsWhole`, `PageShowsSelection`); in an open menu Down comes past everything
it offers, and a key is that of the item it is drawn beside (`MenusReachAll`). Three rows, of which one wraps beside the scroll bar only, one
may wrap and one shows a status line, in a window of three plain rows: the bar appears and goes, and each kind of row
can be first, last and cut.

`Pads`: `fn` is every pad's function. The audio engines (`PassI2s`, `PassPcm`, `PassPwm`, `PassTs`, `StopAudio`), the gamepad driver,
the tape, LED and ESP-01 dialogs and rows and the short scan take pads in any order; `SetBoard` changes which pads are
whose while everything stays set up. Dialogs are modal, so a row or a dialog is one step or an
open / close pair. `SoundIsTheDialogs`: a melody that is said to play is driven onto the pads of
the source that was chosen, by an engine set up for them and running; and when its dialog is closed no bit clock, PWM slice or
open DAC goes on. The four boards are every sharing of pads in the table; there is no counter. The
PCM5122 hat may be pulled off while it plays, and a PWM pass may fail because its counter reads the same twice (about
once in a thousand passes a healthy slice has gone round a whole lap). I2C, SD, PS/2 and video pads, which nothing here takes, are left out; a PIO claim always
fits, as the program sizes allow.

`Panels` has the seven dialogs that watch something: gamepads, keyboard, LEDs, sound with its questions, tape, overclock, PS/2 ports.
`mem` is what the dialog keeps, `real` the hardware and what outlives the dialog, `shown` what its last picture says. A pass
drains the keys typed since the last one, looks at its button, asks the hardware and draws, always or when what it compares
has changed. `PanelsAreTrue`, a conjunct per dialog: the buttons lit are those of the last read or the one before;
Esc closes the keyboard panel, but not before it was seen lit; the LEDs are what the panel says, and dark when it is gone; the channel named is the one
that plays, and "by ear" in the report is what the operator last said, where leaving or a stall says nothing; a tape up to a tenth off its speed is told from silence and hum, and its
pilot from its data; the overclock dialog opens on what is in force, and applied as it opened changes nothing; the ports' counters climb.
`MaxMoves` bounds the values changed in the overclock dialog, over all its restarts; `MaxCount` what the ports' counters count to. `UsbKeysAreCounted` is
defined and not run: section 14.

Proved in `InterfaceProofs`, from the inductive invariants `PadsInv`, `PanelsInv` and `DeskInv`:

* `SoundIsAlwaysTheDialogs`, for every fleet of boards as `PadsAssumption` says: pairs of pads that exist, and a mux only where I2S is
  wired (TLC evaluates it for four of the table's descriptors). The property alone is not inductive: that a row or another dialog finds nothing sounding
  needs that only a source's own dialog lets its engine run (`i2s.on`, the slices, the DAC), and that a slice left running is one of
  those that `StopAudio` stops. A change of board keeps it because no dialog is open then, not because the pads are the same.
* `PanelsAreAlwaysTrue`, all seven conjuncts, for any sets of LEDs (`LedsAssumption`) and any bounds. A dialog's hardware is compared with its memory, and
  its memory with its picture. What the conjuncts need beyond themselves: the FIFO of the gamepads holds no more
  than one sample, and an older reading only while it holds one (`PortFollows`); the brightness of an RGB LED is a multiple of 16 going up and one
  short of one going down, so that the turn at the bottom is dark (`LedPanelInv`); the operator's answer in the report is the one given here or, while none is, the one before
  (`AudioPanelInv`); an overclock dialog in which nothing was moved has selected what is in force, which is in every table (`OpensOnForce`).
  The tape needs a bound on each half pulse and each mean (`HalfPulses`): the edges of 25 ms, counted with any offset, against each half pulse the recorder
  may give.
* `DesktopIsAlwaysTrue`, for any number of rows, any details, any window of two plain rows or more, any page of a line or more and any boards (`DeskAssumption`; a
  window of less could not hold a row whose detail wraps). The invariant says at what width the rows on the screen were laid out: that of the list
  as it stands (`WidthOf`), unless the screen waits for a draw or a status line was drawn over it, and then nothing is promised of the selection. `ShowingSeats` is the
  heart: `ui_desktop_first_showing` works at the width of the last draw, and its result may scroll the first row off, so that the next draw has a bar and wraps
  more rows - but then the last draw had one too, or the whole list fitted. For the menus: a key is drawn beside one item (`KeysAreUnique`), a Down that does not come to an item
  comes nearer to it (`Nearer`), so nine come past all (`DownsReach`). The minimum of a set of numbers exists by a smallest
  counterexample (`LeastOf`, from well-foundedness), and the recursion of `Downs` by giving its function.

## 13. From a change to the connector: `Display`, and `ConsoleProofs`

Core 0: `Pass`, the dialogs, `Paint`, `Arm`, `Post`, `Taken`, `GiveUp`, `Publish`, `ClearPage`, `TurnPage` and the pointer
overlay. Core 1: `Irq` and `EndTaking`, the scan-out interrupt of HSTX HDMI and VGA line by line with the three stores of the
vertical blank callback apart; `PioLine`; `Stall` and `Resume`, core 1 losing its flash. A screen is two
rows, one that menus cover and the rest; a cell has what was painted and whether the pointer is in it.

* `PictureIsWhole`: what goes down the cable is one finished picture, until a present is given up;
* `ScreenIsCurrent`: when core 0 rests, every row shows the last change and the pointer is where it is
  and nowhere else;
* `PresentsAreTaken`: a present that is taken leaves the scan-out on its picture, and one is given up
  only if core 1 stood still;
* `PresentReturns`: core 1 running or not.

Fairness: core 1's interrupt comes while core 1 runs, and core 0 goes on within a present; nothing makes core 1
resume. Bounds: three changes (one on the screen, one behind it, one more), one stop. The benches are the four back
ends, with and without a mouse. `Dialogs` has the two kinds of dialog that keep the overlay's rule, `Busy` is
FALSE; section 14 has the others.

Proved in the first part of `ConsoleProofs`, for any benches, any number of changes and any number of stops of core 1:

* `TypeCorrect`;
* `PresentsTaken` (`Spec => PresentsAreTaken`), with every kind of dialog;
* `PictureStaysWhole`: `PictureIsWhole`, busy passes and PIO with a mouse included, if no dialog moves an overlay it did not
  forget (`"led" \notin Dialogs`);
* `ScreenStaysCurrent`: `ScreenIsCurrent`, if in addition `Busy = FALSE` and the PIO driver has no mouse (`Frugal`).

These hypotheses are exactly the deviations of section 14: with any of them dropped TLC shows the property violated. The argument:
a present that nothing was pending before is `Waiting`, `Halfway` or `Gone`, and only the buffer that is not shown is
written in any of them (`Handshake`, `OnTime`); so from the moment it is taken every row of the shown buffer keeps the paint it was taken with, and
so do the line copied out of it and the one being sent (`Shown`). While a dialog of the careful kind rests, the overlay's patch is what
is under the pointer (`Overlaid`), so restoring it restores the row. For the second property, `Composed` says that core 0's
own buffer has every row's last change at each place of a redraw, full or clipped.

## 14. What the code does and its comments do not say

The models were written from the code. These are the places where it and the
words beside it part. Where a property is named, it states the words; it is defined in the module and
not run (`gamepad_dead` excepted), and adding it to the cfg as said shows the behaviour.

Link:

* "any wait it is parked in has definitely expired" (`link_session.c:219`): after an M->S verify that lost a word
  the slave has 4.1 s of waits ahead, the resync sleeps 2.5 s (`ResyncConverges`).
* "both sides change over on the same message boundary" (`link_diag.c:139`): not if the acknowledgement is
  lost (`RatesAgree`).
* `link_proto.h:130` and `link_session.h:87`: the tally of unfinished blocks is returned. The master
  gives up after 102 ms, before the slave counts such a block (133 ms). `link_proto.h:67`: no code sends `BULK_S2M_ACK`.
* "Verified pass at the same rate" (`link_diag.c:280`): a slave that reboots between two exchanges is back in
  time, at 1.00x, and the verify is not at the rate (`LinkVerdict!VerifiedAtTheRate`).
* "A single error fails the row" (`tests_link.c:137`): the soak adds up `byte_errors` of the first divider only
  (`tests_link.c:170`); an incomplete verify, a refused rate, an error at another divider counts as
  clean (`SoakToleratesNothing`). "N byte errors at peak" says 0 when the failure was of another kind (`tests_link.c:83`).
* The slave's memory self-test is fetched and nobody looks at it (`link_diag.c:209`, against `mem_test.h:19`).

Recovery:

* "Ask it to reboot before giving up" (`tests_link.c:74`): the pulse comes on every second failure only, so the first row
  that says "asked slave to reset" has not asked.
* "one that boots late, gets reflashed, or reboots on its own has to be noticed" (`main.c:1353`):
  `tests_link_poll` stops looking once a slave has answered.
* "Returns true only if the slave went away and returned" (`link_diag.h:78`): one lost probe and a broken FS net
  pass without a reboot, which is why `PassIsHonest` has its condition.

Boot and settings:

* "Survives the reboot, nothing else" (`video_request.h:29`): a boot with a usable key held returns before the request is taken,
  and a later restart obeys it.
* A save "must not run with the other core executing from flash" (`settings.h:73`): the menu's does
  whenever the picture is HSTX HDMI (`FlashIsLeftAlone`, in `Boot.cfg`).
* Key A "falls through to autodetect below" (`video_select.c:202`): it falls into the request first.
* `oc_request.h:23`: a mode switch drops the overclock in force without a word (`main.c:895`).

Tests and rows:

* "An unidentified board runs nothing" (`registry.c:72`): Run Selected asks nobody
  (`UnidentifiedRunsNothing`). Choosing the board that is set already is said to do nothing (`main.c:438`) and wipes
  the verdicts. `s_inited` is never cleared, so a link brought up on one descriptor is polled, and its rows re-run, on
  another. A burn-in that is stopped leaves its untried rows at "?".
* `tests_psram_spi.c:205-240` writes and reads one block at a time, so a dropped address line or a smaller part is never seen,
  against the comments at `:190` and `:221`.
* `main.c:853-861`: at 504 MHz and a flash ceiling of 66 MHz the RX delay is 8 and its field has three bits; the ceiling can be
  passed by a sixteenth through rounding. The memory rows and the burn-in report what the boot measured.
* `sd_speed`: "a multi-block read is one command and then data until told to stop" (`tests_sd.c:483`). The speed row's buffer is a pointer, so its `sizeof` takes 4 bytes of
  each block (`tests_sd.c:557`), and the wait for the next token reads the rest as tokens: a sound card fails unless its data happen to look like one. `SoundCallsWork` is
  **violated**; `CardsAreTrue` asks it of every other call.
* The restored sector (`tests_sd.c:706`): the comparison's `sizeof` is a pointer's, so 4 bytes of 512 are looked at, where
  `:616` says the restore is verified and the row says 512 (`MayGarble = TRUE` in `Storage.cfg` violates `SectorComesBack`).
* "Written to ... on the SD card" follows `f_write`; the last sector, the FAT and the entry are written by `f_close`,
  whose result is dropped (`report.c:205`, `Storage!SavedMeansOnCard`).

Cards on their wires (all in `SdSpi`):

* `sdblock` does not look whether its wait for ACMD41 ran out, nor at the echo of CMD8; that a card is ready afterwards all the same is `UpMeansReady`.
* A lost answer to CMD58 makes a card of high capacity byte addressed, for rows and report alike (`blind`).
* A version 1 register of 4 GB overflows `sectors_from_csd` to 0 (`Fits`). `s_card` is stale after a change of card (`changed`).
* A bring-up by the report that fails leaves the card idle, and the rows, which think it up, are refused.
* The wait for a data token is 40000 bytes, about 25 ms at the report's rate.

Input:

* "pressed: went down since the last poll" (`ui_input.h:33`): the PS/2 block runs only when there was movement
  (`ps2.c:964`, `ui_input.c:174`), so a click of a mouse at rest is not seen (`Pointer!ClickIsReported`).
* `dlg_ps2.c:290` reads the mouse after `ui_input_pointer` has taken its movement, so its counter
  hardly counts (`Pointer!PanelSeesTheMouse`).

USB devices (`UsbDevices`):

* "Check if USB gamepad at specific slot (0 or 1) is connected" (`usbhid.h:101`): a pad pulled while its `set_config` waits leaves a ghost slot, and a wireless pad
  that is switched off keeps slot and buttons (`ConnectedMeansThere`).
* The connected flags are not counts: unplugging one of two keyboards hides the other, and a keyboard or mouse without boot protocol sets a flag that unmounting never
  clears. `prev_kbd_report` survives an unplug.
* Reports of another interface of a composite device are taken for the pad's; a boot interface with several report IDs reads all of them as its own kind.
* A third XInput pad never gets a slot, also after one became free; a third HID pad that gets one late is read by the fallback map.
* XInput pads are not in the inventory, so the USB rows say "nothing enumerated" with one plugged in. Nothing drains the queues `key_action` and `raw_char`.

Desktop (`Desktop`):

* "A status line the operator never sees is not a status line" (`main.c:776`): the outcome of a test that shows a status line is drawn over by it until
  something else redraws (`main.c:568-571`, `:768-780`, `:1272`; `ResultsAreSeen`).
* `g_menu_only` stays set when a run started by a slave that turned up clears `g_dirty`; the next redraw is of the menus only.
* "Scroll so it is whole" (`ui_desktop.h:156`): a click on a part-drawn row selects it and does not scroll (`main.c:1248`). Bar and wheel count the part-drawn row as shown, the thumb
  does not. `first_visible` survives `registry_prepare`, and Run Selected may leave its row cut.
* A Save Report that fails shows the lines of the dialog before it (`main.c:604-623`). A mouse on the text page clicks the desktop nobody sees.
* The help says "Y confirm screen" (`main.c:534`) and Y opens the keyboard panel; `main.c:1202` speaks of Alt+W, which is no menu.

Dialogs (`Panels`):

* "useless on the boards whose only keyboard is USB" (`dlg_ps2.c:199`): the ports dialog still does not redraw on USB keys alone (`UsbKeysAreCounted`).
* Overclock: Esc and then Enter in one batch restarts; Enter after Left or Right applies a value that was not drawn yet; a clock below those on
  offer is shown as 150 MHz.
* After one late answer the gamepad FIFO is one read behind for as long as the dialog is used, which is why `PadsAreShown` allows two reads. The text page drops button names when
  seven are held. An Esc held on a USB keyboard that is pulled keeps the keyboard panel open.
* "Forgotten at reboot" (`attest.h:26`): answers survive Set Board into another board's report. Keys typed behind the one that closes the help reach the desktop.
  The stripes of a tape stay when it stops.

Detection:

* "When two descriptors tie the firmware says so and asks, instead of picking one and being quietly wrong" (README), "picking the first is how a
  detector produces a confident wrong answer" (`detect.c:337-339`). A FRANK with a module of the larger chip and no PSRAM is as its descriptor says, and where
  its unspoken pins read as FRANK PGA's should, both score 1000; but a winner replaced at an equal score does not become the runner-up (`detect.c:300`), so the
  margin is not zero and it is named "pga" without a question. `Detect!NeverQuietlyWrong` states the claim and fails with `Fleet <- Healthy`;
  `VerdictIsRight` excepts this board and no other.
* Boards that are sold and are not as their descriptor says (`Fleet <- Sold`): that module's PSRAM vetoes FRANK, which is then named z0pa or asked for among
  core2 and core2u; a z0pa without PSRAM is vetoed as well. One wrong pin takes micro for zero.
* On A-class boards chip select 0 is probed, which leaves GP0, the console's transmit pin, routed to the memory
  controller (`detect.c:93`). "every candidate with I2C uses GP28/29" is not so for z0pa. `claimed_pins` omits the hat's and PIO-USB's D-.

Pads:

* `gamepad_dead`: once the gamepad dialog has been open on a FRANK, the ESP-01 row leaves clock and latch as plain inputs, and
  `nespad_begin` never sets them up again (`nespad.c:117`). After Set Board the driver keeps the first board's pins.
* `tests_audio.c:159` says the short scan drives the I2S pins; of the pairs only the hat's is scanned. `dlg_audio` says only I2S can
  detect a stall; a hat that was pulled ends its dialog too. `dlg_tape.c:409` leaves the pull-up.

Display:

* `ui_cursor.c:43-52`: a dialog forgets the overlay after each present. `dlg_led`, `dlg_ps2`, `dlg_burnin` and `dlg_overclock` do so before
  their loop only (`Dialogs = {"led"}` violates `ScreenIsCurrent`); `dlg_nespad` moves it before its first draw.
* `main.c:108`: a menu-only redraw "covers everything that can have changed", but a menu key and a click or a move may come in one
  pass (`Busy = TRUE` violates `ScreenIsCurrent`). `main.c:105` ("no back buffer") and `main.c:181` are stale.
* `ui_cursor.c:95`: the text pages of PIO HDMI are in the buffer the overlay draws to (`Rigs <- PiZero`, `Display!PagesAreTheirs`;
  `ui_video.c:77` counts PIO as scanning the front buffer).
* A picture posted after a present was given up can be lost until the next one. One line buffer is refilled while it is
  sent, so a slot shows its row or the one below, which `PictureIsWhole` allows.

## 15. What is proved and what is only checked

Every theorem holds for all values of the constants that satisfy the named assumptions, and for any number of faults. What a
theorem needs beyond those is in its statement.

| module | theorems about properties the runs check | others |
|---|---|---|
| `LinkSessionProofs` | `DoorbellSafety`, `TypeCorrect`, `PromiseKept` (if successes are earned) | `Invariance`, `ReadCoverage`, `PromiseInvariance`, `TakenAtMostOnce` |
| `LinkRecoveryProofs` | `ResetTestIsHonest`, `ResetTestIsFair` (for times that fit, as the firmware's do) | `TypeCorrect` |
| `BootRequestsProofs` | `PlugCuresAll`, `Honoured`, `ConsoleExplained`, `RequestsRefine` | `TypeCorrect` |
| `StorageProofs` | `RowPutsBack`, `CardAlwaysSound` (on a bus that does not garble) | `StorageInvariance`, `BootSectorStays`, `NeverFoundLocked` |
| `StorageHealthProofs` | `HealthyCardAlwaysTakesReport` (on a bus that does not garble) | |
| `ConsoleProofs` | of the display: `PresentsTaken`, `PictureStaysWhole`, `ScreenStaysCurrent` (the last two without the deviations of section 14); of the test list: `RowsStayHonest`, `EveryRowIsTried` | `TypeCorrect` (display), `Invariance` (test list) |
| `InterfaceProofs` | `SoundIsAlwaysTheDialogs`, `PanelsAreAlwaysTrue`, `DesktopIsAlwaysTrue`, `KeysAreAlwaysTrue`, `MouseAlwaysResyncs`, `DevicesAreAlwaysTrue` (if reports can be told apart) | |
| `VerdictProofs` | `LinkVerdictEarned`, `CardsTrue`, `MemoryRowsAlwaysTrue` (for clocks and ceilings on offer) | `LinkInvariance`, `TwoPassesMeanMemory`, `GoodPartsPass`, `CardInvariance` |

Only model-checked, and why:

* liveness under fairness, which is out of the prover's reach: `EveryCallReturns`, `Recovers`, `InterfaceReturns`, `SlaveIsFound`, `BootEnds`, `StopIsHonoured`,
  `CallsEnd`, `PointerFollows`, `PresentReturns`;
* what is true of the firmware's own times and false of others: `SuccessIsEarned`, `CleanWiresWork`, `MostResyncsConverge`, `WatchdogStaysQuiet`;
* what is true of the given data only: `VerdictIsRight` (thirteen descriptors).

## 16. Not modelled

The map covers about a fifth of the implementation's lines; most of the rest is outside what a model of
behaviour can say anything about, or is code that does not run:

* `drivers/fatfs/ff.c`: its reading, formatting, renaming and exFAT halves, which nothing in the program calls or the
  configuration leaves out;
* `drivers/audio.c` and the HDMI data-island queue, and `drivers/pico_hdmi/video_output_rt.c`: no image of the app is built with them (`drivers/audio.c` takes the DMA interrupt
  HSTX owns, `tests_audio.c:147`). `drivers/usbhid/usbhid_wrapper.c`, `drivers/HDMI_hstx.c`, `drivers/sdcard/sdcard.c` and `uart_logging.c` are
  built into the bring-up image only;
* `master/src`, that bring-up image: a firmware of its own for a FRANK Core 2, straight-line checks without the desktop. Of it only the card
  driver is modelled;
* fonts, icons, colours, layout, text: `ui_gfx.c`, `ui_icons.c`, `ui_window.c`, the drawing halves of the dialogs;
* signals: TMDS words, HSTX and VGA command lists, the composite encoder;
* register programming of PIO, DMA and I2C, checksum arithmetic, throughput figures;
* SPI PSRAM and flash rows and their benchmarks, ESP-01 replies, I2C scans: one chip's
  dialogue each, in a straight line, whose one decision is in the row's last lines;
* the initialisation dialogue of a PS/2 mouse;
* the board, video and serial fields of the settings record, which this image never writes;
* `SLAVE_RESET_BODGE`, off by default; a master that reboots in the middle of a link exchange.

## 17. Plan

1. `LinkSession`: the timing invariant behind `SuccessIsEarned`, stated over the inequalities between the firmware's waits, so that `PromiseKept` needs no hypothesis.
2. `Detect`: `VerdictIsRight` over a table that is a parameter, with what two descriptors must differ in as its assumption.
