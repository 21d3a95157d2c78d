# A formal model of the AnalogX firmware

AnalogX is a board that samples four analog inputs and broadcasts them on a CAN
bus. Its firmware (`src/firmware`) is a small C program on ChibiOS/RT for an
STM32F042. This directory holds TLA+ modules of the parts of it that run
concurrently, configurations that check them with TLC, and proofs checked with
TLAPS.

## The system

| Part | Source (under `src/firmware`) | What it does |
| --- | --- | --- |
| `main` | `main.c`, `system.c` | starts everything; every 100 ms feeds the watchdog, and every ten seconds or so broadcasts statistics |
| `can_rx` thread | `system_CAN.c` | announces the board until it is configured, receives and dispatches messages |
| CAN API | `analogx_api.c/.h` | addresses set by jumpers, the configuration message, the provisioned flag |
| `adc_worker` thread | `system_ADC.c` | starts a conversion, broadcasts the samples, sleeps for the rest of the period |
| CAN driver | `ChibiOS/os/hal/src/can.c`, `.../CANv1/can_lld.c` | mailboxes, receive FIFO, one interrupt for all causes |
| ADC driver | `.../ADCv1/adc_lld.c`, `ChibiOS/os/hal/src/adc.c` | DMA of one conversion group |
| kernel | `ChibiOS/os/rt` | threads, events, thread queues, I/O queues, virtual timers |
| console, logging | `system_serial.c`, `logging.c/.h`, `ChibiOS/os/hal/src/serial.c`, `.../USARTv2/serial_lld.c` | text output through a queue of 16 characters |
| number formatting | `util/modp_numtoa.c` | linked, not called by the firmware |
| boot loader client | `stm32loader.py` | host tool |

Facts of the build that shape the models:

- The three threads have the same priority and `CH_CFG_TIME_QUANTUM` is 0. A
  thread runs until it blocks, and interrupts do not change which thread runs.
- One tick is 100 us. A timer is never shorter than two ticks
  (`CH_CFG_ST_TIMEDELTA`).
- Kernel assertions are compiled out, so a value they would reject is used.
- One vector serves every CAN interrupt. It runs the transmit, receive and error
  handlers whatever the cause, and the transmit handler always wakes every
  thread that waits for a mailbox.
- The cell makes one attempt per frame (`NART`), recovers from bus-off by itself
  (`ABOM`), sends in the order of the requests (`TXFP`), and a full receive FIFO
  overwrites its newest frame.
- The acceptance filter passes every frame of the bus.

## Modules

| Module | Models | Proofs |
| --- | --- | --- |
| `CanLld` | registers of the CAN cell and the driver's operations on them | in `CanRxProofs` |
| `AnalogXApi` | addresses, configuration message, dispatcher | in `CanRxProofs` |
| `CanInbox` | abstract: what the receive path promises | |
| `CanRx` | receive path, from power-up on | `CanRxProofs` |
| `CanTx` | `canTransmit` as called by several threads | `CanTxProofs` |
| `AdcPacing` | timing of `system_adc_worker` | `AdcProofs` |
| `AdcSampler` | `system_adc_sample` against the DMA | `AdcProofs` |
| `Timers` | abstract: countdowns, as the other modules use them | |
| `VirtualTimers` | the kernel's delta list of timers and its alarm | `VirtualTimersProofs` |
| `MainLoop` | loop of `main`, statistics, watchdog, reset | `MainLoopProofs` |
| `Board` | the three threads in time, around `CanTx` | `BoardProofs` |
| `Console` | abstract: what the output path promises | |
| `Serial` | output queue and USART interrupt under several threads | `SerialProofs` |
| `ThreadLists` | lemmas on lists without repetition, for the proofs of `CanTx`, `Serial`, `Board` and `VirtualTimers` | itself |
| `MCCanRx`, `MCCanTx`, `MCVirtualTimers`, `MCSerial` | instances for TLC | |

### CanLld

A record of the registers the driver reads and writes, and one operator for each
function of `can_lld.c` that the firmware uses. `UnifiedHandler` is the interrupt.
`IrqLine`, `BusReceive`, `BusTransmitted` and `BusError` are the hardware, as the
driver relies on it. A mailbox is not identified: the driver always asks for any
mailbox, and the order of requests is the order of transmission.

### CanRx

`wk` is the place in `can_worker`. Each locked section of the worker is an action,
and the interrupt can come between any two. `system_can_init` opens the cell
before the worker exists, and the worker registers its listener later still. The
event mask is one bit (`epending`), since there is one event. The history variable
`served` says that the worker has been given an event at least once.

The other threads appear as `OtherTransmit`, which fills mailboxes. The one-second
timer (`WaitTimer`) and the timeout of `canTransmit` (`TransmitTimeout`) may come
at any time while the worker waits, so no property depends on their lengths.

### CanTx

The ready list and the queue of the driver are sequences of threads, and every
thread has a timer. `Transmit`, `Enqueue` and `ReturnTimeout` are the three
things the running thread can do in `canTransmit`: load a mailbox, wait, give up.
`CanIrq` moves all waiters to the ready list and leaves their timers armed.
`TimerWakeup` is the callback `wakeup` in `chschd.c`, which must find out whether
the thread still waits. `blocked` is a history variable: ticks spent in the queue
during this call.

Receive interrupts have the same effect on the queue as error interrupts, so by itself
the module has error interrupts only; `Board` adds received frames. Whose frame is in
which mailbox is left out: the driver never asks.

### AdcPacing

System time is a counter modulo `SYSTIME_VALUES` (2^32 in the build), and the
arithmetic on it is that of `systime_t`. The clock is read twice: `Compensate` reads it
for the work time and computes the sleep as the code does, and `GoToSleep` reads it
when the timer is set (`chVTDoSetI`). `slip` is a history variable: the ticks that
pass between the two, up to `MaxSlip`. A rate of zero makes `1000 / rate` undefined,
which is modelled by any period; the properties are about the period that was taken,
and none says that a rate of zero is kept out. `MaxWork` bounds the time one cycle
takes.

### AdcSampler

A sample is represented by its age in conversions, up to `MaxAge`, which also
stands for the zeroes before the first conversion. The worker does not wait for the
conversion it starts. The DMA stores channels in ascending order while the worker
reads the buffer. The buffer is not volatile, so the model reads it in any order.
A conversion can be abandoned by an error at any transfer.

The driver does not test whether the previous conversion ended. `StartConversion`
requires it, because a conversion takes some 12 us and the worker slept for at
least 200 us.

### VirtualTimers

The armed timers are a list of deltas, the first counted from `lasttime`.
`chVTDoSetI` and `chVTDoResetI` change the list in one step and write the compare
register in a later one (`WriteAlarm`), under one lock; the counter may advance in
between. The hardware compares for equality, so an alarm written too late would
come a turn of the counter later. `EnterIsr`, `Fire` and `LeaveIsr` are the
interrupt, which the counter does not wait for either. The refinement mapping takes
as the time left to a timer the sum of the deltas up to it, less what has elapsed.

### MainLoop

`main` sleeps, counts, sends the statistics and feeds the watchdog. Of a wait for a
mailbox the module knows that it ends after the timeout or by a wake-up, which may
be fruitless (`WaitAgain`). A reset restarts everything. The watchdog's period is
that of `wdgcfg`, nominally 1.6 s. `WATCHDOG_TIMEOUT` (11000, `main.c:35`) is not
used by the code. `woken` is a history variable: the fruitless wake-ups of the current
call, zero again when `broadcast_stats` is done.

### Board

The loops of the three threads with their sleeps, `CanTx` as their common transmit
path, the watchdog, and a bus that is healthy or fails at will. A healthy bus ends every
request in `FrameTicks` and has no errors. Frames of other nodes are received on both
(`FrameReceived`), up to `FramesPerTick` in a tick. `CanIrq` is the one handler for
all causes: a received frame wakes every thread that waits for a mailbox, and each
finds none and waits again with a full timeout, in another order. The same interrupt
signals `rxfull_event` (`event`), which ends the wait of `can_rx` and puts off its
announcement (`RxReceives`, `RxServed`). What the frame says is not modelled here, but
that its dispatch may log is.

Time passes only when no thread can run and no interrupt is pending: the code between
two waits is assumed to take less than a tick. The drain loop of `can_worker` is such a
stretch, and that it ends in time on a saturated bus is part of the assumption. The
rate does not change here.

### Serial

A log line is a number of characters put one by one. A thread that finds the queue
full waits without a timeout, and `ServeByte` wakes one thread for each character
taken out. The interrupt reads its registers in `EnterIsr` and acts on them in
`ServeByte` or `ServeNoByte`, while the USART goes on. As in the code, the
transmission-end part writes `CR1` last, over what the transmit part wrote (`CR1`).
The model joins the two `chprintf` calls of a log line into one line: nothing but
the caller's own code comes between them.

## What is checked

| Run | Instance | Result |
| --- | --- | --- |
| `can_rx` | 2 mailboxes, FIFO of 2, two boards, three kinds of frame | holds |
| `can_rx_announce` | 1 mailbox, FIFO of 2, one board, two kinds of frame | violated (finding 1) |
| `can_tx` | 3 threads, 2 mailboxes, timeout of 2 ticks | holds |
| `can_tx_timeout` | 2 threads, 1 mailbox, timeout of 2 ticks | violated (finding 2) |
| `adc_pacing` | 20 values of system time, rates 0 to 3, work up to 6 ticks, a slip of up to 1 | holds |
| `adc_pacing_late` | rates 1 and 2, work up to 6 ticks | violated (finding 3) |
| `adc_sampler` | 4 channels, ages up to 3 | holds |
| `virtual_timers` | 3 timers, one of them also with delays close to the range, 12 values of system time | holds |
| `virtual_timers_reset` | 2 timers, one long, the short one is reset | violated (finding 4) |
| `main_loop` | watchdog of 16 ticks, timeout of 3, up to 6 wake-ups | holds |
| `board` | 3 threads, 1 mailbox, FIFO of 1, the bus healthy or failing at will, up to one received frame or error per tick, resets | holds |
| `serial` | 2 threads, lines up to 2, queue of 2 | holds |

A passing run checks the safety and the liveness properties of its module on the
same instance.

- **`NoLostRxWakeup`**: once the worker has been given its first event, a frame never
  sits in the FIFO with the interrupt disabled and nobody about to read it. Before
  the first event this can happen: a frame that arrives before the worker registers
  disables the interrupt and signals nobody. Any later CAN interrupt repairs it,
  because the receive handler looks at the FIFO and not at the interrupt enable.
  The worker's own first announcement causes such an interrupt when it is sent.
- **`NeverSleepsOnSignal`**: the worker never sleeps on a pending event, nor for a
  mailbox that is free unless the interrupt that wakes it is pending.
- **`AnnouncesOnlyUnprovisioned`**: the provisioned flag tested before a wait for a
  mailbox is still valid after it.
- **`ImplementsInbox`**: `CanRx` implements `CanInbox`. Every frame that is not
  overwritten is dispatched once, in order, and eventually. The mapping takes the
  frame in `rx_msg` followed by the FIFO as the inbox. The early frame above is part
  of this. **`HandlesInOrder`** is the safety part: once, in order, nothing invented.
- **`AnnouncesUnlessTraffic`**: an unprovisioned board announces itself again and
  again unless frames keep arriving.
- **`NoLostTxWakeup`**, **`InOneQueueOnce`**, **`NoEarlyTimeout`**: no thread is left
  in the queue with a mailbox free; no thread is made ready twice by an interrupt
  and a timer; no frame is dropped before a full timeout has been spent waiting.
- **`CallEndsUnlessInterrupted`**: a call returns, on a dead bus too, unless CAN
  interrupts keep coming.
- **`WakesOnPeriod`**: when the work fits the period with room for the shortest
  timer, the worker's timer ends one period after the cycle's start, and later by just
  the ticks between the two readings of the clock. When the worker then gets the
  processor is not part of it.
- **`SamplesForever`**: the worker keeps cycling as long as every cycle's work fits its
  period, whatever rates are set.
- **`TornFrameOrdered`**, **`NotOlderThanComplete`**: which conversions can be mixed
  in one frame, and how old a sample can be.
- **`ImplementsTimers`**, **`ArmedTimersEnd`**: `VirtualTimers` implements `Timers`. A
  timer expires at its own time, late by a bounded number of ticks and never early,
  whatever is set and reset around it; and every armed timer ends. This is what
  justifies the countdowns of the other modules.
- **`HeaderNeverDue`**: the loop of `chVTDoTickI`, which only the header's delta stops,
  never takes the header for a timer.
- **`ResetNeedsWakeups`**: the watchdog resets the board only if fruitless wake-ups
  have made one round of `main` as long as the watchdog's period.
- **`StatsUnlessWoken`**: statistics keep coming unless such wake-ups do.
- **`ImplementsMainLoop`**: on the whole board, whatever the other threads and the bus
  do, `main` behaves as `MainLoop` says, so the watchdog theorem is about the board.
- **`NoFrameDropped`**, **`NeverOversleeps`**, **`NoWatchdogReset`**,
  **`SamplesAndStatsGoOn`**: what holds on a healthy bus, with fewer mailboxes than
  threads, although the frames of other nodes wake the waiting threads in vain and
  start their timeouts again.
- **`OversleepNeedsFullMailboxes`**: the over-long sleep of finding 3 has one cause on
  the board, a wait for a mailbox longer than the period or the timeout.
- **`OutputEnabled`**: characters in the queue have the transmit interrupt enabled.
- **`NoWriterLeftBehind`**: while threads wait there is no more room than threads that
  were woken for it and have yet to run.
- **`ImplementsConsole`**: every character comes out once, in order, eventually.
  **`SendsInOrder`** is the safety part: once, in order, none written over another.
- **`LinesEndUnlessOthersLog`**: a line ends unless another thread starts line after
  line.

Each module has one type invariant, `TypeOK` (`SamplerTypeOK` in `AdcSampler`), which includes the capacities of
mailboxes, FIFO and buffers and the range of `systime_t`.

### Bounds

- Two mailboxes and a FIFO of two give the states empty, partly full and full, and
  overrun. The proofs cover every size.
- Three threads are all there are.
- A timeout of two ticks separates a fresh timer, a running one and one that is due.
- Twenty values of system time make the clock wrap within one cycle for every rate.
  The periods 8, 4 and 2 are larger than, equal to and smaller than the work. One
  tick of slip shows that each such tick puts off the end of the timer; the proof
  covers any number.
- Four channels are those of the board. Three ages suffice for two abandoned
  conversions in a row.
- `VirtualTimers`: twelve values of system time make the counter wrap between a
  setting and its expiry. `MaxSlip` (ticks from reading the counter to writing the
  alarm) is below `CH_CFG_ST_TIMEDELTA`, as the kernel requires of its port.
  `MaxLag` bounds the wait of a pending interrupt. `MaxSpan` bounds the time since
  the last expiry at which other timers are still set, and at which a periodic one
  (`Periodic`) is set again. The code has no such bound: it is that of a board where
  `main` sleeps 100 ms at a time, against a range of five days. Without a periodic
  timer the kernel's header could become due after a whole turn of the counter. The
  instance satisfies `DelaysFit`, which the proofs assume (`MCDelaysFit` has TLC
  evaluate it); that of finding 4 does not.
- `MainLoop`, `Board`: `MaxWoken` and `MaxWakeups` bound the fruitless wake-ups of one
  call of `main`; they are large enough for a reset by the watchdog. `BootTicks`
  and `LogTicks` bound the initialisation and a log line. `FrameTicks` is the time
  of a frame on the healthy bus, and `FramesPerTick` bounds the frames received and
  the errors in one tick; with one per tick every tick of a wait can have its
  fruitless wake-up. The ratios of the build are kept as far as they
  matter: the watchdog outlasts a round with one timeout, and on the failing bus a
  wait for a mailbox can exceed the period. On a healthy bus the wake-ups need no
  bound of their own.
- `Serial`: a queue of two is empty, partly full or full and wraps at once. The
  proofs cover every size. `MaxLine` of two makes a thread wait within its line.

### Fairness

- `CanRx`: `main`, the worker and the interrupt keep running, and transmission
  attempts end (`NART`, `ABOM`). Two strong conditions say that the other threads do
  not take every freed mailbox before the worker for ever. They make at most one
  request in 3 ms, far fewer than the attempts the bus can end in that time.
  Nothing is assumed of arrivals and errors.
- `CanTx`: ready threads run, time passes, timers and interrupts are served. Nothing
  is assumed of the bus.
- `AdcPacing`: the work of a cycle ends, time passes, and a worker that is due runs.
- `VirtualTimers`: the counter runs and pending interrupts are taken, strongly,
  because both are held up only while a lock is held. Critical sections end, and a
  thread that sleeps periodically does so.
- `MainLoop`: `main` gets the processor, waits end when their time is up, time passes
  and the watchdog works. Nothing is assumed of CAN interrupts.
- `Board`: one weak condition on all steps of the board itself (`Own`): as long as a
  thread can run, an interrupt is pending or time can pass, one of these happens. A
  healthy bus ends a request before time goes on past `FrameTicks`. Nothing is
  assumed of received frames and errors.
- `Serial`: the USART sends and its interrupt is taken. The threads have strong
  fairness, because an interrupt disables them again and again for a moment. The
  interrupts are a character's time apart (87 us at 115200 baud).

## Findings

1. `system_CAN.c:175` says "continue to send announcements until we are
   provisioned". The announcement is sent only after a second without any received
   frame, and the filter passes all frames, so a busy bus silences an unprovisioned
   board (`can_rx_announce`).
2. `can.c:220` describes the timeout of `canTransmit` as "the number of ticks before
   the operation timeouts". Each wake-up without a mailbox starts the full timeout
   again, and every CAN interrupt wakes every waiter (`can_tx_timeout`).
3. `system_ADC.c:134` says "Compensate for amount of time needed for sampling and
   broadcasting CAN message". When the work takes longer than the period, the
   unsigned difference wraps. The worker sleeps for about five days, or for ever
   when it is one tick late (`adc_pacing_late`). The default period is 20 ms and
   `canTransmit` may block for 100 ms, so a blocked bus is enough.
4. `chvt.c:81-84` calls the delay "the number of ticks before the operation
   timeouts" and very large values "a normal time specification". `chVTDoResetI`
   adds the delta of the first timer to the next (`chvt.c:240`). When the next is a
   long timer that was placed there through the overflow path of `chVTDoSetI`
   (`chvt.c:141`), the sum wraps and the long timer expires 2^32 ticks early
   (`virtual_timers_reset`). The wrapped sleeps of finding 3 are such timers.

## What is proved

Every theorem holds for all values of the constants that satisfy the `ASSUME` of
the module: positive sizes, sets of frames and jumper settings within their types, a
positive timeout, and a second that fits the system time. Where a theorem needs more,
the section on it says so.

Each proof has the same shape: an inductive invariant `IInv`, `Init => IInv`,
`IInv /\ [Next]_vars => IInv'` by cases over the actions, and the properties as
conjuncts of it.

- **`CanRxProofs`**: `TypeCorrect`, `RxWakeupSafe`, `SleepSafe`, `AnnounceSafe`. The
  wake-up property is not inductive by itself. `ArmedWhenEmpty` (an empty FIFO has
  its interrupt enabled) is what makes the next arrival raise an interrupt.
  `StartupOrder` keeps the worker from receiving before it listens, and the settings
  from changing before the first announcement. `BoardsDisjoint` shows that boards
  with different jumpers share no identifier. The first lemmas say how each operation
  of the driver changes the registers.
- **`CanTxProofs`**: `TxTypeCorrect`, `TxWakeupSafe`, `QueuesSafe`, `TimeoutSafe`. The
  strengthening is `TimersCoverWaits`: a waiting thread has a timer, and the time
  already waited plus the time left is at least the timeout. A timer left armed by an
  earlier wait is reset before the thread waits again, so it cannot break this.
  `MailboxesKeepIInv` says that a change of the registers which leaves the mailboxes
  alone, such as a received frame, keeps the invariant; `BoardProofs` uses it.
- **`AdcProofs`**, pacing: `PacingTypeCorrect`, `TimerEndsOnPeriod`. `WorkTimeExact`
  says that the difference of two readings of the wrapping clock is the work done, and
  follows the clock through the ticks until the timer is set.
- **`AdcProofs`**, sampling: `SamplerTypeCorrect`, `TornFramesOrdered`, `FramesBounded`.
  `BufferOrdered` says that the buffer is a staircase of ages, whatever conversions
  were abandoned. `CopyFitsBuffer` places each copied sample in that staircase.
- **`InboxImplemented`** (`CanRxProofs`): the receive path implements the safety part
  of `CanInbox`. `IInv` supplies the types and the order of start-up. One lemma for
  each kind of step shows what it does to the frame in hand followed by the FIFO.
- **`MainLoopProofs`**: `MainLoopTypeCorrect`, `WatchdogResetsNeedWakeups`. `Accounted`
  says that what the watchdog has counted, with what `main` may still take where it
  is, is bounded by the cost of the wake-ups so far. `BoardResetsNeedWakeups` below
  carries the theorem over to the board.
- **`SerialProofs`**: `SerialTypeCorrect`, `OutputAlwaysEnabled`, `WritersAreWoken`.
  `ReadingCurrent` says that the handler's reading of `TXEIE` is still true when it
  writes it back. `PointersAgree` ties the pointers to the counter, and
  `InOneListOnce` makes the number of woken threads meaningful.
- **`ConsoleImplemented`** (`SerialProofs`): the output path implements the safety part
  of `Console`. It needs two more facts (`OrderInv`): `TxeTrue` says that `TXE` tells
  whether `TDR` is empty and that the handler's reading of it stays true until `TDR` is
  written, and `RingFilled` that the part of the ring in use holds characters. The
  lemmas on the ring (`PutContents`, `GetContents`) say that it is a queue, wherever its
  pointers have wrapped.
- **`ThreadLists`**: lemmas on sequences without repetition: what appending, removing,
  inserting and concatenating do to their members and positions.
- **`VirtualTimersProofs`**: the delta list and its alarm; see below.
- **`BoardProofs`**: the whole board; see below.

### The board

`BoardProofs` takes `IInv` of the transmit path from `CanTxProofs`: to `CanTx` every step
of the board is one of its own steps, a frame received or read, nothing, or a restart
(`BoardTxStep`). On top of it stand invariants of the loops, each with a step lemma over all actions:

| Invariant | What it says |
| --- | --- |
| `PlacesMatchLists` | a thread is in `canTransmit` exactly when it is in the ready list or in the queue |
| `WorkedIsBlocked` | the work of a sampling cycle is the time spent waiting for a mailbox |
| `TimersOutlastFrames` | the timer of a waiting thread has run no longer than the frame now on the bus |
| `WaitsInTurn` | the time a thread has waited, with that of the rivals still ahead of it, is within three frames, and the others rest until it is over |
| `WakeupsBounded` | the fruitless wake-ups of `main`, with the one that may be under way, are bounded: on a healthy bus each costs a rival or has its occasion (`Occasions`), a request that ended or a frame received during the wait |
| `WatchdogAccounted` | what the watchdog has counted since it was fed is within what `main` may have spent at its place and before |

The theorems and what each assumes besides the types of the constants:

| Theorem | Bus | Timing assumed |
| --- | --- | --- |
| `OversleepsNeedFullMailboxes` | any | none |
| `HealthyBusDropsNothing` | healthy | a frame is shorter than the timeout |
| `HealthyBusNeverOversleeps` | healthy | `Unhurried` |
| `HealthyBusFeedsWatchdog` | healthy | `Unhurried`, and `HealthyRound` is below the reload value |
| `MainIsMainLoop`, `BoardResetsNeedWakeups` | any | `Unhurried` if the bus is healthy |

`Unhurried` says that three frames fit the timeout, the sleep of `main` and the wait of
`can_rx`, and six the period of the worker. A thread that waits is then overtaken at
most once by each of the other two. Received frames do not change this: they reorder
the waiting threads, but no mailbox becomes free by them. `FramesPerTick` is any number. In the build the timeout and the sleep of `main`
are 1000 ticks and the wait of `can_rx` 10000, so the period decides: 200 ticks at
the 50 Hz of the start, 30 at 255 Hz. A frame alone on a bus at 500 kbit/s takes
about three ticks, so six frames fit every period. On a shared bus the frames of other
nodes that win arbitration are part of `FrameTicks` in time, and their interrupts are
those of `FrameReceived`.

The argument for `NoFrameDropped` is another one and needs less: the timer starts anew
at every fruitless wake-up, and one comes with every frame that ends; received frames
only add more of them. So no timer of a
waiting thread can run out before the next interrupt, although nothing is said of how
long the thread waits altogether.

`MainIsMainLoop` maps `calling` to `asleep` and the time left of a wait to the timer of
`main`. That a waiting `main` has a timer that is not due when time passes, and that
fruitless wake-ups stay within the bound of `MainLoop`, come from the invariants.

### The virtual timers

`TimersTypeCorrect` needs no assumption on the delays: positions, deltas and alarm stay
in their ranges even where a sum wraps. `HeaderSafe` and `TimersImplemented` assume
`DelaysFit`:

- every timer, or one that is periodic, is served before `lasttime` is a whole range
  behind, counted from the latest moment at which it can be set;
- an overdue expiry and the delay set after it are in the range together;
- behind a timer that may be reset there is none whose distance from `lasttime` goes
  over the range. Finding 4 is what happens without this part.

In the build the delays are at most 10000 ticks, those of finding 3 and of a rate of zero
apart, so `DelaysFit` holds as long as no sampling cycle takes longer than its period. `HealthyBusNeverOversleeps`
above says when that is so.

The delta list is treated through the distance of each timer from `lasttime`, the sum of
the deltas up to it (`Distances`, `Due`). `InsertDistances`, `RemoveDistances` and
`TailDistances` say that setting, resetting and expiring a timer leave the distances of all
others alone, or move them by what `lasttime` moves; `ScanFacts` says where the loop of
`chVTDoSetI` stops. These are inductions over the positions of a list. They rest on `Least`,
which takes the least counterexample, because the library's induction rule cannot be
instantiated by the provers.

`HeaderNeverDue` and the refinement are not inductive. The invariant adds:

| Conjunct | What it says |
| --- | --- |
| `Reaches` | no timer is further from `lasttime` than it could be when it was set |
| `InTime` | the first timer is overdue by at most an alarm moved to the shortest delay and the ticks its interrupt is pending |
| `AlarmSet` | the alarm of the first timer is set for a time still ahead, or its interrupt is pending, or the code about to write it has enough ticks left |
| `EmptyQuiet` | an interrupt served with no timer armed finds the header far ahead |
| `PeriodicRecent` | a periodic timer that is not armed expired recently |

`AlarmSet` is the heart: the hardware compares for equality, so one alarm written a tick too
late would break `InTime` for a turn of the counter. It needs `MaxSlip` below
`CH_CFG_ST_TIMEDELTA`. `TimersImplemented` then goes over the actions: a tick of the counter is
a tick of every countdown, none of which may be overdue by more than `MaxLate`, and
`SetTimer`, `chVTDoResetI` and `Fire` are `Set`, `Reset` and `Fire` of `Timers`.

### Only model-checked

- Liveness properties, which need fairness and `ENABLED`. Two refinements include
  fairness (`ImplementsInbox`, `ImplementsConsole`); their safety parts
  (`HandlesInOrder`, `SendsInOrder`) are proved.
- That an alarm which is set leads to an expiry (`ArmedTimersEnd`), for the same reason.
- On a healthy bus with frames too long for `Unhurried`: `NeverOversleeps`,
  `NoWatchdogReset` and `ImplementsMainLoop` hold in the instance of `board`, which is
  such a case (timeout two ticks, frame one).

## What is not modelled

- The wording of log lines, and the widths and fillers of `chvprintf`. Lines of two
  threads may be mixed; the code does not prevent it and no property forbids it.
- The bytes of announcements, statistics and sensor frames.
- Pure functions: `scale_0_to_5_volts`, `MS2ST`, `ST2MS` and the digits printed by
  `chprintf`. Reading them shows two things that no run covers. `ST2MS` multiplies by
  1000 before it divides, so the time stamps of the log start again after 4,294,967
  ticks (429 s). A full-scale sample gives 5075, although the comment at
  `system_ADC.c:34` says "Scale 12 bits to 5.0v".
- Execution times. `Board` assumes that code between two waits takes less than a
  tick.
- The rest of ChibiOS: drivers and kernel services the firmware does not use.
- `modp_numtoa.c`, `serial_getline` and `reset_system`: not called by the firmware.
  `check_system_state` is empty.
- `stm32loader.py`: a host tool whose peer, the boot ROM, is not in the repository.
  It is written for Python 2, where the tab at line 340 puts a method's header at the
  column of its body, which the language rejects.

The models cover a small part of the lines under `src`, because nearly all of them
belong to the vendored ChibiOS tree with its ports, demos and tests for other chips.
