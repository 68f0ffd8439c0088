# Verification of the fw100 RIL driver and GPS HAL

TLA+ models, TLC runs and TLAPS proofs for the Android support of the Fusion
Wireless FW100, a CDMA/EVDO USB modem: the vendor radio interface layer
(`src/fwril-100`) and the GPS library (`src/gps/freerunner`). `PROJECT.json` lists
the components, runs, mutants, the map from definitions to source lines, the
findings, the hazards and the theorems.

## Inventory

| Component | Source | State | Operations | Interacts with |
|---|---|---|---|---|
| AT command channel | `atchannel.c` | descriptor, pending command (`s_type`, `s_responsePrefix`, `s_smsPDU`, `sp_response`), `s_readerClosed`, mutex and condition | `at_send_command*`, `at_handshake`, `at_open`, `at_close`, `readerLoop`, `processLine` | every sender of an AT command; modem; `onUnsolicited`, `onATReaderClosed` |
| AT line reader | `atchannel.c` `readline` | `s_ATBuffer`, cursor | `readline`, `findNextEOL` | descriptor; reader thread |
| Modem session, radio state | `fw100-ril.c` | `sState`, `s_closed`, `s_state_mutex`, queued callbacks | `mainLoop`, `sync_modem`, `setRadioState`, `onATReaderClosed`, `initializeCallback`, `requestRadioPower` | AT channel; phone framework |
| Request dispatch | `fw100-ril.c`, `fw100-ril-rqst.c`, `rilinfo.c` | token, `ATResponse`s, `screenState` | `onRequest` and its handlers | AT channel; phone framework |
| PPP data call | `fw100-ril-data.c` | `inDataCall`, pppd processes | set up, poll, deactivate | pppd, Linux |
| Timer polls, activation | `fw100-ril-timer.c`, `fw100-ril-utils.c` | saved CREG and CSQ answers, activation retries, over-the-air messages | `fw100ModemTimer`, `activateHelper` | main thread; reader thread through `otaMsg` |
| Control and status files | `fw100-ril-utils.c` | options, `ModuleIsActivated` | `rilReadControl`, `rilWriteStatus` | main and request thread |
| Unsolicited dispatch, GPS output | `fw100-ril.c`, `fw100-ril-gps.c` | over-the-air counter, GPS descriptors | `onUnsolicited`, `rilWriteGPS*` | reader thread |
| AT token parser | `at_tok.c` | none | `at_tok_*` | request handlers, polls |
| GPS HAL | `gps_freerunner.c` | state, command thread, timer thread, semaphore | the `GpsInterface` functions, `gps_state_thread`, `gps_timer_thread` | Android location service; receiver |
| NMEA parser | `gps_freerunner.c` | fix, satellite list, date | `nmea_reader_*`, `nmea_tokenizer_*`, `mkgmtime` | command thread, timer thread |
| Data connection tracker | `GsmDataConnectionTracker.java` | connection state, APNs, timers | | framework classes that are not in the repository |
| Scripts, init files | `etcs/`, `fusion/` | none | | |

Three threads of the driver send AT commands or read their answers: libril's
request thread (`onRequest` and timed callbacks such as `initializeCallback`), the
`mainLoop` thread (activation and polls every ten seconds, reopening the port) and
one reader thread per modem session. The GPS library adds the framework's thread,
a command thread and a timer thread per session. What is hard is between them:

- commands of two threads share one pending command, whose mutex is released
  while a sender waits; answers may be late, lost or interrupted by unsolicited
  lines, and the handshake retries on a timeout;
- the modem disappears and comes back while threads are in the middle of commands
  and state changes of the old session; `s_closed`, the radio state and the
  framework's notification are written in separate steps;
- a handler has up to four responses and some twenty places where it can fail;
  pppd lives and dies beside it;
- `otaMsg`, `otaMsgCnt`, the status file, `fix_freq` and `init` are shared between
  threads without a lock; the GPS threads end by joining one another.

For each component correctness means: AT channel, a caller gets the whole answer
to its own command, or an error, and returns once it is there; line reader, the
lines are the modem's lines however `read()` cuts them; session, radio state,
session and framework agree and a lost line is recovered; dispatch, every request
is completed once, every response freed once, and what stays behind is what the
request said; activation, the number of calls is bounded, the verdict right, and
changes are noticed; GPS, one thread at a time has the fix, no report comes after
the session, fixes are whole and delivered, threads end when asked; parsers, the
result is that of an independent definition.

## Modules

**`ATChannel`** models `atchannel.c`. One action is one section of code between
taking `s_commandmutex` and releasing it or waiting; `holder` says who keeps it
across actions, which only `at_handshake` does. `pc` is where a command thread is:
idle, in the wait loop (`waiting`, `woken`, `timedOut`), or between handshake
attempts. Sending is split by its outcome (`SendWhilePending`, `SendFails`,
`SendAndWait`), waking up too (`WaitAgain`, `FinishCommand`, `WakeToNull`).
`pthread_cond_wait` may wake spuriously. `at_open` takes no lock, so its stores are
two actions. A line is what `processLine` distinguishes of its text. A response prefix
may be empty, which every line has, or "OK": the driver passes both
(`fw100-ril-utils.c:128` and 158). The modem is external: it answers commands in order,
sends unsolicited lines in between, may hang up and, if `Lossy`, forget a command. An
unsolicited line can have the text of an answer: the driver itself turns on reports of
+CREG: and signal strength, and NO CARRIER is a final result that also comes unasked.
`processLine` has only the text to go by, so that it may take such a line for an
intermediate line, for the final one or for a prompt (`mistaken`). `AT_ERROR_INVALID_THREAD` is left out,
since nothing in the driver sends from the reader thread, and so are the OMAP
byte-count ioctls, which are not compiled in.

**`ATService`** is what the channel promises: a server of one command at a time
(`Take`, `Refuse`, `Hear`, `Conclude`, `Return`). **`ATChannelService`** instantiates
it with `pendingBar`, the pending response with its lines turned round (the code
keeps the newest in front), and `outcomeBar`, what the callers were returned.
The promise ends, in one step (`Break`), when a thread has destroyed another's
pending command.

**`ATLineReader`** models `readline` byte by byte: `read()` returns any non-empty
part of what is there, the buffer may overflow and be ditched (also in the turn that
meets EOF), the port may be reopened in mid-line (`s_ATBuffer` survives that), and the
SMS prompt is a line without a line end. `seen` is all that was read, of all sessions, and
`ditched` the positions in it that were thrown away with a full buffer: the property says
what `readline` makes of that, which is the tail of an over-long line, and half a line of a
lost session glued to the next session's first, not that these are lines of the modem.

**`RadioSession`** models `mainLoop` step by step (open, sync, clear `s_closed`,
`at_open`, queue `initializeCallback`, watch), a reader per session that ends with
`onReaderClosed`, `at_close`, `s_closed = 1`, `setRadioState`, and the request
thread. `setRadioState` is a procedure of three steps per caller: lock and read,
store and unlock, compare and notify (`setting`). The framework reads the state when
notified, in one step; libril, which does it, is not in the repository.

**`RILRequests`** models the dispatch and the handlers. A handler is a program, a
sequence of instructions of which one that can fail carries the program for its
failure; the operators named after the handlers give the programs, and the actions
(`Execute`) run one instruction at a time, so that the radio state and pppd change
in between. `initializeCallback` is an action too, with the commands of `atcommand_init`
that switch notifications on whatever `screenState` is. `holds` says what each response pointer refers to; `Free` of what is
not there, or a completion with data from there, is `dangling`. What a modem
answer says is a free choice (`Either`, `Parse`). Data calls are here too: `pppd`
counts processes, `poll_ppp_linkstate` polls the link, deactivation kills.

**`ModemTimer`** models what `mainLoop` does every ten seconds: `activateHelper`
(query, limit, call, wait, verdict, status file) and the polls, against the reader
thread's `onUnsolicited`, whose increment of `otaMsgCnt` is a load and a store, and
the request thread's own write of the status file, which is formatted in one step and
closed in a later one. Poll answers are sequences of
characters, because they are compared by prefix.

**`NmeaParser`** gives the update that each kind of sentence makes to the reader
record. **`GpsHal`** models the threads: the framework's calls, the command thread
(commands and sentences in the order of the epoll loop), the timer thread
(semaphore, report, the two halves of "if `fix_freq` is 0, set it to -1", sleep), and
the receiver, which sends its cycle of sentences and loses some. `gps_dev_power` may fail
and then leaves the power as it was; a receiver that had power is anywhere in its cycle
when the command thread starts to read.

**`TextParsers`** holds the algorithms on characters: `at_tok.c`, the collection of
sentences from bytes, the tokenizer and `mkgmtime`. A pointer into a text is an index, and
the loops that look for a character are `FirstIn` and `FirstNotIn`. The module is a machine
with four tasks (`task`): a response line is written field by field (`AddField`) and then
its tokens are taken one by one (`StartTokens`, `TakeToken`, the cursor in `cur`); bytes
are given to `nmea_reader_addc` (`SendByte`); a sentence is written (`AddCharacter`), then
`nmea_tokenizer_init` finds its ends and `NextToken` is a turn of its loop; a calendar goes
on day by day (`NextDay`). The properties compare with independent definitions: the fields
the line was written from and where they begin (`fields`, `begins`), the lines that should
be parsed (`kept`), the characters between two commas, the calendar. `strtol` is modelled
without signs and stops at `LONG_MAX` of 32 bits.

`MC*` modules give TLC the sets that a `.cfg` cannot express. `*Proofs` modules hold
theorems. Operators introduced by "FAULTY VARIANT" (or "Faulty variant") are
plausible bugs of the definition after them; the mutants of `PROJECT.json` put them
in its place, and the named property must then fail.

How they fit together: `ATChannel` gives `RILRequests`, `ModemTimer` and
`RadioSession` the outcome of a command, which those take as a free choice (answered,
refused, failed, never a wrong answer); `ServiceKept` and `AnsweredCallReturns` are
what justifies it, up to the race below; a wrong answer is possible after a race, a
handshake timeout or an unsolicited line that looks like an answer, and the other modules
do not follow what a caller then does with it. `ATLineReader` gives `ATChannel` its lines,
`RadioSession` gives `RILRequests` and `ModemTimer` the moments at which session and
radio state change, `NmeaParser` is part of `GpsHal`.

### History variables

Some properties hold only until something happens that the code does not guard
against. A history variable records it and the property says so: the property then
shows that there is no other way to break it, but it does not catch that case itself.
Where the case is a hazard of its own, its entry in `PROJECT.json` says that it is excepted.

| Variable | Records | Where it is shown or listed |
|---|---|---|
| `raced` (ATChannel) | a thread destroyed another's pending command; `at_open` without the mutex counts | run `race`; hazard `atchannel.c:598` |
| `expired` (ATChannel) | a handshake attempt was given up, its answer may still come | run `drain` |
| `mistaken` (ATChannel) | for what unsolicited lines were taken: intermediate, final, prompt | hazard `atchannel.c:258` |
| `strayed` (ATLineReader) | after a prompt the cursor was left on an old byte or past the buffer | hazard and finding `atchannel.c:312`, 412 |
| `late` (RadioSession) | a reader reported its close after the next session had begun | hazard `fw100-ril.c:1492` |
| `screenSet` (RILRequests) | FALSE after a refused or failed screen command, a restart of the modem or `initializeCallback` | hazard `fw100-ril-rqst.c:1104` |
| `strayPppd` (RILRequests) | a set-up failed after starting pppd, or began beside another | hazard `fw100-ril-data.c:299` |
| `crossed`, `overtaken` (ModemTimer) | the helper wrote the status file while the request thread was between formatting its text and closing the file; the file holds that older text (or the helper's own `fopen` failed). They follow the order of the steps, not the texts | hazard `fw100-ril-utils.c:281` |
| `outlived` (ModemTimer) | the module was given up while a call was under way | below |
| `orphaned` (GpsHal) | QUIT or a line error left a timer thread running | hazard `gps_freerunner.c:1027` |
| `gap` (GpsHal) | a GSV sentence was lost, or reading began in mid-list, and no list has begun anew since | hazard `gps_freerunner.c:703` |

Others (`unread`, `unsol`, `pdus`, ids, `seen`, `ditched`, `ends`, `onIn`, `calls`, `told`, `fields`,
`begins`, `kept`, `swallow`, `first`, `days`) only let a property speak about the past.

## Runs

| Run | What it shows | Bounds |
|---|---|---|
| `serial` | a response ends with the final line of its own command and, unless an unsolicited line got into it, holds exactly its answer, in order; unsolicited lines reach the handler at most once and in order, and no answer does unless something was mistaken or thrown away; a PDU is written at its own prompt | one thread, all kinds of senders, prefixes "+CSQ:", "OK" and the empty one, a handshake of one attempt, 2 commands, 2 unsolicited lines out of +CMT: (with its second line), +CSQ: and NO CARRIER, 2 intermediate lines, 2 sessions; 4.5 million states |
| `answers` | types; a waiter owns `sp_response`; the channel implements `ATService`; `AnsweredCallReturns` and `HandshakeEnds` although commands may go unanswered | 2 threads, 2 calls, 2 attempts, 2 sessions, lossy |
| `race` (violation) | a refused command frees the response another thread waits for | 2 threads, 3 commands |
| `drain` (violation) | the pause after the handshake cannot drain late OKs | 1 thread, 2 attempts |
| `lines` | `NoLineLostOrCut`, `StaysInBuffer` | buffer of 4, all streams up to 5 bytes, two of 6, three with a prompt, 2 sessions |
| `sessions` | types; radio state, session and framework agree (`ClosedMeansUnavailable`, `FrameworkKnowsState`, `OnMeansOnInThisSession`, `SettledMeansAvailable`); `EveryLossIsRecovered` | 2 sessions, 3 power requests |
| `requests` | `CompletedOnce`, `ResponsesReturned`, `NothingDangles`, `SilentWhileOff`, `ScreenStateHonoured`, `NoPppdWithoutCall`, `EveryRequestReturns` | every request, every failure, any number of requests one after another, lost and new sessions; 2 link polls, 2 pppd; 1,126,656 states |
| `twice` (violation) | three handlers complete their request a second time | as `requests` |
| `activation` | types; `CallsBounded`, `ActivatedMeansProgrammed`, `StatusIsCurrent`, `ProgrammedIsNoticed`, `ChangeIsReported` | 3 retries, calls of 2 messages, waits of 2 rounds, 3 poll answers, 1 fault; 479,160 states |
| `gps` | `FixIsExclusive`, `QuietAfterSession`, `PositionHasTime`, `ListIsWhole`, `CleanupReturns`, `FixIsReported` | 1 timer thread at a time, frequencies 0 and 1, 1 command in the socket, a cycle of three places, with garbled years and short sentences, a receiver that is on or off to begin with; 702,244 states |
| `hang` (violation) | cleanup waits for a timer thread in `sleep(-1)` | as `gps`, frequency 1 |
| `text` | `TokensAreFields`, `MoreUntilLast`, `WholeSentences`, `FieldsAreSplit`, `EpochIsCalendar` | lines of 4 fields out of 7, streams of up to 9 lines and bytes in the line with a buffer of 4, all sentences of 6 characters, every day from 1970 to 2037 |

Why the bounds suffice. AT channel: two threads are all that ever send, two commands
are needed for one to meet the other's answer, two intermediate or unsolicited lines for an
order, two sessions for anything left over from the first. `serial` has one thread, because
its question is which line goes where, which `processLine` decides from the pending command
alone, and a second sender either waits its turn, which one thread does too, or destroys the
pending command (`raced`), after which nothing is claimed; `answers` has two threads, and the
proofs any number. Sessions: three power requests
for off, on and one that is overtaken; what a third session could disturb is proved
for any number. Requests: the handlers run one after another and keep only radio and
screen state and pppd between them, all of which are variables without a bound on the
number of requests; two processes are enough for one to be forgotten. Activation: with
three retries there is a first, a second and a last round; the wait ends by messages
or by time; the answers to a poll are an incomplete line, a whole one that begins like it and a whole
one that goes on from there, so that a change to a longer and to a shorter line both occur. Only "+CSQ:" is polled: "+CREG:" is the same code without the parse,
and the proofs hold for both. GPS: one timer thread is what the code means to have,
and `FixExclusion` is proved for any number; a cycle holds a sentence about the fix
and a satellite list in two parts. Text: a buffer of four is filled and overflowed by
lines of four bytes and more, at the start of a stream and later; six characters give two commas, a `$`, a checksum and a line end.
The counters stop the environment only. Deadlock is checked in `requests` and
`activation`, which never stop; the others end when their inputs are used up, or, for
the GPS, may stay idle for ever.

### Findings

- `race`: a second sender finds `sp_response` in use and on its way out frees it;
  the waiting thread then dereferences NULL.
- `drain`: the pause that is to drain unmatched OKs holds the mutex the reader needs.
- `hang`: stop and cleanup join a timer thread that sleeps for 2^32 - 1 seconds when
  no frequency was set or after a single fix.
- `twice`: `requestSMSAcknowledge`, `requestDataCallList` and `requestSignalStrength`
  complete a request twice.

Five more are comments that the code does not keep; the property of a passing run states
what does hold, with the case in question as its named exception:

- `StaysInBuffer`: "this will always be <= p_read" (`atchannel.c:412`) fails at every SMS
  prompt, which leaves the cursor one byte behind the data, or behind the buffer;
- `CallsBounded`: `MAX_AUTO_ACTIVATE_RETRY` is "max attempts to auto activate"
  (`fw100-ril.h:68`), but the last is counted and not made;
- `ChangeIsReported`: "if no change ... then return" (`fw100-ril-timer.c:86` and 148) also
  returns if the new line is a proper prefix of the saved one;
- `PositionHasTime`: "never ever make up a date" (`gps_freerunner.c:349`), but a garbled year
  becomes 1999;
- `MoreUntilLast`: `at_tok_hasmore` "returns 1 on 'has more tokens'" (`at_tok.c:184`), but not
  when an empty last field is left, which `at_tok_nextstr` would return.

Observations that need no run of their own, since nothing in the repository says what
should happen, or the reading of the code shows it:

- an ordinary command has no timeout: if the modem forgets it, the sender waits until
  the line is lost (`AnsweredCallReturns` says it returns otherwise);
- `findNextEOL` ends a prompt at the terminator, and `readline` steps over it;
- `sync_modem` returns 0 after all its tries have failed;
- `isRadioOn` never returns 1, so a refused AT+CPON always counts as a failure;
- the comment of `currentState` gives UNAVAILABLE as initial state,
  `initSessionContext` sets OFF;
- a failed command leaves a data call's pppd running, and the next starts another;
- the over-the-air call may succeed after the driver has given the module up; the
  status stays "Fail" (`outlived`);
- the polls do not free the response when nothing has changed;
- `gps_state_init` failing late leaves `fd` 0, which `freerunner_gps_init` takes for
  success;
- an RMC sentence without a usable date gives a position without a time (which
  `PositionHasTime` leaves to `DatesAreWhole`); GGA and GLL sentences change the position and
  keep the timestamp of the last RMC or ZDA;
- `atcommand_init` turns the CREG and signal reports on and VMCCMNC off whatever
  `screenState` says, also when a session is replaced while the screen is off;
- `getNetworkInfo` does not test whether the second code could be parsed and formats an
  uninitialised pointer if not (`fw100-ril-rqst.c:526`);
- the accuracy is compared with 99.99, a double; the field is a float in Android's `gps.h`,
  which is not in the repository, so that the test never holds and the model always sets the
  flag;
- `gps_dev_power` without its interface does nothing: the receiver stays as it was;
- a sentence whose newline is the byte too much takes the next one with it;
- `gps_dev_send` counts a failed write as -1 bytes; a failing `grantpt` leaks the
  descriptor of the pseudo terminal.

## Fairness

Threads that can run do, which is the kernel's scheduler: weak fairness of the steps
inside a call, of readers, `mainLoop`, the request thread, the GPS threads. Beyond
that:

- a timed wait expires even if wake-ups interrupt it (strong fairness of `WaitExpires`). The
  Android build waits with `pthread_cond_timeout_np` for the full relative time after each
  of them (`atchannel.c:43-45`, 755; the others have an absolute deadline), so that this
  assumes that spurious wake-ups do not go on for ever at shorter intervals;
- `answers` assumes nothing of the modem; `AnsweredCallReturns` speaks of calls whose
  answer came, whose line is lost or whose time is over;
- `sessions` assumes that a lost device is enumerated again and that a modem whose
  line is up answers `sync_modem`;
- `requests` assumes that every AT command returns, ATChannel's part;
- `activation` assumes that the modem ends its calls and that a new session becomes
  available;
- `gps` has strong fairness for reading a command, since epoll reports both
  descriptors when both are ready, and for the semaphore, which is free while the
  others read or sleep. The receiver and the framework need not do anything.

## Proofs

For all values of the constants, from the named assumptions about them only.

- `ATChannelProofs`. `TypeCorrect`: `TypeOK` is inductive, one lemma per group of
  actions; it contains the bound on handshake attempts. `OwnershipCorrect`:
  `WaiterOwnsPending` is inductive given `TypeOK`: of the actions that write
  `sp_response`, sending requires it to be NULL, finishing is done by the owner, and
  clearing by anyone else sets `raced`. `SingleThreadSafe`: with one command thread
  `raced` stays FALSE, hence `NoNullDereference`, which `race` violates with two.
  `ServiceImplemented`: the initial states map to initial
  states and each step to a step of `ATService` or a stutter. It needs, besides the
  ownership, that a pending command is waited for (`PendingCorrect`): otherwise a
  sender that is neither refused nor waiting could clear one. Lemmas say that
  `addIntermediate` appends to the mapped lines and that the list turned round
  at the return is the mapped one.
- `ATAnswerProofs`. `OwnResponseCorrect`, `UnsolicitedCorrect` and `PduCorrect` follow from
  `AnswerInv`, for all prefixes and all texts of unsolicited lines, those of answers too. It
  has three layers. `UnsolInv` holds whatever happens: unsolicited lines are in order and a
  message indication is followed by its second line. `FlowInv` holds as long as no pending
  command was thrown away and no unsolicited line has ended a command or passed for a prompt
  (`NoneCutShort`): without a pending command the modem owes nothing and no answer is in
  flight (`QuietInv`); the response under construction is of its owner's command
  (`ResponseInv`); the answer lines in flight are of that command (`FlightInv`), a prompt
  the first of them and a final line the last (`PromptInv`). `CountInv` needs that no
  unsolicited line was taken for an answer at all: the lines in flight and those the modem
  has still to send continue exactly where the response ends. `PrefixesAssumption` says that
  the driver passes no error line, prompt, digit or message indication as a prefix.
- `RadioSessionProofs`. `SessionTypeCorrect`, `ClosedCorrect`, `NotificationCorrect`;
  the last two follow from `SettingInv`. Neither is inductive. It has to be added that
  only the mutex holder is at its store and still sees the state it read (`MutexInv`);
  that readers set only UNAVAILABLE, at their end (`ReaderInv`), which needs that a
  reader not yet started has no past (`FreshInv`); that while `s_closed` holds, a reader
  is on its way to the store or the state is UNAVAILABLE and nobody is about to store
  another (`ClosedInv`); and that a state unknown to the framework has a caller that
  will notify and whose old state differs (`KnownInv`). `OnCorrect` and `AvailableCorrect`
  need what one session owes to the one before (`SessionInv`: ports are opened only after
  the last reader has marked its session closed) and that, once `initializeCallback` has
  begun, a state that should not stay is about to be overwritten by the request thread
  (`OnInv`, `AvailableInv`).
- `GpsHalProofs`. `FixExclusion` and `SessionQuiet` follow from `IInv`: the places of a
  timer thread (`TimerShape`); that there is no command thread while the state is QUIT
  or being wiped (`Lifetime`); that without an orphan only `tmr_thread` runs, in a session
  or while it is being joined (`OneTimer`); that the semaphore is 0 or 1, and 0 while a
  thread is inside (`Semaphore`); and that after a SESSION_END no session is on and
  nothing is left to join (`Ended`). `PositionsAreTimed`: the year and the timestamp in the reader
  are of a year the receiver sent, or 1999, or not set yet, and positions without a date are
  ignored (`Dated`), sentence by sentence (`ParseFacts`), for every receiver that satisfies
  `CycleAssumption` (a sequence of sentences in their formats); `DatesAreWhole` is part of the
  property. The timestamp need not be of the sentence the position is of. `ListsAreWhole`: the receiver's place in its cycle
  tells how many satellites of the list have been counted, while there is no `gap`
  (`ListInv`), for lists of any length and wherever reading begins.
- `ATLineReaderProofs`. `BufferCorrect`: the loops of `readline` have no bound of their own,
  they end at a byte they look for. The last byte of `s_ATBuffer` is a terminator that no
  step overwrites (`Terminated`), so that each of them stops inside (`ScanStops`, from the
  least-element principle), and there is a terminator behind the data (`ReadInv`), so that
  it stops before `p_read`. Only a prompt leads out, by one byte.
  `LinesCorrect`: the property gives the lines by their positions in what was read (`ends`), so
  that no induction over the text is needed. The data in the buffer mirror the last bytes
  read, with nothing but line ends between them and the last line returned (`Complete`).
  Bytes ditched with a full buffer (`ditched`) stay in what was read and are left out of the
  line they were part of. Skipping line ends (`SkipData`), moving a partial line up, reading more (`ReadMore`) and
  ditching (`DitchedData`) keep this, and a line found in the buffer (`NextLine`) is the
  next line of what was read (`LineInData`, `ReturnComplete`).
- `RILRequestsProofs`. The six invariants of the handlers. A handler is a program in which
  the program that follows a failure is nested; the depth is three at most. Each
  condition is a set of programs, defined level by level: those that complete once on
  every path (`Completing`), that free whatever they store (`Returns`, with `Frees` for the
  programs that free a given pointer), that leave freed memory alone and read only what
  they have stored (`Tidy`, `Untouched`, `StoredFirst`). `HandlersWellFormed` shows that the
  switch of `onRequest` selects a program in these sets for every request, but for the
  kinds the properties name; the step lemmas show that an instruction of a program in a
  set leads to one in the set, whether it succeeds or fails; and `IInv` relates the rest of
  the program to the variables (what is live will be freed, what was freed is not touched,
  what is read is live). The kinds that may complete twice, the screen request and the
  two of the data call are followed point by point (`TwiceInv`, `ScreenInv`, `PppdInv`);
  `OffInv` uses that only a power request turns the radio off while a handler runs. This
  gives `CompletionCorrect`, `ResponsesCorrect`, `MemoryCorrect`, `SilenceCorrect`,
  `ScreenCorrect` and `PppdCorrect`, for every `PollTries` and `MaxPppd`.
- `ModemTimerProofs`. `TimerTypeCorrect` needs that a wait starts from 0 and stays within its
  limit (`Waited`). `CallsAreBounded`: the calls made and the retries counted move
  together (`Counted`). `ActivatedIsProgrammed`: a "MSG:8" anywhere, in `otaMsg` or on
  its way there, was sent by a module that was programmed by then (`Heard`), so that it
  does not matter of which call it is. `StatusPublished`: outside the helper a file that is
  not `overtaken` has the current text, and so has a text the request thread is writing, if
  it is not `crossed` (`Published`).

- `TextParsersProofs`. The four tasks share nothing that matters, so each has an invariant.
  `TokensCorrect` and `HasMoreCorrect`: the fields lie in the line one after the other with a
  comma between two (`Placed`), and the cursor is at the next field, or after the last one
  NULL or at the end (`LineInv`). The lemma `NextTokIs` says what `nextTok` does at a field, for
  plain and quoted ones; it rests on `FirstInIs` and `FirstInUnique`, which say that a loop
  stops at the first place it looks for (by the least-element principle), and `TextEqual`, which
  compares texts at two places. `FieldsAssumption` is what at_tok.c expects of a line: no comma
  outside quotes, no quote inside them. `SentencesCorrect`: what `r->in` holds and whether it
  overflowed follow from the bytes since the last newline alone (`StreamInv`), for every
  `SIZE`. `TokenizerCorrect`: the loop stands where a field begins with the fields before it
  cut, or at the end with the last one cut too (`CutInv`); fields are numbered by the commas
  before them, which `CommasCount` counts, for every `MAX_NMEA_TOKENS`. `EpochCorrect`: `days`
  is the number that mkgmtime's formula gives the date (`DateInv`); a step of the calendar
  raises it by one (`DayStep`), where a leap year is one in which the count of leap days goes
  up (`LeapDay`).

Every safety property of the passing runs is proved. Only model-checked: the liveness
properties (`HandshakeEnds`, `AnsweredCallReturns`, `EveryLossIsRecovered`,
`EveryRequestReturns`, `ProgrammedIsNoticed`, `ChangeIsReported`, `CleanupReturns`,
`FixIsReported`), since fairness is out of TLAPS' reach; and what `Number` computes, a fold
over digits that would need an induction over the text: the proofs show that `strtol` gets
exactly the digits of the field.

## Plan

Done: all modules above, and proofs of every safety property of the passing runs. What is
left is listed below, with the hazards of `PROJECT.json` that have no property.

## Not modelled

- `GsmDataConnectionTracker.java`: a modified copy of a framework class; the classes
  it calls, whose replies and timers decide its behaviour, are not in the repository.
- Shell scripts, init files, the kernel module and other binaries, captured logs.
- The output of GPS lines to a FIFO or pseudo terminal (`fw100-ril-gps.c`): writing of
  text to descriptors; `onUnsolicited` is modelled for the over-the-air messages.
- Handlers that are never dispatched (the GSM `requestRegistrationState`,
  `requestDeviceIdentity`, `requestSignalStrengthEVDO`, the `requestBasebandVersion`
  under `#if 0`, `pppAutomatic`), and `onATTimeout`, `pollSIMState` and `waitForClose`,
  which have no way to run. `onSupports`, `at_tok_nexthexint` and `at_get_cme_error`,
  which change nothing.
- Wording of AT commands and log output, the contents of the replies to the
  framework, and the formats of the control and status files beyond the options and
  the activation state.
