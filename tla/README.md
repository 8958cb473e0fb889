# qwertty in TLA+

qwertty (`src/`) is a Rust library for terminal sessions: it turns terminal
modes on and is bound to turn them off again, it decodes what the terminal
sends into events, and it asks the terminal questions whose answers arrive in
the same byte stream as the user's typing. This directory holds TLA+ models of
the parts of it that are stateful, concurrent or ordered, the TLC
configurations that check them, and TLAPS proofs of the properties that matter
most. A path that begins with `src/` is relative to the directory above the
repository's root, so that `src/src/correlate.rs` is the crate's
`src/correlate.rs`; the inventory names files of the crate's `src/`.

    tlc -workers 2 -config MCCorrelator.cfg MCCorrelator
    tlapm CorrelatorProofs.tla

## 1. Inventory

| Component | Code | State it keeps | Operations | Hard behaviour | What makes it correct |
|---|---|---|---|---|---|
| Query correlator | `correlate.rs` | slots by id, each with expectation, waiter count and held reply; next id | register, feed, take_reply, resolve | several waiters share a question, a reply arrives while some have yet to read, a waiter gives up | one reply per question, the same for every waiter; a slot lives as long as its waiters |
| Reply matchers, CSI mapping | `correlate.rs` match arms, `report.rs` parsers, `event.rs:map_csi`, `event/*.rs` | none | `Expectation::match_event`, the typed decoders before it | byte forms that overlap (row-1 cursor report and modified F3), parsers that compare bytes and parsers that compare values | no event is claimed twice, none is taken by a decoder on its way, every answer a terminal gives is accepted |
| Tokio query driver, event queue | `tokio_session.rs`, `caps.rs` | correlator, `active_query`, `active_probe`, `pending` | run_query, probe_capabilities, next_event | futures dropped at any await, late and missing answers, batches that hold replies and typing | leftovers are swept, typing is delivered once and in order, a reply goes to the request that asked for it, a call ends |
| Typed input | `tokio_session.rs:read_events`, `next_event` | the decoder, the Escape deadline | next_event, read_events | a read ends anywhere, a deadline races the bytes, a call is dropped | the events do not depend on the reads; a lone ESC becomes a key, and no sequence does |
| Synchronous query driver | `session.rs` | correlator, decoder, `decoder_carry`, `typeahead` | run_query, probe_capabilities, read_input | each raw byte attributed to its event over split reads; writes, polls and reads that fail | what is no reply reaches the application byte for byte, in order |
| Syntax tokenizer | `syntax.rs` | parser state, buffered sequence | feed, finish | a sequence split at any byte, payload limits | the tokens do not depend on the split; no byte is lost; memory is bounded |
| Semantic decoder | `event.rs`, `event/*.rs` | tokenizer, CR of a paste, half of a UTF-16 pair | feed, finish, flush_pending_escape | pastes over segments, flushes at boundaries | as typed input |
| Session lifecycle, mode ledger | `session.rs`, `session/ledger.rs` | `entered`, ledger entries, device modes | enter, leave, drop, enable/record, reset | writes that fail, modes changed while a panic hook runs | after leave the terminal is as it was found |
| Panic-safe restore handle | `session/restore.rs` | `armed` flag, teardown blob, captured mode | arm, disarm, publish, restore (from any thread) | restore races leave, another restore, and a publication | exactly one restoration; the blob covers what is on and is never torn |
| Job control | `tokio_session.rs` suspend, resume, run_detached | the above, non-blocking flag, `StopSignal` | suspend, resume, run_detached, reenter_with_retry | retries, several steps of which one fails, another program owning the terminal | hand-over and take-back leave no mode on the wrong side |
| Readiness (Unix) | `tokio_session/readiness.rs` | descriptor flags, registration | detach, reattach, reassert | flags shared with the shell | flags restored once |
| Windows console worker | `tokio_session/readiness.rs`, `terminal/console_input.rs`, `terminal/console_translate.rs` | thread, event, channel, leftover, surrogate, mouse buttons, window | wait, read, send, recv, pause, resume, drop | shutdown while parked, an event still set, halves of pairs over batches | one reader at a time, no false end of input, input whole and in order, a teardown that ends |
| Capability evidence, synchronized updates | `caps.rs`, `tokio_session.rs:synchronized` | the stored snapshot | infer, probe, store, gate | partial and late answers; environments that contradict the terminal | the snapshot is what was answered; updates are ended |
| Terminal devices | `terminal.rs`, `terminal/*.rs` | original termios | raw, cooked, read, write | operating-system failures | the original mode is kept |
| Policy gates, commands, width | `policy.rs`, `commands/`, `width.rs` | none | pure functions and tables | none that interleaving reaches | unit tests and generated tables |
| Sequence database tool | `tools/qdb` | files | capture, generate | file and process I/O | out of scope |

**Interaction.** The session is one owner of everything: `TokioTerminalSession`
wraps `TerminalSession` (ledger, restore handle, device) and holds the
correlator and the queue of decoded events. Bytes go from the device through
tokenizer and decoder to events; each event is offered to the correlator, and
what no expectation claims is queued for `next_event` (Tokio) or, as raw bytes,
for `read_input` (synchronous). Nothing in the session is a message between
tasks, so the concurrency is of four kinds: futures that are dropped at an await
while the session's fields live on; the terminal, which answers when it likes;
panic hooks of other threads, which hold a clone of the restore handle; and, on
Windows, the thread that reads the console.

The file `PROJECT.json` lists under `hazards` the places in the code where
these behaviours bite, each with the properties that would catch a mistake.

## 2. The modules

    SharedReply     <=implements=     Correlator --extends--> CorrelatorState
    CorrelatorState <--instantiate--  TokioQueryDriver, SyncQueryDriver
    ReplyMatchers                     discharges what CorrelatorState assumes
    SyntaxParser    <--extend--       SyntaxTokenizer, SemanticDecoder
    SemanticDecoder <--extend--       TypedInput, SyncQueryDriver
    TeardownBlob    <=implements=     DoubleBuffered
    SessionLifecycle <--instantiates-- JobControl
    ConsoleInput, MouseReports <--extend-- ConsoleReadiness
    KeyReports                        with ReplyMatchers in MCReplyMatchers
    Capabilities    <--extends--      CapabilityProbe

A module `MCx` holds the values of a run and the properties stated over whole
inputs; a module `xProofs` the theorems.

* **CorrelatorState** holds the correlator's operations as operators on a
  function from ids to slots, over an abstract relation `Matches` between
  expectations and events. **Correlator** is the state machine: waiters join a
  slot, read its reply or give up, and the terminal's events are fed to it.
  `Expectation::match_event` is `Matches`; `register`, `feed`, `take_reply` and
  `resolve` have the source's names. **SharedReply** is the promise: waiters of
  one question form a group with at most one answer.
* **ReplyMatchers** enumerates tokens (final byte, marker, intermediate,
  parameter values) and says, as the parsers do, which expectation accepts
  which and which tokens `map_csi` turns into a key, a mouse report, a focus
  event or a resize before the correlator sees them.
* **KeyReports** is the decoding of keys: kitty's `CSI u`, the older sequences
  with modifiers, win32-input-mode and the bare arrows, in the order of
  `map_csi` (`decoded_keys`). MCReplyMatchers puts presses of a key, with
  modifiers, into each protocol in each way it can be written, and lets them go
  through `map_token` and the decoders. **MouseReports** is the decoding of SGR
  mouse reports; ConsoleReadiness applies it to the reports that the console's
  records are translated to.
* **TokioQueryDriver** is the driver over CorrelatorState: one action per
  stretch of code between two awaits, plus the drop of the future at each
  await. `StartQuery`/`StartProbe` sweep and register, `WriteRequest` ends the
  write and drains what was buffered, `ReadBatch` takes a read, `EndRead` is a
  deadline, end of input or error, `TakeEvent`/`BufferBatch` are next_event.
  The terminal's actions are `Answer`, `Ignore`, `TypeKey`, `ResizeWindow`. The
  loops over a batch, a bundle and the leftovers are recursive functions over an
  operator for one turn of the loop, which is what the proofs count along.
* **SyntaxParser** is the code of `syntax.rs` as operators on the parser's
  state, over classes of bytes, each named for a member. One turn of the loops
  of `feed`, and one byte of a string or paste, is one step of
  **SyntaxTokenizer** (`Scan`); `feed` hands over any further part of the input
  and `finish` may come after any of them. A prefix that is not complete is
  buffered and read again with the next chunk, as in the code. CAN stands for
  SUB, APC for PM and SOS, which the code treats alike. `Drained` is a whole call
  of `feed`, a recursive function of turns: the modules above use it, and
  `SplitEquivalent` compares with it. MCSyntaxTokenizer has the inputs.
* **SemanticDecoder** turns tokens into events: text by characters, an ESC alone
  into the key, pastes with their state over segments (`paste_pending_cr`), the
  halves of a UTF-16 pair that win32 reports bring, a control sequence into a
  key, into nothing, or into syntax. Of the sequences it has those that can be
  written with the parser's classes of bytes: two tilde keys, a function key,
  win32 reports of a half, everything else as syntax. Keys carry no modifiers
  here; those are KeyReports'.
* **TypedInput** is `read_events` and `next_event`, as bytes: a read that does
  not fill its buffer ends settled text, a deadline takes a lone ESC for the
  key, a dropped call leaves the decoder as it is. It models a session with a
  configured `esc_flush_timeout`.
* **SyncQueryDriver** is the blocking driver over both SemanticDecoder and
  CorrelatorState. A byte is known by its position in the log of what the
  terminal sent, so that attribution is visible. `StartQuery`, `StartProbe`,
  `ReadAndMatch`, `TimeOut`, `ReadFails`, `Eof` and `read_input` are the calls;
  the write may fail in each `Start`, which returns early as the code does.
* **SessionLifecycle** has the session's own thread (`pc`) and a panic hook per
  other thread (`hook`). Every device write and every access to shared state is
  one step; a write may fail with or without effect. A mode of the terminal has
  a level, 0 being as found.
* **JobControl** instantiates SessionLifecycle with its own variables, so the
  replays of the ledger in a job are that module's `Enter`, `ApplyEntry`,
  `Leave`, `UndoEntry` step by step, panic hooks in between. It adds who owns
  the terminal (session, shell, child), the status flags of the shared file
  description, the reactor's registration, the tries of `reenter_with_retry`
  and whether a replay reported an error. `Suspend`, `Stop`, `Continue`,
  `Resume` and `RunDetached`, `Detach`, `Reattach` are the calls and the points
  where the terminal changes hands; `Meddle` is what the other program does to
  modes and flags; `Close` is leave or drop, also of a session whose open, child
  or reattachment failed.
* **DoubleBuffered** is the teardown blob at the grain of its atomics and its
  two mutexes: the publisher renders into the inactive buffer one part at a
  time and swaps the index; readers load the index and then lock.
  **TeardownBlob** is the promise: a cell whose readers get one whole value,
  no older than the one published when they began.
* **ConsoleInput** is the translation of console records (keys with repeat
  counts and UTF-16 units, mouse states, window changes) with the state that
  outlives a batch. **ConsoleReadiness** is the thread and the session around
  it: `Wait`, `Read`, `Send` and their failures; `read`, `RunDetached`,
  `SetEvent`, `HangUp`, `Join`, `ResetEvent`, `Respawn` and `DropSession`, each
  a step the other side can see. `drain_pending`, the same buffer for a blocking
  reader, is left out.
* **Capabilities** is `caps.rs` as operators: identity and findings from the
  environment, and what each reply stores. **CapabilityProbe** asks and
  believes: a reply is a query and a value, in any order, with the probe that
  asked for it (which the session cannot see); frames of `synchronized` are
  begun, nested, probed in, failed and dropped.

SessionLifecycle takes the blob as one value that changes in one step;
DoubleBuffered implementing TeardownBlob is what entitles it to. CorrelatorState
assumes no two expectations match one event; ReplyProofs proves that of
the real matchers, and no pair of expectations leads to `Ambiguous`.

## 3. The runs

| Run | Question | Bounds, and why they are enough |
|---|---|---|
| `correlator` | Do joined waiters get the one answer, and is the slot freed with the last? | 3 waiters: two share a slot and a third joins late or asks anew. 4 ids let a question be asked again after it was freed. Two cursor replies tell a first answer from a second. |
| `matchers` | Is an event claimed twice, taken early, or refused; is a key heard as it was pressed? | Finals, markers and intermediates are those of the matchers and of the typed decoders tried before them. Values hold each discriminator the code compares, 0, a value in no table and 2^16, where u16 parsing fails. 3 fields is the longest report matched. The keys are all that the decoders' tables name up to F24, a letter and a digit; 5 modifiers, each set of them, with the lowest and the highest bit of the field; repeat counts of 0 and 33 are beyond both ends of the clamp. |
| `tokio_queries` | Do calls own what they registered, get their own replies, and end; are typing and geometry delivered right meanwhile? | 4 ids: two probes of two, a query and a probe with one to spare, or four queries. A wire of 2 holds both replies of a bundle, or a reply and a key, in one read. 2 keys can be put back in the wrong order or overtake each other between the queue and the wire; 2 resizes are the least that coalesce, with a key between them or not; 3 of them in all. |
| `lifecycle` | Is the terminal restored, once, and does the blob cover what is on? | 2 hooks race each other and leave; 2 set/reset modes, the keyboard stack with depth 2 and raw mode are every kind of entry; the ledger can reach its full length; writes fail. |
| `job_control` | Does the other program get the terminal as found, and the session get it back whole? | 1 panicking thread, 1 set/reset mode, the keyboard flags and raw mode are every kind of entry; 2 tries (the code has 10) are a first and a last one, and any number of jobs may follow each other. The keyboard stack has depth 2. Writes fail. |
| `double_buffered` | Are reads whole and fresh enough? | 2 readers, 4 publications: a reader may be overtaken twice, when its buffer comes around again. |
| `tokenizer` | Do the tokens depend on the reads, is a byte lost, does a paste end early or late, is memory bounded? | All inputs of 3 bytes over 14 classes; strings of each kind with 3 bytes of payload after four introducers; pastes of 3 bytes after the start bracket and 4 ways to go on, every cut between bytes. Limit 0 overflows at once; 3 is the least at which a paste can begin, and is reached in text, prefix, payload and segment. |
| `typed_input` | Do the events depend on the reads, does a paste on its segments, and is a lone ESC delivered? | Up to 3 items (characters of one and two bytes, CR, ESC, a key, both halves of a pair, a reply, a title), or a paste of up to 4 bytes and what follows it. Limit 3 cuts such a paste into segments at every place, with CR and LF on the two sides. Reads of up to 3 bytes that fill their buffer or not; 1 dropped call. |
| `mid_paste` | The finding of section 5 | as `typed_input` |
| `sync_queries` | Is every byte handed back or a reply; is a reply that was read taken? | 2 calls: a query or a probe of one reply and its fence, twice, after each other's failure. 1 key of one, two or three bytes lands before, between and after the replies, cut anywhere. |
| `console_worker` | One reader, no false end, nothing lost, and an end to the teardown? | Scripts of up to 3 records: halves of pairs in every order, repeats, records without bytes and resizes between them, mouse states of two buttons in every order and a click of each of the five. Batch 2 splits a script over two batches and a pair between them; a channel of 1 is full while the next chunk is sent; a read of 1 or 2 leaves a rest. 1 job and a drop afterwards are every teardown. |
| `capabilities` | Is the snapshot what was answered, and are updates ended? | 2 probes, so that late answers of the first meet the second; batches of 2 in any order; terminals that answer the fence, a name or none, and one more query in each of its ways; a dumb terminal, a multiplexer that passes on a name, and a contradiction of `TERM_PROGRAM` and `TERM`; 2 frames, nested or not. |

Every bound is a CONSTANT of its module (`Max...`, `Retries`, `Limit`, the
`...Bytes` of MCSyntaxTokenizer), given its value in the cfg, and guards the
environment or the number of calls. No run uses symmetry.

`CHECK_DEADLOCK FALSE` is set where the system really may stop: the drivers,
TypedInput and CapabilityProbe when the calls are used up and the terminal is
silent, SessionLifecycle, JobControl and ConsoleReadiness after the session was
dropped (that a teardown cannot hang is `TeardownEnds`), SyntaxTokenizer after
`finish`, ReplyMatchers because a token is only looked at. The runs `correlator`
and `double_buffered` check for deadlock: the two mutexes and the waiters never
block each other.

### What they show

* *Correlator*: `PairwiseDistinct` (no two tracked slots ask the same question,
  hence feed completes at most one), `WaiterAccounting`, `HeldReplyIsStable` (a
  reply once held is not replaced while anyone may read it), and the refinement
  to SharedReply.
* *Matchers*: `OneClaimant` (no event completes two questions),
  `RepliesReachCorrelator` (no typed decoder takes a reply away),
  `AnswersAreAccepted`, and `KeysReadAsPressed`: key, modifiers, kind of event
  and text of a press are the same in whichever protocol it is reported.
* *Drivers*: `SlotsAreOwned` (after a drop at any await the leftovers are where
  the next sweep finds them; in the synchronous driver only a failed probe
  leaves any), `OwnReplyUnlessGaveUp`, `FenceWaitsForBatch` (the fence closes
  the batch it came in, not the point it came at), `EveryCallEnds`,
  `TypeaheadInOrder`, `LastGeometryArrives`, `TypeaheadSurvives` (what the
  application was handed, what is buffered, what the decoder holds and what is
  still to be read are the log, in order, less whole replies) and
  `RepliesAreTaken`.
* *Input*: `SplitEquivalent`, `EveryByteIsAccountedFor`, `PasteEndsAtItsBracket`,
  `MemoryIsBounded` for tokens, `EventsDoNotDependOnReads`,
  `PasteTextIgnoresSegments`, `EscapeIsDelivered` for events.
* *Session*: `CleanAfterLeave`, `EmergencyCovers`, `RestoredOncePerPeriod`, the
  refinement to TeardownBlob, which contains that no read is torn; `AwayIsClean` and
  `FlagsNeverLeak` (another program never meets the session's modes or its
  O_NONBLOCK, whichever step failed before), `HandBackIsComplete`,
  `EveryJobEnds`.
* *Console*: `OneReader`, `NoFalseEof`, `InputInOrder`, `ButtonsAreFollowed`
  (records translated to reports, and those decoded to events: the application
  knows which buttons are down, and a move names one of them), `TeardownEnds`.
* *Capabilities*: `SnapshotIsHonest` (each probed field is what the terminal
  answered, and unknown when it did not), `ImagesFollowTheName`,
  `FramesArePaired`.

Type invariants (`TypeOK`) are defined in every state machine; for the modules
with proofs they are theorems, and no run spends a property on them.

### Fairness

Only liveness uses any, and each conjunct is named where it is defined.

* TokioQueryDriver, `LiveSpec`: the runtime's timer fires
  (`tokio::time::timeout_at` around each read), and a write the call awaits
  completes. The second is the terminal's doing and not the code's;
  `EveryCallEnds` depends on it, since the deadline begins after the write (see
  section 5).
* TypedInput, `FairSpec`: the application goes on asking for events, as an event
  loop does, and the timer of a call it does not drop fires. The bound on drops
  makes it one that stops dropping: an application that drops each call before
  the deadline never gets its key.
* JobControl, `FairSpec`: the session's thread goes on with the job it has begun,
  the timer of the retry's sleep fires and a session that unwinds is dropped;
  the shell, the child and the hooks are under no obligation. `EveryJobEnds`
  excepts the state `at_bound`, in which a replay would push the keyboard flags
  beyond the model's `MaxLevel`.
* ConsoleReadiness, `FairSpec`: the operating system runs both threads. The
  console need not deliver, the application need not read, the child need not
  return.

### What the models assume

* **Memory.** `active` is loaded with Acquire and stored with Release and the
  buffers are under mutexes, `armed` is swapped with AcqRel; DoubleBuffered and
  SessionLifecycle interleave these accesses sequentially, one access a step.
  There is one publisher, as `publish` is called through `&mut` session methods.
* **The excuse.** `CleanAfterLeave`, `EmergencyCovers` and `AwayIsClean` except
  the kinds in `excused`: those which by the code's own design no path undoes. A
  kind enters it when its undo failed to be written, when it was written but
  never recorded (the keyboard grant that did not come, a write that failed with
  effect), when it was turned on while the session was left or its handle already
  claimed, or when the keyboard flags were pushed on top of themselves.
* **TypedInput** claims independence of the reads until a flush has ended a paste
  or half of a pair (`cut_short`); `mid_paste` shows what happens then.
* **SyncQueryDriver** claims `TypeaheadSurvives` until `read_input` has read the
  device past bytes the decoder still holds (`overtaken`), which it then returns
  out of order. `RepliesAreTaken` speaks of expectations the call itself
  registered, not of those left over from a probe that failed.
* **ConsoleReadiness.** No other process takes records between the wait and the
  read. The wait is told of input before the event when both are signalled, so a
  flood of records postpones the end of the thread: `TeardownEnds` holds as a
  script is finite. Coordinates of the mouse and the encoding of characters and
  reports are left out.
* **CapabilityProbe.** A text that is searched (XTVERSION, TERM_PROGRAM) is the
  set of the markers in it; DA1, whose attributes are stored and read by nothing
  else, is a value.

## 4. What is proved

| Module | Theorem | From |
|---|---|---|
| CorrelatorProofs | InductiveInvariant; TypeCorrect, ExpectationsStayDistinct, WaitersAreCounted, HeldRepliesAreStable; Refinement to SharedReply | finite set of waiters, matchers disjoint |
| ReplyProofs, matchers | MatchersAreDisjoint, RepliesStaySyntax, ModifiedF3IsNoReply; AnswersMatch; OneExpectationClaims, DecodersLeaveReplies, AnswersAccepted | distinctness of the bytes named; discriminators are mode numbers |
| ReplyProofs, capabilities | InductiveInvariant; TypeCorrect, SnapshotsAreHonest, ImagesAreByName, FramesEndWhatTheyBegin | the mark of absence is no string and no boolean, a terminal reports modes as 0 to 4 |
| TokioQueryDriverProofs | InductiveInvariant; TypeCorrect, SlotsAlwaysOwned, TypeaheadSurvives, LastGeometrySurvives, RepliesFindTheirRequest, FenceTakesItsBatch | a bundle asks no question twice and ends in its fence, marks of absence are no event and no id |
| SyncQueryDriverProofs | InductiveInvariant; SlotsAlwaysOwned | a bundle asks no question twice and ends in its fence, marks of absence are no event and no id |
| SessionLifecycleProofs | InductiveInvariant; TypeCorrect, TerminalIsRestored, EmergencyIsCovered, RestorationIsClaimedOnce | KindsAreDistinct |
| JobControlProofs | InductiveInvariant; TypeCorrect, AnotherFindsItClean, FlagsStayHome, OkMeansBack | the same, and at least one try |
| ThreadProofs, blob | CellInvariant; CellTypeCorrect, ActiveIsWhole, ReadsAreNeverTorn; CellRefinement to TeardownBlob | names of threads are distinct |
| SyntaxTokenizerProofs | InductiveInvariant; TypeCorrect, MemoryStaysBounded, EveryByteAccounted, TokensIgnoreTheSplit, PastesEndAtTheirBracket | limits are naturals, inputs are sequences of bytes |
| ThreadProofs, console | InductiveInvariant; OnlyOneReads, EofIsReal | capacities are positive |

They hold for every number of waiters, threads, readers, modes, ids, tries and
jobs, for every bundle and every batch, and for every limit, input, chunking,
script and capacity.

* **Correlator.** The invariant ties three things: ids below `next_id`, the
  waiter count of a slot to the set of waiters holding its id, and distinct
  expectations in the tracked slots. The counts need finite-set cardinality,
  since a waiter that joins or leaves changes it by one. `HeldReplyIsStable`
  and the refinement need distinctness: without it an event could complete a
  slot whose question another slot has answered.
* **Matchers.** Expectations are told apart pairwise, by final byte, marker,
  first parameter or discriminator; the theorem is a case split on them. Over the
  state machine this gives `OneClaimant` and `RepliesReachCorrelator` for every
  universe of tokens and every set of discriminators. `AnswersMatch` is the
  converse: the answer to a question, with any values in their range, passes
  `map_csi` and is accepted by the question's matcher.
* **Capabilities.** `SnapshotIsHonest` speaks of a snapshot that has been taken.
  What makes it so is `Believed`, that a result holds for each field the value
  some reply stores there, or none, and `World` and `Listening`, that the
  replies on the wire and those taken are replies the terminal gives to what has
  been asked, so that a reply of a probe that was dropped tells the next one
  nothing false. That storing keeps `Believed` is proved by counting the batch
  up, reply by reply. `Drawn` ties the update under way
  to the frames that are open: some gated frame is still to end it, unless one
  was dropped or could not write its end.
  Environment and terminals are arbitrary.
* **Tokio query driver.** `SlotsAreOwned` needs to know whose the slots are:
  `CallIsRecorded` says that the last call registered the newest ids, one after
  another, and that the session has them in its fields until the call has cleaned
  up, whether it goes on or was dropped; `SlotsAreOfTheCall` that no others are
  tracked, and which of the call's are, by what it has got. With it a sweep is
  seen to empty the correlator, so that each call registers afresh.
  `OwnReplyUnlessGaveUp` needs `RepliesAreAwaited` (while no call has given up,
  what is under way is for a slot that waits, in the order of registration), and
  the property of the fence `PassedOnIsUnclaimed` (what a probe passed on to the
  application answers no query it still waits for). The order of the keys and of
  the window's sizes is kept by each turn of each loop; the loops are recursive
  functions, and what holds of them is proved by counting their turns up, from
  the least-element principle.
* **Synchronous query driver.** It keeps no record of whose a slot is, and a
  probe that fails leaves its slots registered, so `SlotsAreOwned` says: but for
  those, each slot belongs to the call that blocks or to the next sweep. It is
  inductive with `Tracked`, that a slot no failed probe left has one waiter, so
  that taking its reply or resolving it removes it; this is where the distinct
  questions of the bundle are needed, since only then a call joins no slot of
  its own. `Calling` says that a query that waits has its one id in
  `active_query` and a probe has none there. A call that took its reply has to
  have taken a slot with it (`Offered`), byte after byte and event after event,
  for which the decoder must go on producing lists of events (`DecoderOK`): its
  parser is the tokenizer's, whose theorems are used through an instance (the
  `Same` lemmas say that the two are one).
* **SessionLifecycle.** `CleanAfterLeave` alone is not inductive: nothing in it
  says why a leave that skips may skip. `Loose` says that when the session is
  in no entered and armed period, what is still on is excused or will be reset
  by a hook that is under way; `Undoing` says the same of the part of the
  ledger that leave has not reached; `Recording` ties the blob to the ledger
  and the ledger to the terminal; `Claiming` and `Control` say when `armed`
  can be set. Each is preserved by every action under the others.
* **JobControl.** The steps of a job that are the session's own keep the
  lifecycle's invariant by `SessionLifecycleProofs!StepKeeps`, used through an
  instance (`SameInvariant` and `SameNext` say that the two instances are one);
  only what the other program does is new. `Steps` and `Standing` say for each
  point of a job what the session is doing and who owns the terminal,
  `Descriptor` who has set the flags of the shared description, `Replaying` that
  the entries a replay has passed are on. `AwayIsClean` then is `Loose` at the
  points where the session is left; an Ok is `Standing`, `Descriptor` and
  `Replaying` at the last step of a take-back.
* **DoubleBuffered.** `Rendering` says the inactive buffer is what is being
  written, `Locking` that a lock's holder is the one whose pc says so,
  `Reading` that what a reader has locked is whole and not older than the
  value published when it began, even when it is the inactive one.
* **SyntaxTokenizer.** The bound on memory needs the bound on each scan: a
  prefix that exceeds the limit ends at once (`AfterRun` is a CHOOSE, so its
  lemmas show that the run exists, from the least-element principle), text is
  cut at the first character that reaches the limit, and what a broken paste
  candidate leaves held is a proper prefix of an end bracket, so at most 5
  bytes. `Shape` adds that a string being read has its kind, and that nothing
  is unread while a prefix is buffered.

  Reconstruction: `Accounted` says that what the parser has kept, dropped, holds
  and has yet to read follow one another behind the last token (`Lies`), that
  each token covers the input behind the one before it (`Covers`), and where
  bytes may be dropped at all (`Layout`). One lemma for each way a turn can go
  shows that its outcome accounts for the bytes it took. What is read again, a
  held ESC in front of the byte that followed it, is why these lemmas speak of
  positions in the input and not of bytes added to a sum.

  Split equivalence: a turn over a longer chunk either does what it did over the
  shorter one, with the rest still to read, or the shorter one had only waited
  for more (`Agree`). So the state of the parser, however the reads were cut, is
  one that all the input so far, fed at once, passes through (`PassedThrough`).
  That the uncut call then ends in it needs that turns come to an end: `Left`
  weighs what is unread and what a string holds, each turn lowers it, and so
  three turns for each byte are enough for `Drained`.

  Pastes: `PastesAreOpaque` says of what each paste has brought, over all its
  segments, that it contains no end bracket (`HasEnd`), and of the one that goes
  on also that the bytes held are its longest end that begins a bracket
  (`Clean`). That makes the fewest bytes the right ones to give up when a
  candidate breaks: a bracket in the longer string must end with the new byte,
  and what precedes that byte then began one already, so it was held
  (`CleanGoesOn`).
* **ConsoleReadiness.** `OneReader` and `NoFalseEof` need why a thread that ended
  is not mistaken for the end of input: `HungUp` (from the moment the session
  hangs up until it respawns there is no receiver), `EventIsFresh` (while the
  session listens the event is reset) and `EndsForCause` (a thread that ended
  while somebody listens met a broken console).

TLC checked each `IInv` and `CellInv` before it was proved. Only model-checked:

* liveness (`EveryCallEnds`, `EscapeIsDelivered`, `EveryJobEnds`,
  `TeardownEnds`), which is out of the prover's reach;
* SyncQueryDriver's `RepliesAreTaken` and `TypeaheadSurvives`, which hold of the
  bytes and replies the run gives, not of any: a typed sequence that is not whole
  swallows the reply behind it, as in the code;
* TypedInput (`EventsDoNotDependOnReads`, `PasteTextIgnoresSegments`), which
  compares with the decoding of the whole input, two folds deep;
* `InputInOrder` and `ButtonsAreFollowed`, folds over the console's records;
* `KeysReadAsPressed`, a finite table of what terminals send.

## 5. Findings

* `mid_paste`: a read that does not fill its buffer ends what is pending when
  `has_settled_text` says that it is complete text
  (`src/src/tokio_session.rs:1719-1720`, `src/src/session.rs:1577-1578`). In the
  middle of a bracketed paste the pending bytes are those of the paste's current
  segment (`src/src/event.rs:303-309`). In its first segment they begin with the
  start bracket, whose ESC or 9b is no text, so a paste below the payload limit
  (64 KiB by default) may come in any number of reads. Once a segment has been
  cut at the limit (`src/src/syntax.rs:596-608`) they begin with what was pasted:
  the next read that does not fill its buffer and leaves whole characters
  there, the first of them no control byte, ends the paste, and the rest of it is
  decoded as keys, against what the docs say of a paste larger than the bound,
  "a keybinding never fires mid-paste" (`src/src/event/paste.rs:11-15`). The
  run's limit is 3, its paste four bytes of text; the key comes from the rest of
  the end bracket.

Met while modelling, without a run of their own; each is what the models do, and
the properties except it where they must:

* A query times out, is asked again, and the late answer to the first completes
  the second, against `src/src/correlate.rs:42`: the expectation's shape is all
  that tells replies apart. `OwnReplyUnlessGaveUp` holds while no call has been
  abandoned. A DA1 reply still due from an abandoned probe closes the next
  probe's fence early, for the same cause.
* The deadline is computed after the request is written and flushed
  (`src/src/tokio_session.rs:1561-1571`), so it does not bound the whole
  operation (line 805).
* A mode enabled while another thread's panic hook claims the restoration is
  undone by nobody, because leave skips when the handle was claimed
  (`src/src/session.rs:329-333`, against 905-906).
* Inside a string each byte is compared with the 8-bit ST
  (`src/src/syntax.rs:438`), so the continuation byte 9c of a character in a
  title ends it, against lines 52-53, which recognize a C1 byte only where a
  character starts.
* A lead byte without its continuations takes as many following bytes as it
  announces into its malformed token, an ESC among them.
* A string may keep one byte more than "introducer_len + limit"
  (`src/src/syntax.rs:471`): a DCS whose prefix fills the limit has a final byte
  as well. A paste segment may exceed the limit by what a broken candidate
  held, up to 5 bytes. `MemoryIsBounded` states the bound that holds.
* A settled text that is ended while half of a UTF-16 pair is pending emits the
  replacement character behind the text, and the other half later another.
  `flush_pending_escape` returns the first event of such a flush only.
* The lone-Escape deadline of next_event starts anew with each call.
* Bytes of a sequence that is not whole when a synchronous query returns stay in
  `decoder_carry` and are not returned by `read_input` before what follows them
  (the docs of `src/src/session.rs` near 1216 and 1262 promise typeahead in
  order).
* The synchronous probe returns early on a write, poll or read error without
  resolving its bundle; a later probe joins those slots, and one that was
  completed meanwhile is not completed again, so that the probe runs to its
  deadline.
* A span of bytes with any awaited completion in it is consumed whole; a
  completion of an expectation that is not awaited stays typeahead.
* While a dropped query's expectation is registered, next_event feeds late
  replies to it and they are discarded, not delivered as events.
* Two pushes of the kitty keyboard flags leave one ledger entry and one pop.
* A mode enabled while the session is left is recorded but not undone by drop;
  it is undone by the leave after the next enter.
* When run_detached fails to register the descriptor anew, the session is left
  without one, although the field's docs say that only a child's run may see it
  so (`src/src/tokio_session.rs:563-567`), and its next use panics. On Windows a
  resume that fails leaves no receiver, and the next read panics on its expect
  (`src/src/tokio_session/readiness.rs:534`).
* A resume after a stop that no suspend announced (SIGSTOP) replays no mode, as
  the session is still entered. A second suspend after one whose undo failed
  stops the process with that mode on, as the session is already left: in the
  model the kind is excused. While the process is stopped, the shell's file
  description has O_NONBLOCK set.
* A read error of the Windows console drops half of a pair silently, where the
  end of the input flushes it.
* A mode report of state 2 (reset) is stored as `Some(false)`, so `synchronized`
  begins no update on a terminal that supports mode 2026 and has none in
  progress; the docs (`src/src/caps.rs:727-728`) speak of support. A dropped
  `synchronized` future, or an end that cannot be written, leaves the mode set,
  and the inner end of two nested frames ends the outer's update.
* `probe_capabilities_from_env` seeds the findings from the process's
  environment, not from the one passed (`src/src/session.rs:1353`). An
  unrecognised XTVERSION name (Zellij) leaves the environment's name standing,
  so `iterm2_images` may stay inferred behind a multiplexer.

## 6. Not modelled, and what is left

* **Terminal devices**: operating-system calls, whose effects the models take
  (a write that fails or not, cooked mode on drop).
* **Policy gates**: each is one condition, evaluated in the call that writes, on
  a value only the owner of the session changes.
* **Command vocabulary and encoding, text width**: formatting of output and a
  generated table; no state, nothing that an interleaving reaches.
* **Sequence database tool**: a separate program of file and process I/O.
* **Of what is modelled**: the parsed parameters of a sequence, the payload
  grammar of string replies and mouse coordinates (each a function of the bytes
  of one token); the signal and resize streams of job
  control, which report signals and keep no state; the Windows restore handle,
  which restores modes in place of termios by the same steps; a synchronous
  session without a descriptor.

The map covers about an eighth of the lines of the crate. All functions and types
together are not a third of them: most of the files is documentation, tests and
formatting, and of the rest the greater part are accessors and encoders without
state.

What is left, in order of what it would add:

1. The taking of replies and the order of typing in the synchronous driver, from
   assumptions on the bytes of replies and keys that make each a token.
2. `InputInOrder`, over single records in place of batches.
