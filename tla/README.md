# memtraq in TLA+

memtraq is a shared library, preloaded into an application, that hooks `malloc`,
`free`, `realloc` and the C++ operators, serves them, and logs one record per
operation to a file or over UDP; a Perl script reads the log on another machine
and reports the blocks that were never freed. This directory holds TLA+ modules
of it, the TLC configurations that check them and the theorems proved about them.

## The system

| part | source | state | operations |
|---|---|---|---|
| hooked functions | `src/hooks.cpp` | none | `malloc`, `calloc`, `realloc`, `free`, `new`, `delete` |
| wrappers | `src/memtraq.c` | `initialized`, `enabled`, `nested_level_key` (a level per thread), `log_lock` | `do_malloc`, `do_free`, `do_realloc`, `enter`, `leave`, `check_initialized`, `do_init` |
| public API | `include/memtraq.h`, `src/memtraq.c` | `enabled`, `tag_serial` | `memtraq_enable`, `memtraq_disable`, `memtraq_tag` |
| log records | `src/memtraq.c` (`log_*`) | `log_buffer`, `serial`, the stdio buffer of the file | `log_event`, `log_write` and the encoders |
| internal allocator | `src/lmm.c`, `src/clist.h` | 512 KB in `.bss`, a circular free list, a mutex | `lmm_alloc`, `lmm_free`, `lmm_realloc`, `lmm_valid` |
| transport | `src/memtraq.c` (`sendto`), `udp-logger.pl` | datagrams under way, the file | send, store |
| analyzer | `memtraq.pl` 272-500 | `%chunks`, `%hotspots`, `%unknown_frees`, `$total`, serials | one handler per kind of record |
| reports | `memtraq.pl`, the rest | symbol tables, a graph | options, decoding with gdb, printing |
| debug traces | `src/trace.c`, `src/trace.h` | a level per class, a recursive lock, one shared buffer | `TRACE1` to `TRACE4`, `trace_init`, `trace_start`, `trace`, `trace_end` |
| formatter | `src/vsnprintf.c` | none between calls | `mt_vsnprintf` |

How they interact: a hooked function calls a wrapper. The wrapper raises the
thread's level; if the level shows that the thread is inside a memory operation
already, an allocation goes to the internal allocator, otherwise to the C
library. An outer operation then takes `log_lock`, tests `enabled`, releases the
lock to take a backtrace (which may itself call the hooked functions), takes the
lock again and writes its record. The first hooked call initialises memtraq,
which opens the log file and so may call the hooked functions too. All of them pass
traces, `lmm.c` with its own mutex held; a trace that is enabled takes the traces' lock,
is formatted by `mt_vsnprintf` and goes to stderr.

What is hard in it: recursion through the C library at every point where a
wrapper calls it; threads between the two times they hold `log_lock`; which of
two heaps a block belongs to; an in-place allocator that trusts header words in
memory it has handed out before; a log that may be switched off, lost, reordered or
cut by a crash, and a reader that must make sense of it; two locks that are taken
one inside the other, a buffer that all threads share, and a formatter that must
return, whatever the format, since its caller holds a lock.

What makes each part correct: the allocator keeps its callers' blocks apart and
loses no memory; levels return to where they were, each block goes back to the
heap it came from, the log tells which blocks are in use; the report is that of
the log, and says when the log is incomplete; what is read from the
file is what was logged; a trace is whole, and an output that is cut is a prefix.

## Modules

| module | what | extends |
|---|---|---|
| `Heap` | the promise of any allocator over one region: the extents handed out lie in it and are disjoint | |
| `Lmm` | `lmm.c` and `clist.h` in full | |
| `LmmProofs` | the theorems about `Lmm`: its invariant and the refinement of `Heap` | `Lmm` |
| `LmmListProofs` | those about the free list as a whole, the scan and the copy | `LmmProofs` |
| `Memtraq` | `memtraq.c` and `hooks.cpp`: threads as stacks of calls in progress | |
| `MemtraqProofs` | the theorems about `Memtraq` | `Memtraq` |
| `Analyzer` | the event loop of `memtraq.pl`, one action per kind of record | |
| `Pipeline` | program, `log_write`, network, `udp-logger.pl` and `Analyzer` together | `Analyzer` |
| `PipelineProofs` | the theorems about `Pipeline` | `Pipeline` |
| `LogFormat` | the log as bytes: records in `log_buffer`, the file behind stdio, an exit or a crash, `memtraq.pl` reading it back | |
| `LogFormatProofs` | the theorems about the writer's buffer and about what is read back | `LogFormat` |
| `Trace` | `trace.c`, `trace.h` and the traces that calls pass in `hooks.cpp`, `memtraq.c` and `lmm.c` | |
| `TraceProofs` | the theorems about `Trace` | `Trace` |
| `Conversions` | `fmtstr`, `fmtint` and `fmtflt` of `vsnprintf.c` as functions | |
| `Format` | `mt_vsnprintf`: reading the format, every conversion, the bounded writer | `Conversions` |
| `ConversionsProofs` | lemmas about what they produce: text, its length, the number it is read back as, and what the buffers of `fmtflt` hold | `Conversions` |
| `FormatProofs` | the theorems about `Format` | `Format`, `ConversionsProofs` |
| `MCLmm`, `MCMemtraq`, `MCPipeline`, `MCLogFormat`, `MCTrace`, `MCFormat` | values and symmetry for TLC | each its module |

**Lmm.** The region is a row of cells; a memory word read as a header is the four
fields of `clist_t` at its first cell, and every cell has them, so that a header
absorbed by coalescing, or application data that looks like a header, is still
there to be misread. The list is the code's own, two pointer fields per header
and the macros as pairs of functions. `AllocLock`, `CheckNextBlock`, `Skip`,
`TakeWhole`, `Split` and `Fail` are the steps of `lmm_alloc`'s loop, under the
mutex; `Copy` and `FreeBlock` are the other critical sections of `lmm_realloc`
and `lmm_free`. `Fill` is the application writing what would mislead the
allocator most: a free block's header in every word it owns. The variables
`blocks` and `merged` are histories that only the properties read. The unit of a
cell is the granule to which requests are rounded: 16 bytes with a header of one
cell on a 32-bit target, 8 bytes with a header of three on a 64-bit one, where
`ALIGN`'s mask is not that of a power of two; `ALIGN` is modelled as written, in
the arithmetic of a `size_t` of `WORD` values.

**Memtraq.** A thread's stack holds its calls in progress, each with a program
counter, its argument, its result and the level it saw. `Enter` to `InitWrite` are
`enter`, `check_initialized` and `do_init`; `Malloc`, `Free`, `Realloc`,
`LmmRealloc` and `Tag` the operation; `Check`, `Backtrace` and `LogWrite` the two
critical sections and the gap between them, in which `FromBacktrace` lets
`backtrace ()` call the hooked functions. `StdioMallocs` names the calls on the
log file that allocate. A record keeps what happened, the pointers and the
writer. `log_lock` is a variable only because `do_init` writes its record with it
held; the other critical sections are single steps that wait for it.
The socket set-up of `do_init` changes no modelled state. `tag_serial` is left
out: nothing modelled reads it. A thread that is not in `Cold` starts when
the INIT record has been written.

**Analyzer and Pipeline.** `Read` is one turn of the event loop: `ReadSerial`, the
handler of the record's kind, `UpdatePeak`. `%hotspots` and `%unknown_frees` are
functions in which a missing key counts zero. `Pipeline` adds a sequential
program, numbers its records as `log_write` does, carries them in a sequence from
which a datagram may be lost or overtaken, and reads them in the order in which
they arrived, which is the order in which `udp-logger.pl` stores them. A file is
the case without faults. The script runs after the program and here the two
interleave: the script's state depends on the records alone, so this only lets
TLC check the report at every point at which the program may stop. `faults`,
`seen` and `story`, the records read while tracking, are histories.

**LogFormat.** A byte is a cell `<<v, i, n>>`, byte `i` of the `n` bytes of the value
`v`: a reader gets `v` back only if it reads it where it starts and in its whole width,
so every mistake about an offset or a length shows. `Payload` is what each wrapper puts
after the header, `log_write` the header, the length and `fwrite`. `log_buffer` keeps
what older records left in it. `file` is all that was given to `fwrite`, `synced` how
much of it `fflush` has passed on; `Exit` flushes, `Crash` keeps any number of bytes
between the two. `ReadRecord` is one turn of the reader's loop, `read` and `unpack` with
their results on short data, and the frames counted down from the length. What the
handlers do with the fields is `Analyzer`'s. A tag may have a name of any length, since
`memtraq_tag` does not look at it; a record that is longer than `log_buffer` ends what is
said of the program (`status` becomes `overrun`), which is undefined from there on. `written`, `ends` and `safe` are histories.

**Trace.** A call of the application is a script: the traces that it passes in the order
of the code, and between them the points that matter, where it takes or releases the
mutex of `lmm.c` and where it initialises memtraq. The scripts are put together as the
functions call each other, and `Enter` splices `do_init` into that of a call that finds
memtraq not initialised. A trace tests the level of its class without a lock, takes
the recursive lock, formats the header into the shared buffer, prints it, does the same
with the body, prints the newline and releases the lock. stderr has no buffer and
`fputs` to it allocates nothing. `log_lock` is left out because no trace is passed with
it held. Not among the scripts: a `realloc` of a block of the pool, whose traces are
those of the three calls that `lmm_realloc` makes. `said` and `warm` are histories.

**Conversions and Format.** `trace` formats into 256 bytes and prints them without a
look at the result, so the output must be right when it is cut. One action per state of
the machine reads the format character by character; a conversion is one action with
`fmtint`, `fmtstr` and `fmtflt` as functions from the value and the directive to the
characters they emit; `OUT` is `OUTCHAR` for each of them. A format is a sequence of
directives, records of what the program asked for with the text the code reads, so
that the properties need no parser of their own. The build has no locale and no wide
integer types (`configure.ac` tests for neither): `,` separates digits, and `j`, `t`,
`z` and `ll` mean `long`. `Bits` scales the types down. A floating point value is a
decimal `m * 10^e`; `Decimal` is the arithmetic of `fmtflt` (scaling by powers of ten,
the fraction rounded half up, the two passes of `%g`, the cast that gives up) done
exactly, without the rounding of a binary `long double`. `fields` and `args` are
histories.

## Runs

Passing runs:

| run | instance | what it shows |
|---|---|---|
| `lmm` | 2 threads, header 3 cells, 13 cells, sizes 1 and 3 | with uneven rounding and remainders too small to split: the inductive invariant `Inv`; `PayloadsPrivate`; the list exact in both directions (`FreeListExact`); a failure only when no free block fits and, if that scan merged nothing, no two free blocks are adjacent (`FailureJustified`); `ReallocKeepsData` across its three critical sections; `lmm_valid` recognises every pointer handed out (`RoutesBack`); `HeadersStable`; the refinement `HeapSpec`; the holder of the mutex can always go on and comes nearer to the end of its scan, whatever the scan does to the list (`ScanDescends`) |
| `memtraq` | 2 threads, 1 of them initialising, 2 addresses, 1 pool block, 3 calls, 1 inner call, inner calls also on blocks of the C library | `LevelsBalanced`, `InnerFromPool`, `OneInit`; the records of each address balance in any order (`LogBalances`); a single thread's log replays exactly (`ReplayAlone`); every block is held by exactly one party (`Conserved`); inner allocations are not recorded (`InnerUnrecorded`); under fairness every call returns (`CallsReturn`) |
| `pipeline` | 2 addresses, 2 callstacks, 2 sizes, 4 operations, 2 records in transit, 1 kind of fault | of a whole log: the report has every block in use with its size and callstack, right totals (`ReportComplete`), no false alarm (`NoFalseAlarm`); of any log: each callstack is charged with what the records read say of its own blocks, whoever released them, and the total with what all of them are (`AccountsAgree`), and losses are reported if and only if there is a gap (`LossNoticed`) |
| `logformat` | requests with frames from none to the most there can be, skipped or not, and names of odd length, of the most that fits and of one letter more; 3 records, a buffer of 48 bytes, 32-bit pointers | no record but that of a name too long runs over the end of `log_buffer`, however deep the backtrace (`RecordsFit`); what the reader unpacks is what was logged, and of a log that a crash cut at any byte every record that is whole and nothing made up of the one that is not (`LogReadsBack`); what was logged before a `memtraq_disable` survives any crash (`DisabledSurvives`) |
| `trace` | 2 threads, 3 calls that nest down to the pool, 2 environments | lines are whole although all threads share one buffer (`LinesWhole`); each enabled trace is printed once and in order, also while the levels are being set (`SaysAll`); with two locks every call returns (`CallsReturn`) |
| `format` | 270234 states: all flags, widths, precisions and types in formats of up to three directives, `int` of 8 bits and `long` of 14, 13 floating point values, buffers of 0, 1 and 7 bytes | `Contained`, `CutToSize`, `LengthReturned`; a field is as wide as asked, but for the digits that separators take, and padded on the right side (`FieldAsAsked`) and reads back as the value passed, whatever came before (`ReadsBack`), in floating point as the value rounded to the digits and in the style C99 asks for (`FloatReadsBack`); every turn comes nearer to the return (`Descends`) |

Thirteen cells hold three blocks, or two blocks and a hole between them, and a remainder
too small for a header, which is what splitting, coalescing with a neighbour in the
middle of the list and fragmentation need; two threads are needed and enough for one to
change the list between two critical sections of the other. In `Memtraq` the shortest misbehaviours take two threads and two
calls each; one inner call reaches every nested branch. Two addresses let
an address be reused and a block move.
In `Pipeline` four operations allow allocate, move, reuse, free. `MaxFaults` = 1
combines the faults in one behaviour with no other kind of fault, but with any
number of that kind. In `LogFormat` the INIT record
is one of the three, so that a long record can be followed by a shorter one and what it
left in `log_buffer` would show; the longest record and the longest name fit the buffer to
the byte, and a name of one letter more does not. In `Trace` two
threads and three calls let one thread trace, trace again and set the levels while the
other is anywhere in a trace. In `Format` an `int` of 8 bits has numbers at both sides of
`INT_MAX` within three digits, a `long` of 14 has values that take a separator; the
floating point values carry through every digit, lie half-way between two, and at the
ends of each style, of the integer part and of a two-digit exponent; every directive is
followed by one in which a forgotten reset would show. `CHECK_DEADLOCK` is off for
`Lmm` and `Pipeline`, whose callers may stop at any time; the other modules have an
action for the end, and deadlock is checked.

Fairness. Both `CallsReturn` assume weak fairness of each thread's steps
inside the wrappers or the traces (a thread that can run is run some
day), and nothing of the callers. Waiting for a mutex needs no strong fairness:
`log_lock` is held across steps only by the
one thread that initialises memtraq, and in `Trace` the calls are bounded, so that a
lock cannot be taken from a waiting thread for ever. `Descends` and `ScanDescends` are action
properties and need none: each says that a measure on the natural numbers falls with every
step of the loop, and `ScanDescends` also that the step is possible and that no step of
another thread changes the measure, so that any scheduler that runs the holder of the mutex
often enough sees the scan end.

Runs that find a violation, each of something a comment or a document says:

| run | property | what happens |
|---|---|---|
| `lmm_realloc` | `ReallocFailureKeepsBlock` | `lmm_realloc` frees the old block although there is no new one |
| `memtraq_order` | `ReplayExact` | a block is released before its free is logged: another thread logs the address first, and the replay loses a block in use |
| `memtraq_stale` | `DisableLasts` | `enabled` is not tested again after the backtrace, and a record follows `memtraq_disable` |
| `memtraq_race` | `AssertionHolds` | two threads initialise memtraq at once, the second key resets the first thread's level, `assert (level > 0)` fails |
| `pipeline_stale` | `ListedInUse` | a `realloc` that moves a block leaves the old address in the table: the report of a whole log dumps it as not freed |
| `pipeline_loss` | `LossNumber` | a gap is counted with every record read after it: of the records 1, 3 and 4 one is missing and two are reported lost |

Other departures from what a reader would expect that the modules show and no run
is spent on. (1) `ALIGN` wraps to 0 for a request of the last sizes of a `size_t`
(`lmm.c` 94). (2) A request for 0 bytes at the end of the region gets the region's
end, which `lmm_valid` rejects: hence `0 \notin Sizes` in `RoutingCorrect`.
(3) `memtraq_disable` before the first hooked call is undone by the initialisation.
(4) If `fopen` allocates, `do_init` calls itself without end, because `initialized`
is still false and the level is not looked at: `StdioMallocs = {"fopen"}` shows it. If
only `fwrite` allocated, the `malloc` inside it would wait for `log_lock` in the hands of
its own thread; a C library like that has an `fopen` that allocates, and never gets there. (5) Inner `free` and `realloc` of a
block of the C library are logged. (6) A `realloc` leaves the old address in the
analyzer's table, where a later free of that address, of a block whose own record was lost,
releases the moved block once more: `AccountsAgree` says so; and a failed request is entered
as a block at address 0. (7) The name and serial of a tag are unpacked from the record's
length (`memtraq.pl` 329), so that neither `--after` nor `--before` ever matches. (8) In
`fmtint` a precision larger than the digits of a number with separators counts the
separators twice (874-876): `%'10.8d` of 1234 is 9 characters wide, where the comment on
line 871 says "Minimum field width", and has 7 digits; `%'#o` of a number with a separator
has no leading 0, which the comment on lines 850-855 quotes C99 for. `FieldAsAsked` states
the length that results. (9) `fmtstr` looks at the character after the last its precision
allows (799), against the comment before it; the model's strings are whole values.
(10) `%5c` is not padded. (11) `%e` cuts an
exponent to two digits, so values of more are printed wrong, and `FloatReadsBack`
leaves out those near the limit and beyond (`Extreme`); `%f` returns -1 when the integer part does not fit a `UINTMAX_T`, which is a
`long` here; `-0.0` is printed without its sign. (12) `memtraq.pl` unpacks pointers and
sizes of 4 bytes: with `PTR` = 8 it misreads every record, and sizes are cut to 32 bits
when they are written. (13) The traces of the first call before `do_init` are lost,
because the levels are still 0. (14) The product in `calloc` may wrap. (15) No code
limits the length of a tag's name to what `log_buffer` holds; `RecordsFit` says which names
run over its end.

## Proofs

`LmmProofs` proves, for every number of threads, region size, header size, set of
sizes and bitwise-and function that satisfy the named assumptions of `Lmm`:

- `Correct`: `Spec => []Inv`, from `Init => Inv` and one lemma per action;
  `TypeCorrect` follows.
- `PrivatePayloads`: no caller's payload meets another's or a header.
- `RoutingCorrect`: `lmm_valid` recognises every pointer, if no request is for 0.
- `StableHeaders`: no step changes the header of a block that stays in use.
- `Refinement`: `Spec => HeapSpec`, every step is an `Alloc`, a `Free` or a stutter
  of `Heap` under `owned <- Held`.

All assume `SizesFit`: no request wraps in `ALIGN`. `Inv` is the strengthening
they rest on: `PayloadsPrivate` alone is not inductive, since a step keeps payloads
apart only if the blocks tile the region (`Tiled`), markers tell the truth at
every block boundary (`Marked`), the free list is a doubly linked ring (`Linked`),
the scan's cursor is a free block while the mutex is held (`Scanning`), calls in
progress hold distinct live pointers (`InHand`) and each block is as large as its
request (`Covers`). `Linked` states the ring locally, as `next` and `prev` being
inverse on the free blocks: this is preserved by `CLIST_REMOVE` and `CLIST_ADDTAIL`
without induction over the list. The lemmas about rings come first, then those
about tilings, then one per action.

`LmmListProofs` proves the rest of `Lmm`'s invariants, under the same assumption:

- `ListExact`: from the list head, in either direction, the list leads to all the free
  blocks. A ring that is only locally one may be several cycles, so `FreeListExact` says
  that no set smaller than the free blocks holds the head and is closed under `next`. The
  proof never walks the list: a closed set of the list after a `CLIST_REMOVE` or a
  `CLIST_ADDTAIL`, with the block put back or taken out, was closed before.
- `FailuresJustified`: when `lmm_alloc` fails no free block is large enough, and if its
  scan merged nothing no two free blocks are adjacent. The invariant `Scanned` says that
  there is a set of blocks that the cursor has passed, on which `next` leads from the head
  to the cursor, each too small and, if nothing was merged, with no free block after it; at
  the end of the scan it is all of them.
- `DataKept`: from `lmm_realloc`'s `memcpy` on, the new block holds what the old one does,
  until the old one is freed. `AllCarried` holds because no step writes into a block that
  is in another call's hands (`StepKeepsCells`).

`MemtraqProofs` proves, for any number of threads, addresses, calls and levels of recursion:

- `TypeCorrect`, and `BlocksConserved` (`Conserved`): every block in use is held by the
  callers or by exactly one call. The invariant `Owners` is about all calls on all stacks
  and holds also when several threads initialise memtraq or the log file allocates.
- `LevelsAlwaysBalanced`, `InnerAlwaysFromPool`, `InitializedOnce`, `LeaveNeverAborts` and
  `InnerNeverRecorded`, from the invariant `Levels`: a thread's level counts the frames of
  its stack that have entered and not left (`Nesting`), and only the thread that
  initialises has calls in progress before it is done (`Booting`, `OneInit`). They assume
  `OneCold`, that one thread at most finds memtraq not initialised, which the run
  `memtraq_race` shows to be needed, and `StdioQuiet`, that stdio does not allocate for the
  log file, which departure (4) shows to be needed.
- `LogAlwaysBalances` (`LogBalances`), under the same assumptions: when no call is in
  progress the log tells which addresses are in use. `LogBalances` speaks of quiet states
  only; the invariant `Following` extends it to all of them by counting with the records
  written those that calls in progress still owe, having allocated, moved or freed their
  block (`Unlogged`, `Settled`). A step that changes the heap then creates a debt, and the
  write of the record settles it. `Owners` gives that a block being freed is in use and no
  other call's, `Booting` that logging is enabled (`Enabling`) before a call gets that far.
- `ReplayedAlone` (`ReplayAlone`), under the same assumptions: replaying the log of a
  thread that alone has logged yields the blocks in use, in the order of the log. The
  invariant `Solitary` extends it to all states: unless an inner call takes a block of
  the C library, only the outermost call of a thread has a record to write (`Asides`), and
  if one thread only has written a record or owes one (`Sole`), replaying the log, and
  then the record that is owed, yields the blocks in use (`Told`). What one more record
  does to a replay (`ReplayedNext`) is a fact about a fold, derived by least
  counterexample as the sums of `PipelineProofs` are.

`TraceProofs` proves `TypeCorrect`, `ParagraphsWhole` (`LinesWhole`) and `TracesComplete`
(`SaysAll`) for any number of threads and calls, any scripts and any environment. The
invariant `Lines` ties the depth of the lock to the place of the thread that has it, and
what stands in the shared buffer and on stderr to the same place; `Heard` relates what
each call has printed to the part of its script that it has passed.

`PipelineProofs` proves, for any sets of addresses and sizes, any finite set of callstacks
and any number of operations and records under way:

- `TypeCorrect`, and `LossesNoticed` (`LossNoticed`), with `Serials`, by which the numbers
  of the records in transit increase unless they are overtaken.
- `AccountsAlwaysAgree` (`AccountsAgree`), whatever was lost, overtaken or not logged.
  `AccountsAgree` counts, for each callstack, the records read that allocate for it and the
  pairs of a record that releases a block and the one that allocated it (`Releases`); the
  script looks the latter up in its table. The invariant `Accounts` says that the table has
  the record that last filled each entry (`Leaves`, `Filler`), and that the accounts are those
  of the log so far (`Charged`, `Strangers`).
- Of a log without faults, `ReportAlwaysComplete` (`ReportComplete`) and `NothingFalse`. Their
  invariant `Followed` says that the script is always a state of the program behind: there is a sequence of states that begins with one whose blocks and
  totals are those in the script's table, has one step for each record that is on its
  way, and ends with what the program holds.

Both need facts about sums over a set of any size, and those need induction, for which
the library's theorems take an operator that the provers cannot instantiate. What they can
do is least counterexample: `Smallest` says that a non-empty set of subsets of a finite
set has a smallest member, `AddsExists` and `AddsOnce` derive from it that the function
by which a sum is defined exists and is unique, and `SumTake` and `SumChange`, that any
element may be taken out first and what becomes of the sum when one summand changes.

`LogFormatProofs` proves `OnlyNamesOverrun` (`RecordsFit`): for every width of a pointer, size
of the buffer and depth of a backtrace that fit together (`BufferAssumption`) and every set of
requests, with tags of any name, a record is longer than `log_buffer` exactly if it is that
of a tag whose name has more than `BUFFER - 32` bytes. The lemmas compute the length of each
encoder's output and of each kind of payload, the longest with a backtrace being a
`realloc`'s, and that of a tag's record from its name; overwriting the buffer with at most its
length leaves its length, from which `TypeCorrect` follows.

It also proves `RecordsReadBack` (`LogReadsBack`) and `SurvivesCrash`
(`DisabledSurvives`) with pointers of 4 bytes, which departure (12) shows to be needed:
for all requests, any number of records, an exit, or a crash at any byte. `Describes`
says that a sequence of bytes holds a record at a place, as far as the sequence goes: it
is true of `file` when the record is written (`WriteDescribes`), of every longer file
(`DescribesInFirst`) and of what a crash leaves of it (`DescribesInPart`). The invariant
`Keeping` says that the records lie end to end, that what `memtraq_disable` made safe
ends where the last record of that time does, and that the reader has read the first `k`
records and stands at the start of the next (`InStep`) or past one that was cut
(`PastCut`); `WholeRecord` and `CutRecord` are the two cases of its next step.

`FormatProofs` proves `StaysInside`: for every format, argument, buffer size and width
of the types, no byte outside the buffer is written. The invariant adds to
`Contained` only that the size is a natural number and the modelled memory is the
buffer and one byte; one lemma for turns that produce nothing, one for `OUTCHAR`, one
for the terminator. `Terminates` proves, for the same values, that every turn of the
loop comes nearer to the return: `Distance` weighs the characters left against the rank
of the state. Its invariant `Ending` says that what is left of the format ends in the
terminator, without which `Tail` of an empty format would read on for ever; every
action reads one character, reads two, or moves to a state of smaller rank (`StepShape`).
It assumes that a format is a sequence of characters (`FormatsAssumption`).

It also proves, for the same values:

- `TypeCorrect`: no width or precision leaves the range of an `int` (`DigitFits`), and the
  result is an `int`.
- `CutAlways` (`CutToSize`) and `LengthCounted`: the buffer is left with the beginning of
  all the output, as much as fits with the terminator, and the result is the length of
  all of it. The invariant `Filled` says that `len` is the length of what the directives
  have produced so far, and that the buffer has the first `len` characters, or as many as
  fit. `StoresHolding` is the step of `OUTCHAR`, `TerminatedCut` that of the return.

What a turn of the loop needs for this is only that a conversion produces a sequence,
whatever its arguments (`StringIsSeq`, `IntegerIsSeq`, `FloatIsSeq`): any number of digits,
separators and padding.

- `ShowsArguments` (`ReadsBack`) and `PadsAsAsked` (`FieldAsAsked`): every integer and
  every string that a call prints is the one that was passed, in the type its modifier
  names and in the digits asked for, and is padded to the width on the side and with the
  character asked for. Where separators stand in the place of digits asked for, which is
  departure (8), the field is shorter by their number, and by no more (`TakenDigits`).

These two relate the record of a directive, which the code never sees, to what the code
reads in the text. The invariant `Tracked` says how: the fields so far are those of the
first directives, each as its record asks (`FieldOK`), and the machine is either between
two directives (`Between`) or in the middle of one (`Reading`), where its variables hold
what the record says of the part of the text that has been read: the flags as a set
(`InFlags`), the width and the precision as the decimal number so far or the argument of a
`*` (`InWidth`, `InPrecision`, `Decimals`), and so on to the conversion (`InConv`). Each
action has a lemma that moves it on (`ReadFlag`, `ReadWidth`, `NoWidthRead`, ...), and a
conversion turns what `InConv` says into a field (`SignedField`, `UnsignedField`,
`PointerField`, `TextField`). That every format is made of directives as C99 defines them
is `LayoutAssumption`, which TLC evaluates for the formats of the run.

- `ReturnsLength` (`LengthReturned`): a call returns -1 exactly if a width or a precision
  is no `int`, the digits of a floating point value do not fit a `UINTMAX_T`, or the
  length is no `int`. Otherwise it returns the length, and no directive was left out.

`LengthCounted` and `Tracked` do not say why a call gave up, or that it did not stop early.
The invariant `Judged` adds that: the numbers of every finished directive fit
(`FieldsFit`), the state `OUT` is reached only for one of the two reasons, and a call that
has returned without `overflow` has had every directive (`AllDone`, from the `Ending` of
the format: `EndJudged`). A number is refused digit by digit, before its last digits have
been read: `TooLargeNumber` shows that the decimal number of the whole text is then past
`INT_MAX` too. For floating point, `StyleTooLarge` shows that in e-style only an exponent
past 99 fills a `UINTMAX_T`, because what is left to cast has at most two digits
otherwise; `DecimalTooLarge` and `PlainTooLarge` do the two passes of `%g`. They rest on
`LongAssumption`: a `UINTMAX_T` has room for at least one decimal digit (`Limits`).

- `ShowsFloats` (`FloatReadsBack`): every finite floating point value that a call prints
  is the one that was passed, to the nearest number with the digits asked for and in the
  style asked for, as long as its exponent has two digits (the code cuts a longer one).
  The digits asked for after the point are no more than a `UINTMAX_T` holds
  (`MaxDigits`), to which the code and the reference reduce a larger precision; `%g` of a
  small value may need more than that, and is left out.

The reference of `FloatReadsBack` does one exact division (`InUnits`, `Exponent`); `fmtflt`
divides out an exponent that it has guessed, casts, rounds the rest, carries, and for `%g`
may start again. `WholeAndFraction` shows that the part before the point and the rounded
part after it are together the value in units of the last digit, whatever the carry,
`StyleDigits` and `PlainMeans` that a pass in either style leaves the digits and the
exponent of the reference, also when rounding makes one digit more (`NextPower`), and
`DecimalDigits` that the two passes of `%g` do, with C99's choice of the style. The
characters come next: `FractionTrimmed` for the zeros that `%g` leaves out,
`NumberReads` for the number that the digits on both sides of the point are read as,
`ExponentReads`, and `FloatField` puts sign, padding, separators, point and exponent
together. `ReferenceUsual` says why two digits of exponent are enough for values that are
not `Extreme`.

The fields themselves are the subject of `ConversionsProofs`. `DigitsReadBack` says that
what `convert` writes, most significant digit first, is read as the number it was given,
`GroupedReads` that separators change nothing, `ReadPassed` and `ZeroRead` that signs,
prefixes, padding and leading zeros do not either; `IntegerField` puts them together for
`fmtint` and adds the length and where the padding lies, `StringField` is the same for
`fmtstr`. `DigitsFewest` and `FewestBound` show that there is no digit too many, which the
length needs. `Unsigned` and `Signed` are the two's complement of a type (`UnsignedAgain`,
`SignedBound`).

`Power`, `convert`, `NumberIn` and `FlattenSeq` are recursive functions. That each exists, is
unique and goes on as its definition says (`PowerNext`, `ConvertSteps`, `ReadNext`,
`FlattenNext`) is derived from `Least`, that a non-empty set of natural numbers has a
smallest member; induction over a set is `Induction`. The assumptions on the constants
are what the C types say of the arguments (`ArgsAssumption`, `BitsAssumption`), that a
`UINTMAX_T` is no wider than the buffers of `fmtflt` are made for (`LongAssumption`), and
that the null pointer is not the text `(nil)` (`NullAssumption`). TLC evaluates all of them.

Only model-checked: liveness (both `CallsReturn`) and `ScanDescends`, which speaks of
`ENABLED`; the provers reach neither.

## Not modelled, and the plan

Not modelled: option parsing, decoding of addresses, the text graph and the reports
of `memtraq.pl` (I/O and layout over tables that are modelled); sockets; the binary
rounding of a `long double`; `mt_snprintf`, `mt_asprintf` and `mt_vasprintf`, which
nothing calls (the last calls the C library's `vsnprintf`); the build system.

Done, in this order: `Heap`, `Lmm` and its proofs (every inner allocation depends
on it), `Memtraq` (the threads and the recursion), `Analyzer` and `Pipeline`, `Format`
and its proofs, `Trace`, `LogFormat`, and the proofs about all of them.

Next: the composition of `Memtraq` with `Heap` in place of its set of pool blocks, and
the log of `Memtraq` as the input of `Analyzer`.
