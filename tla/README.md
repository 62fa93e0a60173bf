# lno: TLA+ models of the repository's eBPF network tools

lno ("Linux Network Observability with eBPF") is a collection of small tools. Each one has BPF
programs that run inside the kernel, on any CPU, at every probed call or packet; maps and ring
buffers that these programs share with each other and with user space; and a user-space half
that loads the programs, sets their options, and prints what they collected. There is no common
framework: the tools share only `trace_helpers.c` and the way they are built.

This directory models the tools that carry logic of their own, checks the models with TLC on
small instances and proves the main results with TLAPS for instances of any size.

## Inventory

| Part | State | Operations | What is hard | What makes it correct |
|---|---|---|---|---|
| tcpconnect (`plugin/libbpf-test/okk/tcpconnect.bpf.c`, `.c`; copy in `plugin/libbpfgo/tcpconnect`) | `sockets` by thread id, two count maps, perf buffers, `exiting` | entry and return probes of two nested kernel functions, counting, polling, printing | missed return probes, thread ids with a new owner, racing counter creation, full maps, records out of time order, signal before `pause()` | one report per `connect()`, about its own socket, of a selected process; exact counts; it stops when asked |
| tcprtt (`plugin/libbpf-test/tcprtt.bpf.c`, `tcprtt.c`) | preallocated histogram map, `exiting` | a probe per TCP segment; print and delete per interval | deleting under the probes' feet, recycled elements, three separate increments, byte orders | each sample shown once, under its own address; only selected traffic |
| log2 histogram (`tcprtt.bpf.c`, `trace_helpers.c`) | slots | slot of a time; labels and bars | two files must agree on powers of two; unsigned wrap | a time is counted in the row that is labelled with it |
| kernel symbols, address search (`trace_helpers.c`) | two growing arrays | load `/proc/kallsyms`, search by address, by name | reallocation moves strings; off-by-one; duplicates | the table is the file, sorted; the search returns the last symbol at or below |
| process symbols (`trace_helpers.c`) | table of mapped files, symbol table of each, cache per process | load maps, load symbols lazily, translate, free | half-failed loads, stale cache, files replaced between mapping and loading | pointers handed out stay good, whatever fails or is freed later; the nearest symbol of the right file |
| dnsExpress (`plugin/ciliumebpf/dnsExpress`, `plugin/libbpf-test/okk/dnscache*.c`) | record map, one static buffer, the packet | XDP program per packet; command line tool; loader | one buffer for all CPUs; rewriting in place before a step that can fail | a well formed reply with the record asked for |
| layer, tr_package (`plugin/ciliumebpf`) | ring buffer, filter, time stamps | ten probes; a reader | filter set after the probes run and compared before a record is reserved; records submitted out of order | nothing blocks the reader; records of other processes run out once the filter is stored |
| interrupt, stack (`plugin/ciliumebpf`; `kernel_symbols.go` in the vendor directory, which the project changed) | ring buffer, stack map, symbol table | probe and reader, search by address | stack ids that fail, buckets filled and looked up at the same time, edges of the search, a record declared twice | the stack shown is the trap's; frames get the nearest symbol; the reader survives |
| map_helpers (`plugin/libbpf-test`) | the caller's arrays | dump a map in batches, then key by key | keys deleted, inserted and, by an update, linked anew while walking; too little room | pairs that were in the map; none twice and none missed but for such changes; the call returns |
| softirq, sched_switch, execve, tcpdrop (`plugin/libbpfgo`) | none, or a ring buffer | one probe each | - | - |
| netfilter, http_filter (`plugin/libbpfgo`), netfilter module (`netfilter/demo.c`) | maps of one entry; a flag | probes, socket filter, packet hook | cannot be built | - |
| stack.py, tcpaccept.py (`plugin/bcc`) | count map, events | read and clear; print | increments between reading and clearing | no count lost |

`PROJECT.json` lists every part with its status, and every hazard at its line.

## Modules

| Module | Models | Used by |
|---|---|---|
| `ConnectReporting` | what any connect tracer promises: at most one report per call, naming its socket | `TcpConnect` (refinement) |
| `TcpConnect` | tcpconnect, both halves | `MCTcpConnect`, `TcpConnectProofs` |
| `Log2Hist` | slot choice in the kernel, labels and bars in user space (operators only) | `TcpRtt` |
| `TcpRtt` | tcprtt, both halves | `MCTcpRtt`, `TcpRttProofs` |
| `AddrSearch` | the binary search of `ksyms__map_addr` and `dso__find_sym` | `KsymsLookup` |
| `Ksyms` | `ksyms__load`, `ksyms__free`, `ksyms__get_symbol` | `KsymsLookup` |
| `KsymsLookup` | the two composed: a table is loaded, addresses are looked up in it, it is freed | `MCKsyms`, `KsymsProofs` |
| `DnsExpress` | the XDP program, its loader, add and remove of the command line tool | `MCDnsExpress`, `DnsExpressProofs` |
| `ProcSyms` | `syms`, `dso` and `syms_cache` | `MCProcSyms`, `ProcSymsProofs` |
| `MapDump` | `dump_hash` against programs that change the map | `MCMapDump`, `MapDumpProofs` |
| `Layer` | the ten probes, start-up and the reader | `MCLayer`, `LayerProofs` |
| `Interrupt` | the interrupt and the stack tool, probe and reader, with the symbol search they share | `MCInterrupt`, `InterruptProofs` |

Operators introduced by a comment `Fault: ...` are deliberately wrong variants of the definition
that follows them. No specification uses them; each shows that some property would notice that
mistake in the code.

### How state and actions correspond to the code

**TcpConnect.** A thread's `connect()` is a stack of kernel calls (`frames`): `tcp_v4_connect`, or
`tcp_v6_connect`, which calls the former for v4-mapped addresses. `EnterConnect` and `EnterMapped`
are the entry probes, `ExitTrace`, `ExitCount`, `ExitSkip` and `ExitNotFound` the outcomes of
`exit_tcp_connect`. Counting is split into `CountLookup`, `CountInit`, `CountAdd`, `CountEnd`, the
accesses between which another CPU can act. `MissedReturns`, `IdentityChanges` and `AllocFails` say
what the environment may do: a return probe that does not fire (maxactive exceeded, or a call that
was under way when the probe was attached), a thread id that comes back as another process, an
allocation failure in a map that is not preallocated. The user half is `LoadAndAttach`,
`InstallHandler`, `StartOutput`, `handle_event`, `StopPolling`, `PollFails`, `TestFlag`, `Pause`,
`PrintCount` and `sig_int`. `reported`, `added`, `refused` and `timed` (the CPUs of the first
record timed and of the last) are history variables. The tool is
shown to implement `ConnectReporting` under the mapping `Reporting == INSTANCE ConnectReporting
WITH ...`, which keeps of its state the socket each thread connects and what was reported for it.

**TcpRtt.** One action per shared-memory access of `tcp_rcv`: `Lookup`, `TryInit`, `Relookup`,
`AddSlot`, `AddLatency`, `AddCnt`. The map is a function from keys to elements plus the elements'
contents; since it is preallocated, a deleted element is free for reuse at once, while a probe may
still hold it. `PrintOne` and `DeleteOne` are the two loops of `print_map`, one key per step; `PrintMapFails` is its
return after a lookup or deletion that fails, which ends the tool.
Options go through `htons` and `htonl` as in `parse_arg`. The slot of a sample and the rows and
bars printed come from `Log2Hist`: `log2` and `Slot` on the kernel side; `Low`, `High`, `Shown` and
`Stars` on the other, with products modulo `UIntMod` (2^32 in the code). `from` (which addresses'
samples an element holds), `shown` (it was printed since it was cleared), `gone` (the element a probe
holds was deleted) and `added` (the increments made per key and slot in the first interval, before
`print_map` has deleted anything) are history. Powers of two, `1 << n` in the code, are the recursive function `Pow2`.

**Ksyms.** Names are offsets while the string buffer can move (`base` changes at reallocations),
pointers afterwards; a pointer into a buffer that has moved away dereferences to nothing. `qsort` is
not stable: `FinishLoad` leaves the symbols in any order (`Orders`) that `ksym_cmp` does not object to.

**AddrSearch.** The window `start`, `end`; `Begin` sets it, `Halve` is one turn of the loop, `Finish` what
follows it. `array` is `ksyms->syms`, or the `syms` of a dso, reduced to addresses.

**KsymsLookup.** `ksyms__map_addr(a)` begins a search in the table that `Ksyms` has loaded; the table is
neither freed nor loaded anew while a search is on, as the functions are called by one thread.

**DnsExpress.** A packet's DNS body is a sequence of symbols; `parse_query` is translated as an
operator, including what it does with a question that ends too early. The accesses to the static
`dns_buffer` and to the map element are steps of their own. `out` is the packet that left last,
with the packet it was when it came in, the record its name had when it was looked up (`want`), and
whether another CPU or the command line tool touched what it was reading (`disturbed`); the last
two are history. A packet is a
record of the fields the program reads or writes (`Packet`), and of the two counts of the DNS header
that it does neither and sends back as received, `q_count` and `auth_count`. The number of values of a checksum word is
the constant `WordMod`, 2^16 in the code and 16 in the run.

**ProcSyms.** A process is the sequence of lines of its `/proc/<tgid>/maps`; a file is its ELF type,
whether it has a `.text` section, the displacement of that section and its symbols.
`syms_cache__get_syms` reads the mappings in one step (the kernel hands out the file consistently
enough for that: a page at a time), line by line (`ReadLines`), and keeps the result, also a NULL; `syms__map_addr` finds file
and offset, loads the symbol table if there is none, with every outcome `dso__load_sym_table` has
(`LoadOutcomes`; the symbols in any order that `sym_cmp` accepts, `Arrangements`), and searches. `tables` holds the symbol table of every file loaded so far, `freed` the
files whose fields `dso__free_fields` released while the pointers stay; whatever reads or frees them again leads to `phase = "undefined"`.
Offsets are unsigned: `Offset` computes modulo `AddrMod`, 2^64 in the code, so that a place below the start of a
file wraps to its end. `NameOrBtfMissing` is a failing allocation of a dso's name or string
store, neither of which is checked.
`ProcessChanges` and `FileReplaced` are exec, exit, reuse of a tgid, and upgrades. The binary search
is taken by its result, which `KsymsLookup` checks and `KsymsProofs` proves of the same loop.

**MapDump.** One action per system call of `dump_hash`, except that a batch call is split into the
buckets the kernel copies one at a time, the keys of a bucket in any order. Within a bucket the walk goes by `linked_at`: an insertion or
an update links its element at the head of the bucket, as the kernel's hash map does, so that a key moves when it is updated;
a store through a pointer (`Store`) leaves it where it is. `keys` and `values` are the caller's arrays of `room` entries, NULL where
nothing was written. `BatchEnds` goes on to the walk also after a batch pass
that succeeded, with `*count` reduced to what it found, as the code does. `bpf_map_get_next_key`
starts over from a key that is not in the map. `during`, `inserted`, `deleted`, `moved` (keys that
were taken from behind the cursor of the walk to before it), `relisted` (a key already listed came to lie behind the cursor
again), `crowded` and `failed` record what happened to the map since the call. A system call is one step, and so is a
read or a write of a value, which is a machine word. No tool of the repository
calls `dump_hash` yet; the model takes its interface as it is.

**Interrupt.** `Reserve`, `FillStackId` or `FillStack`, and `Submit` are the steps of the probe; the
reader takes a record per tick (`Read`), looks up its stack (`PanicOnLookup`), reads the symbols anew
and names the frames (`NameFrames`). `bpf_get_stackid` without flags is
two steps, as in the kernel: `FillStackId` looks at the bucket (a stack whose bucket holds another one, or that finds no free element, gets a negative
number) and `Exchange` puts the new element in place of whatever is there by then. The
reader's lookup is two steps as well: `TakeOut` empties the bucket to copy the stack and `PutBack` returns the element over what a
probe has stored meanwhile. The comparison of a stack with the one in its bucket is one step. `raced` records the
buckets to which one of these races has happened. `bin_search` of `kernel_symbols.go` is its loop: `Narrow` is one turn on the window `start`, `end`,
`Over` the end of the loop, `Found` what is returned. An address is two words of `Word` values, so that the layout of the stack tool's record in
C (`AfterPid`) and in Go (`Decoded`) can be told apart.

**Layer.** `events` is the ring buffer, oldest record first; a record belongs to its CPU from
`Reserve` to `Submit`, and the reader cannot pass one that is still owned. Four probes only stamp
`current_time`, six submit records, two of these stamp as well. The filter is stored only after
every probe is attached, as in `main.go`, as `pid` cut to 32 bits (`Stored`, modulo `PidMod`), or not at all
if `Update` fails, which nobody looks at. A failing start-up or read panics (`Fatal`). The comparison with the filter and the
reservation are separate steps; `strays` counts the records of other processes that each CPU reserved after
the filter was stored.

## Runs

| Run | Result | Properties |
|---|---|---|
| `tcpconnect_filter` | pass | types; a `sockets` entry lives only inside the call that made it (`EntryLive`); only selected processes and ports (`OnlySelected`); on two CPUs the time column wraps only for a record of another CPU than the first one timed (`ElapsedSane`); refinement of `ConnectReporting` |
| `tcpconnect_count` | pass | counters equal completed increments, and only a full map refuses one (`CountsExact`); a signal ends the tool unless it falls between the test of the flag and `pause()` (`StopsWhenAsked`) |
| `tcpconnect_lost` | violation | `CountsShown` fails for a signal between the test and `pause()`, which wakes nobody: the tool asked to stop sleeps on and prints no table |
| `tcpconnect_stale` | violation | `OnlySelected` fails once return probes are missed and thread ids change owner |
| `tcprtt` | pass | types, including that no NULL histogram is written; no histogram still to be shown was shown since it was cleared (`SamplesOnce`); no increment made is lost before the first deletion, while a sample that finds no element in a full map is dropped (`FirstIntervalExact`); samples under their own address unless the element was deleted under the probe (`OwnSamples`); a histogram without a count, which `-e` divides by, exists only while a probe is between two increments (`CntZeroOnlyInFlight`); times in the rows labelled with them (`RowContainsTime`), bars within their column (`BarsFit`); `-p`, `-P` exact (`OnlyPort`); `StopsWhenAsked` |
| `ksyms` | pass | arrays within what was allocated (`FitsCapacity`); the loaded table is the file, sorted, every name pointer valid although the buffer moved (`TableIsFile`); looking up an address in it keeps the loop invariant `Window`, reads inside the array and ends (`Shrinks`), and returns the last symbol at or below the address (`LargestBelow`) |
| `procsyms` | pass | a symbol handed out stays, through failing and half-failed loads, execs and upgrades (`HandedOutStays`); every address inside a mapping gets the right file and, unless that was replaced or the place in it wraps, the nearest symbol (`TranslationRight`) |
| `mapdump` | pass | pairs returned were in the map (`PairsWereThere`); a key comes twice only if the walk's cursor was updated with listed keys in its bucket, or a listed key came back (`TwiceOnlyAfterRelisting`); keys there all the time are shown, unless an update took them past the cursor, if none was inserted, none listed again and there was room (`StableKeysShown`); no failure without a cause (`FailsOnlyWithCause`); `Returns` |
| `dns_reply` | pass | a reply answers a whole question of the packet received and counts its records if the query held that one question and nothing else (`ReplyWellFormed`); `ReceiverAccepts` (IP checksum); the answer is the record looked up unless the shared buffer or the element was written meanwhile (`AnswerOwn`) |
| `layer` | pass | once the filter is stored each CPU puts in at most one more record of another process (`StrayOnce`); the reader is never stuck behind a reservation (`Drains`); if the filter was stored, other processes' records are flushed for good (`FilterSettles`) |
| `interrupt` | pass | the trap's own stack, except from a bucket that two probes filled at once or one filled during a lookup (`OwnStack`); nearest symbol below (`NearestBelow`); only a frame outside the symbols ends the tool there; the lookup of a stack fails only after a stack id failed (`PanicsOnlyWithCause`); `RecordsRead` |
| `stack_decode` | violation | `StackDecoded`: the stack tool decodes its records without their padding |

### Bounds

Counters in guards are the only bounds and are named: `MaxConnects` (1 or 2 calls per thread),
`MaxSamples`, `MaxRounds`, `MaxQueries`, `MaxChanges`, `MaxLines`, `MaxOps`, `MaxTraps`; so is `MaxRecords`, the ring buffer of layer. Capacities are the
code's own limits made small so that they are reached: one or two entries of `sockets`, one
counter per map, two records per perf buffer, two elements for three addresses, a ring buffer of
two records, an initial string buffer of three bytes with a name of five. Two threads or two CPUs
are enough for the races modelled, each of which is between two parties; two calls of one thread
are needed for an entry of the first to meet the second. `tcprtt` allows one round before SIGINT
and one after it, so that elements are recycled between rounds. Its histogram arithmetic is checked
for every time up to 40 and the neighbours of every power of two up to 2^30, with two slots in use
(a bar depends on its own slot and the largest) and unsigned products modulo 256. `dns_reply` uses
symmetry on CPUs and map elements, which no definition tells apart; it checks safety only.

`ksyms` enumerates files of up to five lines with two addresses and two names. A search compares nothing
but `array[i] <= addr`, so symbols at two addresses, looked up below, at, between and above them, give it every
sequence of answers that a sorted table of that length can give.

`procsyms` has a library mapped twice at a displacement, with symbols that share an address, have no
name or no value; a library whose text is displaced downwards, so that places in it wrap; a
position-dependent program; the vdso; a data file; a library without `.text`; and
a maps file that cannot be read. One change of a process or file is enough for a cache entry, a
table or a pointer to be stale; two processes let a failed load in one meet a good one in the other.
`mapdump` has one bucket with a key and one with two, so that a bucket may not fit the room left and a key can be moved
past another; two operations are a deletion and a reinsertion, or an update and one more. `layer` is asked for the
process 5 with identifiers of two bits, so that the filter stored is that of another one. `interrupt` has four stacks for two
elements, two of them in one bucket, and tables with and without a symbol of address 0, with two
symbols at an address, and empty; three traps let a record wait behind one that another CPU owns.

Deadlock is not checked: every model stops where its tool has ended or its bounds are used up.

### Fairness

User-space loops are weakly fair, because a runnable process is scheduled and nothing else can
disable its next step: `StopPolling`, `StartOutput`, `TestFlag`, `Pause`,
`PrintCount` in tcpconnect, `User` in tcprtt, `Attach`, `SetPid` and `Read` in layer, `Main` in interrupt. A probe that has started runs to its
end (`Running` in layer, `Probe` in interrupt): BPF programs cannot block. The caller of `dump_hash` is
scheduled; a failing system call (`Fails`, and `SystemFails` in interrupt) is never assumed to come to the
rescue, and `dump_hash` returns under any changes of the map because every turn of its loops uses up
room. In counting mode tcpconnect tests `exiting`
and then calls `pause()`: a signal in between wakes nobody. `StopsWhenAsked` leaves that case out, and `tcpconnect_lost`
shows it. No fairness is assumed of traffic, of signals, or of failures.
In tcprtt the bound on samples stands for traffic that pauses: with new keys arriving faster than
they are deleted, the second loop of `print_map` need not end.

## Proofs

Each theorem is about the specification the runs check and holds for every value of the constants that the
named assumptions of its module admit: any numbers of CPUs, threads, keys, elements, packets, symbols,
lines, any capacities. A hypothesis beyond that is part of the theorem and named below. The assumptions say
no more than the types of the code and the kernel give: `ConstantsAssumption` in each module;
`HistAssumption` (a time is a `u32`); `ImagesAssumption` (mappings of a process do not overlap);
`FilesAssumption` (a symbol is a value and a name); finite symbol tables in `Interrupt`. TLC evaluates them in every run.
Every safety property that a passing run checks, invariant or action property, is stated by a theorem.

| Module | Theorem | Property | Hypothesis |
|---|---|---|---|
| `TcpConnectProofs` | `TypeCorrect` | `TypeOK` | |
| | `EntriesLive` | `EntryLive` | every return probe fires |
| | `ReportsSound` | `RefinesConnectReporting` | every return probe fires |
| | `SelectedOnly` | `OnlySelected` | every return probe fires |
| | `ElapsedIsSane` | `ElapsedSane` | |
| | `CountsAreExact` | `CountsExact` | no allocation fails, finitely many flows |
| `TcpRttProofs` | `TypeCorrect` | `TypeOK` | |
| | `OwnSamplesHold`, `DividesOnlyInFlight`, `ShownOnce` | `OwnSamples`, `CntZeroOnlyInFlight`, `SamplesOnce` | |
| | `PortsSelected` | `OnlyPort` | the ports asked for are below 65536 |
| | `BarsInColumn`, `RowsContainTimes` | `BarsFit`, `RowContainsTime` | |
| | `NothingLostAtFirst` | `FirstIntervalExact` | |
| `KsymsProofs` | `ArraysFit`, `LoadedTableIsFile` | `FitsCapacity`, `TableIsFile` | |
| | `WindowKept`, `SearchCorrect`, `SearchShrinks` | `Window`, `LargestBelow`, `Shrinks` | |
| `ProcSymsProofs` | `PointersStay` | `HandedOutStays` | |
| | `AddressesTranslated` | `TranslationRight` | |
| `MapDumpProofs` | `PairsHold`, `TwiceHasCause`, `StableKeysHold`, `FailureHasCause` | `PairsWereThere`, `TwiceOnlyAfterRelisting`, `StableKeysShown`, `FailsOnlyWithCause` | |
| `DnsExpressProofs` | `RepliesWellFormed`, `ChecksumsAccepted`, `AnswersOwn` | `ReplyWellFormed`, `ReceiverAccepts`, `AnswerOwn` | |
| `LayerProofs` | `StraysOnce` | `StrayOnce` | |
| `InterruptProofs` | `OwnStackHolds`, `PanicsOnlyWithCauseHolds` | `OwnStack`, `PanicsOnlyWithCause` | |
| | `NearestBelowHolds` | `NearestBelow` | |

None of the properties is inductive as it stands. The strengthenings, and why they are needed:

- **tcpconnect.** `CountInv`: a return probe inside `count_v4`/`count_v6` still has its `sockets` entry, and
  between creation and increment a counter to add to, so that an increment never meets a missing one. `Sound`
  adds that every call on the stack is hooked, that no call is open before the probes are attached, and
  that nothing is reported before the innermost call returns; without "every return probe fires" it is
  false (`tcpconnect_stale`). `SelectedOnly` carries the selection from the entry probe, which tests it, to
  the record, through the entry that only a call of the same thread can leave. `TimeInv` orders
  the records of each buffer by time, so that the first one timed is older than all that are left in its buffer. `WithinMap` says that
  neither count map grows past its size, so that a flow refused, which is refused at that size, was refused by a full map.
- **tcprtt.** `MapInv`: two keys never share an element (`Apart`); what a probe holds was linked under its own key
  when it looked it up and is so still unless marked deleted (`HeldInv`); what the
  first loop of `print_map` is still to show was not shown yet, and what it has shown the second loop
  is still to delete (`ShownInv`); an element is cleared when it is linked again. `PortsSelected` rests
  on `htons` being injective on 16 bits. `BarsInColumn` is arithmetic: a product that wraps only gets
  smaller, so the quotient by the largest count stays within the column. `RowsContainTimes` follows the binary logarithm of the
  probe through its stages (`StageOf`), each of which leaves a value below a smaller power of two and
  adds what it shifted, and compares the result with the label arithmetic of the other file. `FirstInv`: before the first
  deletion no probe holds a deleted element, so that each slot is the number of increments made for it.
- **kernel symbols.** `LookupInv` is `LoadInv`, `Window` and `LargestBelow`: the search is in a table that is
  sorted because it was loaded (`LoadedTableIsSearchable`), which is what the loop invariant `Window` needs and no search changes. `LoadInv`: a capacity is 0 or at least
  `MinCap`, from where a third more is at least one more (`RoomInv`); the strings read so far are at increasing offsets, so that
  an offset names one string (`Strings`); the symbols are the lines read, in order, with offsets (`LoadingInv`),
  and in the end the lines of the file in some order, with pointers (`ReadyInv`). That order is a
  bijection, which is why each line is in the table as often as in the file.
- **process symbols.** `CacheInv`: no file is both freed
  and loaded, and a pointer handed out is into a table that is still loaded. `TransInv`: the dsos of a cache entry hold
  every wanted mapping as a range of its own file, and no others (`Mapped`); a file is typed, and its symbols are, as they were when it was
  mapped, unless it was replaced (`AsMapped`, `LoadedFor`). As mappings do not overlap, a range around an address is its mapping's
  (`OneRange`); that the offset in the file and the place in memory say the same (`SamePlace`), and that the unsigned
  arithmetic of the code gives it where it does not wrap (`SmallMod`, `OffsetIsPlace`), is arithmetic; and
  the last symbol of a sorted table at or below an offset is the nearest one (`NearestSymbol`).
- **map_helpers.** `DumpInv` has a part per phase, besides what the programs changing the map keep (`OthersInv`): the batch
  pass copies whole buckets and only pairs that were there (`BatchInv`); the walk (`WalkInv`) has listed every stable key that lies
  before its cursor, but for those moved there, and no listed key lies behind the cursor until one is relisted
  or the cursor is deleted, in which case the reading of its value fails; values are read for
  the keys found (`ReadInv`); the result keeps what they establish (`DoneInv`). The orders of the keys inside a bucket, and
  the bucket of a key, are arbitrary.
- **dnsExpress.** `DnsInv` follows every query through the program. `Intact`: the packet is the one received but for what
  the steps so far changed, and the parsed question is inside it. `Own`: until another actor disturbs it, the record is where the
  query left it, in the element, then in its copy, then in the shared buffer, then in the packet. The checksum
  needs that a sum of three words, folded twice, is one word and the same modulo 2^w - 1
  (`FoldedSum`); that the length fits a word is an assumption on the constants, which the code meets with a wide margin.
- **layer.** `StrayInv`: there is no filter while the probes are attached, and without one nobody has strayed
  (`StoredOnce`); a CPU that is about to reserve a record of another process passed the comparison before the filter was stored, so it
  has not strayed yet (`NotYet`).
- **interrupt.** `StackInv`: the bucket of an id that was handed out holds an element, or a lookup has it out and will return
  it, so the id stays good; the stack in it is the trap's unless the bucket is one of those raced for (`IdSound`). A record is owned
  by one CPU until it is submitted, and a submitted record is filled in; what the reader holds was submitted.
  `NamingInv`: what was shown was looked up in a symbol table. The search keeps a window outside of which nothing
  can be the answer (`WindowInv`), and as many turns as there are addresses close it (`LoopEnds`).

Where a proof needs a least element (the first zero of a name, the next key of a map), it comes from the
well-foundedness of the natural numbers. So does induction, stated of sets instead of predicates (`Induction`: a set that holds 0
and with n also n + 1 holds every number), which the provers can use where they cannot instantiate the
library's theorems. With it a recursive function (`Pow2`, the loops of `bin_search` and `ReadLines`)
is first shown to exist, by tables of its first n values (`TurnsExist`, `RoundsExist`), and then to be what its
definition says.

Only model-checked, and why:

- All liveness (`StopsWhenAsked`, `Returns`, `Drains`, `FilterSettles`, `RecordsRead`): the prover handles neither fairness nor `ENABLED`.
- That the nondeterministic orders of `qsort` are never empty, so that `FinishLoad` and a load of symbols can happen: a question of
  `ENABLED`. The runs reach both.
- `StackDecoded`, `CountsShown`, and `OnlySelected` with missed return probes do not hold (`stack_decode`, `tcpconnect_lost`, `tcpconnect_stale`).

## Defects met while modelling

Three are shown by runs, `tcpconnect_stale`, `tcpconnect_lost` and `stack_decode`; others by the exception a property has
to make. The models behave as the code does in all these places:

- `tcprtt.c:210`: a probe that holds an element while it is deleted adds its sample to whichever address
  gets the element next (the exception in `OwnSamples`).
- `tcprtt.c:143`, `:150`: `-a` and `-A` apply `htonl` to an address that is in network order already,
  so the tool samples the address with its bytes reversed.
- `tcprtt.c:202`: with `-e` a histogram found before its first `cnt` increment divides by zero
  (`main = "crashed"` in the model).
- `tcpconnect.c:242`, `:268`: counting mode prints static arrays that nothing fills; the counters, which
  are exact, are never shown.
- `tcpconnect.c:283`: a SIGINT between the test of `exiting` and `pause()` leaves the tool asleep (`tcpconnect_lost`).
- `tcpconnect.c:326`: with several CPUs the first record printed need not be the oldest, and the unsigned
  time column wraps (the exception in `ElapsedSane`).
- `dnsExpress.c`: one static `dns_buffer` serves all CPUs, so a query may get another's answer, and at `:164`
  a record is read field by field while its element can be recycled (the exceptions in `AnswerOwn`).
- `dnsExpress.c:185`, `:386`: what follows the question of a query (further questions, authority and additional
  records) is overwritten and still counted in the reply (the condition in `ReplyWellFormed`).
- `dnsExpress.c:392`: when the tail cannot be extended, the query goes up the stack with a response header.
- `dnsExpress/main.go:53`: "Press Ctrl-C to exit", but `main` returns and detaches the program at once.
- `layer/main.go:116`: the error of `Update` is dropped; without the filter the tool goes on and shows every process.
- `layer.c:69`: all probes but `dev_queue_xmit` submit a record whose time field nobody has set, and it is printed.
- `dnscache.c:98`: "DNS record added" is printed whether or not the update succeeded.
- `trace_helpers.c:522`: after a symbol table that breaks off half way, the next lookup that walks past
  the file and the final free use freed memory (`UseFreed`).
- `trace_helpers.c:334`, `:335`: two allocations that are not checked (`NameOrBtfMissing`). `:378`: a place below the start of
  the file wraps, and is given the last symbol (the exception in `TranslationRight`).
- `trace_helpers.c:771`: symbols, and the failure to load them, are kept for a tgid for ever, whatever
  process has it later.
- `trace_helpers.c:374`: the first byte of a mapping is taken to be outside it.
- `map_helpers.c:25`: an update during the walk moves a key to the head of its bucket, which can hide it or list its
  neighbours twice (the exceptions in `StableKeysShown` and `TwiceOnlyAfterRelisting`).
- `map_helpers.c:104`: a successful batch pass is thrown away: the walk follows, writes over its results and
  stops after as many keys, so a key inserted meanwhile can push a stable one out; without an
  `invalid_key` the call fails although everything was read. `:94`: `batch_map_ops = false` comes after
  a `return`, so the batch call is tried every time.
- `kernel_symbols.go:111`: an address equal to a symbol's where the window closes, or above the last symbol, is
  "not found", which is the address 0; if a symbol has that address, interrupt exits
  (`interrupt/main.go:91`), and if none has, stack dereferences nil (`stack/main.go:109`).
- `interrupt.c:36`: two probes that find a bucket empty, or one during a lookup of it, give a trap another's stack (the
  exception in `OwnStack`).
- `interrupt/main.go:69`: a full or shared bucket makes `bpf_get_stackid` fail, and the reader panics.

## Not modelled

Option parsing enters as the constants it sets (except the byte orders in tcprtt). Output formats,
logging, reading of ELF and BTF, and the kernel's implementation of maps, perf and ring buffers are
left out; the latter are modelled from how the tools use them. The choice between `fentry` and `kprobe` (tcprtt.c:262-265)
is not modelled: the second program it names, `tcp_rcv_kprobe`, is defined nowhere in `tcprtt.bpf.c`.

- netfilter.bpf.c, http_filter.bpf.c and netfilter/demo.c cannot be built (mixed bcc and libbpf syntax, macros
  without continuations, fields, types and functions that are defined nowhere): there is no program whose
  behaviour a model could follow.
- softirq and sched_switch print a trace line and keep no state; tcpdrop fills buffers nobody reads; execve
  copies fields into a ring buffer, the protocol that `Layer` and `Interrupt` model.
- stack.py is a third party's stackcount with one line changed; tcpaccept.py prints each event as it comes.
- partitions and the probe lookup helpers answer from what they read once.
- Exercises under `doesnotok`, `task_struct` and `gogreeting` have no logic of this program.
- Vendored and generated code (three copies of `vmlinux.h`, skeletons, libbpf, the Go vendor directories) is
  nearly all of the repository: of some 457,000 lines of C, Go and Python about 6,500 were written for
  lno, so that the models' share of the lines in the tree is small whatever they cover. The one
  vendored file with the project's own logic, `kernel_symbols.go`, is modelled.

Every part of the repository that can be built, keeps state and is lno's own is now modelled.

## Plan

The parts of the repository that can be modelled are, and their safety properties are proved. Should one of the tools
call `dump_hash`, or `stack` decode its records with their padding, `MapDump` and `Interrupt` are where to state what follows.
