# SkelCL: a TLA+ verification project

SkelCL is a C++ library for programming one host with several OpenCL devices.
A program keeps its data in containers (`Vector`, `Matrix`) and computes with
skeletons (`Map`, `Zip`, `Reduce`, `Scan`, ...). The library decides when data
is copied between the host and the devices, and how it is spread over them. A
program that uses it should not be able to tell: that promise is what this
project states, checks and proves, as far as it has been modelled.

Sources are named relative to the repository; `detail/` stands for
`src/include/SkelCL/detail/`.

## 1. The system

### Components

| Component | State it keeps | Operations | What makes it correct |
|---|---|---|---|
| `Vector` (`detail/VectorDef.h`) | `_size`, `_distribution`, `_hostBufferUpToDate`, `_deviceBuffersUpToDate`, `_hostBuffer`, `_deviceBuffers` | the members of `std::vector`; `setDistribution`; `createDeviceBuffers`, `startUpload`, `startDownload`, `copyDataTo...`, `dataOn...Modified` | one sequence of elements, whichever copy is current; no access to stale, freed or foreign memory |
| Distributions (`detail/*DistributionDef.h`) | the devices, significances | sizes and offsets per device, uploads, downloads, when a change needs an exchange through the host | the parts make up the whole, disjointly; no exchange is skipped that is needed |
| Devices (`src/src/Device.cpp`, `DeviceBuffer.cpp`, `Event.cpp`) | one in-order command queue each; reference-counted buffers; sets of events | enqueue write, read, copy, kernel; wait | a command finds its memory alive and its data there; a wait ends, and not too early |
| `Map` (`detail/MapDef.h`, `MapHelperDef.h`, `Skeleton.h`) | a built program | prepare input, prepare output, execute, mark the output as modified | `f(c[i])` for every i, from what the input held at the call |
| `Zip` (`detail/ZipDef.h`) | a built program | as `Map`; makes the distributions of two operands agree | `f(l[i], r[i])` for every i |
| `Reduce`, `Scan` (`detail/ReduceKernel.cl`, `ScanKernel.cl`, ...) | a built program; temporary buffers | two launches; passes over sums of sums | the fold, the exclusive prefixes |
| `MapOverlap`, `AllPairs` (`detail/MapOverlapKernel.cl`, `AllPairsKernel.cl`, ...) | a built program | as `Map`, with tiles in local memory and distributions of their own | `f` of the neighbourhood; the product of the matrices |
| Overlap distribution (`detail/OLDistributionDef.h`) | overlap radius, padding | block parts with halos, padded at the ends | each halo is the neighbour's border |
| `Matrix` (`detail/MatrixDef.h`) | as `Vector`, with a row and a column count | as `Vector`, by rows and columns | as `Vector` |
| Index containers (`IndexVector.h`, `IndexMatrix.h`) | a size | element access computes the index | index i at position i |
| `Program` (`src/src/Program.cpp`) | OpenCL programs, a source, a hash | build, load and save cached binaries | the program built from this source, for every device |
| Source tooling (`src/src/Source.cpp`, `src/libraries/stooling`) | a source text | append parameters and arguments, rename, redefine types, join | the program compiles and hands the host's arguments to the user's function |
| Device list (`src/src/DeviceList.cpp`, `SkelCL.cpp`) | the devices | init, terminate, barrier | ids are positions; a barrier waits for all |

How they interact: a skeleton call prepares its input (default distribution,
buffers, upload), prepares its output (size, distribution, buffers), gives each
device a kernel, and marks the output as modified on the devices. A container
asks its distribution to start the transfers. The distribution gives each device
a command and collects the events. **Nothing waits** except `copyDataToHost`
(called by `begin`, `operator[]`, `setDistribution`, ...) and
`copyDataToDevices`: uploads and kernels are still in the queues when the call
that started them has returned.

### What is hard

* **Asynchrony.** The devices' queues advance independently. An upload reads host
  memory when the device gets to it, through a raw pointer taken at the call;
  meanwhile the host thread may move the container, change its distribution, or
  download newer data into the same memory.
* **Two flags.** `_hostBufferUpToDate` and `_deviceBuffersUpToDate` change when a
  transfer is *enqueued*. That is right only because of the order of the queues and
  the places where the library waits. Every member has to keep the flags, the two
  copies, `_size` and the device buffers consistent, and several do not.
* **Buffers that outlive their reason.** `createDeviceBuffers` keeps what it finds,
  so whoever changes the size or the distribution must drop the buffers.
* **Boundaries.** Block sizes come from a float product rounded down, and the last
  device takes the rest. Overlap distributions add borders, which have other sizes and
  offsets on the first, the inner and the last devices.
* **Kernels.** Work items of a group share local memory and run at their own pace; what
  they compute depends on the barriers, and on index spaces derived from sizes by
  rounding up and down.
* **A cache on disk.** Binaries of compiled skeletons are shared by all processes that run
  in a directory, without a lock, and survive whoever stopped while writing them.

`PROJECT.json` lists these as hazards, each at its line.

## 2. The modules

```
RecursionProofs         lemmas: induction and recursive functions
Distribution            sizes, exchange rules                  (no state)
  DeviceQueue           buffers, command queues, commands      (operators on a machine)
    VectorOps           the members of Vector                  (operators on a machine)
      SkelCL            the state machine: one host thread, the devices
        SkelCLProperties    what is claimed of it; refinement of Containers
          MCSkelCL          constants for TLC
          SkelCLProofs      theorems about flags, sizes, device buffers, and transfers in flight;
                            the lemmas about helpers and members of Vector that they rest on
  MatrixOps             the members of Matrix, overlap distributions (operators on a matrix)
    Matrices            the state machine: members and Map, Zip, MapOverlap, AllPairs
      MCMatrices        constants for TLC
      MatrixProofs      theorems (uses RecursionProofs)
Containers              the abstract specification: a vector is a sequence
KernelCode              what a kernel is; rounding helpers
  ElementKernels, ScanKernel, ReduceKernel, MapOverlapKernel, AllPairsKernel
                        index spaces and code of the kernels
    Kernels             the state machine: work groups, warps and barriers of a device
      MCKernels         constants for TLC
      KernelContracts   theorems; the contract, what a step keeps, what each kernel
                        does in each phase (uses RecursionProofs)
        KernelResults   theorems; what the kernels compute
          FoldResults   theorems; what the launches of Reduce and Scan compute
ProgramCache            the state machine: processes that share a directory of binaries
  MCProgramCache        constants for TLC
  ProgramCacheProofs    theorems
Adaptation              the state machine: a skeleton makes a program of the user's source
  MCAdaptation          constants for TLC
  AdaptationProofs      theorems (uses RecursionProofs)
```

### Distribution

`Invalid`, `Single(d)`, `Block` and `Copy` are records of a kind and the devices
used. `BlockSize` is `block_distribution_helper::sizeForDevice`. The product
`size * significance` is the constant operator `Quota`. It is a float rounded
towards zero in the code, so the model only assumes what `QuotaAssumption` says:
the devices before the last do not get more than there is. `NeedsExchange` is
`dataExchangeOnDistributionChange`. Every distribution in the library is built over
the whole device list with equal significances, and so it is here.

### DeviceQueue

A *machine* is a record of `vec` (the Vector objects), `mem` (the contents of
device buffers) and `queue` (per device, the commands not completed). The library's
functions are operators from machine to machine, so they compose as the C++ functions
call each other. A command names buffers by id and host memory by the vector that
owns it. `Redirect` says what becomes of such pointers: they follow the memory when a
vector is moved or swapped, and dangle (`Nobody`) when it is freed or reallocated. A
write command reads host memory when it *runs*. `Junk` is an element that nobody wrote.
Anything read outside a buffer, through a dangling pointer, or from a fresh device
buffer is `Junk`. A buffer lives as long as a vector or a queued command refers to it
(`Live`, `Release`).

### VectorOps

One operator per member function. Where the code waits, the operator ends:
`AssignDistribution` is `setDistribution` from after its `copyDataToHost` on.
Translated with all their oddities: `resize` of a vector with a stale host copy only
assigns `_size`; `assign` leaves `_size`; `swap` exchanges host buffers and sizes
only; a default-constructed vector counts as current on the devices; reading back a
copy distribution asks the first device only and marks the devices out of date.
Operators whose name has a suffix (`BlockSize_RoundedUp`, `Awaited_Nothing`, ...) are
mistakes: plausible wrong versions of a definition, which show that the properties
can fail. No module uses them.

### SkelCL

`vec`, `mem`, `queue` and `pc` are the state. A call that does not wait is one action.
A call that waits is two: the first leaves a continuation in `pc` (`Event::wait` inside
`copyDataToHost` or `copyDataToDevices`), and `Resume` runs the rest when the commands it
waits for are no longer queued. `DeviceStep(d)` completes the oldest command of `d`. A
`Map` call with a redistributed output is the longest: upload of the input, resize of the
output, download of the output's old contents, wait, redistribution, kernels.

Between the two ends of an action the host enqueues several commands, and a device could
already work on the first. The commands of one call on one device are in one queue, and
those of several devices touch disjoint parts of memory, so the early start cannot be told
from a later one.

The client is as free as the library allows: it makes any call in `Calls`, in any
order. What the library leaves to it are the *rules* below. A client keeps the rules that
are not in `Broken`.

| Rule | The client ... | Without the rule |
|---|---|---|
| `quiet` | does not change, free or reallocate host memory that an upload still reads | the code drops the event of `startUpload` and never waits for it: a map computes from later data |
| `settled` | does not let a download overtake an earlier upload of the same vector under another distribution | the same, and here all the client does is call `setDistribution` and read: finding `overtaken_upload` |
| `awaited` | waits for the event of `startDownload` | `begin()` trusts a flag that was set when the download was enqueued |
| `current` | calls `resize` with a current host copy | the value for new elements is ignored, only `_size` changes |
| `length` | calls `assign` with the present length | `_size` stays what it was |
| `hostOnly` | calls `insert`, `push_back`, `erase`, `assign`, `clear` on vectors that live on the host alone | these members leave the flags alone, and elements appended to a `Vector()` are never uploaded |
| `bare` | calls `swap` on vectors that live on the host alone | the device buffers are not swapped (a TODO at `detail/VectorDef.h:448`) |
| `fits` | passes no output longer than the input | results land at the block boundaries of the longer output |
| `spare` | does not call `forceCreateDeviceBuffers` on a vector that is current on the devices | the new buffers are empty, and the flag still says that they are current (`detail/VectorDef.h:531`) |

Adding a rule to `Broken` in a `.cfg` shows its counterexample.

Further preconditions are asserted by the code, or are what it aborts on: a
moved-from vector is only destroyed or assigned to (`Intact`), a block has an element
for every device (`Allocatable`; a buffer of zero bytes cannot be created).

### Containers

The abstract specification: `content` maps each vector to a sequence, and every call
takes effect at once. There are no devices, copies, distributions or queues. The refinement
mapping (`Content` in `SkelCLProperties`) is what an access to each vector would find once all
queues are worked off.

### MatrixOps and Matrices

`mat[m]` is the state of a `Matrix`: size, host buffer, flags, distribution, device buffers. A
cell does not hold a number but says *which element's present value* it has: `i`, the
padding's neutral element, or some other, older value. A call that changes elements
renumbers the cells (an inserted row shifts them) or makes the others old
(`Computed`, `WriteElement`). The models of the kernels' effect give an output element its number only if
there is a work item for it and every cell it is computed from is the right one. For MapOverlap the items are those of
the index space (`ItemRows`: rows of groups of `Side` by `Side` items, rounded up from a quotient that has little to do with the part's
rows), and what the kernel does with tiles it was not made for is *anything*: `OverlapPart` is right only
where the rules `allRows`, `wholeTiles` and `narrow` hold. They are the conditions of the module `Kernels` for this
kernel. `Side` is taken to be the same on all devices. So a stale border row, a piece at a wrong
offset or a missing part of the right matrix of `AllPairs` shows as an element that is wrong where
the flags call it right.

A transfer is done when its call returns. For a client that keeps `quiet` and `settled`, `SkelCL`
shows that the order of the queues cannot be observed; here the subject is what is copied where.
`Overlap(radius, padding)` is the distribution of `MapOverlap`. Its upload and download are translated
piece by piece (`OverlapPiece`, `DownloadPiece`, `Padded`), with the offsets of the first, inner and last
devices, and so is its exchange rule, which compares neither radius nor padding. The client rules are again named, and
each was found to be needed by a run with that rule in `Broken`:

| Rule | The client ... | Code that needs it |
|---|---|---|
| `fetched` | brings the result of a MapOverlap to the host before it gives it to the next one | borders are not exchanged between devices (`detail/MapOverlapDef.h:261`) |
| `range` | puts no operand under another overlap range, nor the result of a Map or Zip, while it has device buffers (for MapOverlap: nor under another padding) | `detail/OLDistributionDef.h:106`: the buffers stay, and have the old sizes |
| `tall` | gives each device at least as many rows as the overlap range | unsigned offsets wrap (`detail/OLDistributionDef.h:325`) |
| `allRows` | gives MapOverlap only matrices whose parts have no more rows than their index space, whose height is (elements of the part / rows of the whole matrix) rounded up to `Side` | `detail/MapOverlapDef.h:139`; finding `tall_matrix` |
| `wholeTiles` | gives MapOverlap only matrices whose columns are a multiple of `Side` | a tile that sticks out over the last column misses its border (`detail/MapOverlapKernel.cl:120`) |
| `narrow` | uses no MapOverlap whose range is larger than `Side`, nor a side of one | some cells of a tile are never stored (`detail/MapOverlapKernel.cl:134`) |
| `plain` | does not give AllPairs an overlap-distributed operand | the borders count as rows |
| `together` | has single-distributed operands on one device | classes are compared, not devices (`detail/ZipDef.h:240`) |
| `fits` | passes Map and Zip no larger output | block boundaries differ |
| `hostOnly`, `inner` | erases a row of a matrix on the host alone, and none of the last two | `detail/MatrixDef.h:641`: `_size` shrinks first |
| `current` | clears a matrix whose host copy is current | flags stay (`detail/MatrixDef.h:646`) |
| `marked` | calls `dataOnHostModified` after writing through a reference | documented |

### KernelCode, the kernel modules, and Kernels

A *launch* is a kernel, the number of groups and items per group, and sizes. A kernel is a function
from group, item and *phase* (the code between two points where an item may be overtaken) to the
cells it stores and the cells each is combined from, loaded before. A cell's value is the list of the inputs it was combined from, and combining appends lists. So the
properties state the result for every user function that is associative, and for Scan and Reduce also
commutative: Scan's kernel combines the right part before the left one, Reduce strides through the
input, and the properties ask for each input once, in any order.

`Kernels` runs the launches of one call in order: `Units` work groups are resident at a time, taken in any
order; a warp of a group does the loads and then the stores of a phase, two steps; warps wait for each other at barriers.
Loads and stores of one warp in two steps are fine-grained enough because `NoRace` holds: no two items of
different warps touch a cell without a barrier between them, one of them storing.
Scan fills up its last group with the identity. Reads beyond the data happen (Reduce's guard is off by one) and are
harmless: what is read is not used, and the runs check that. Stores out of bounds would not be, hence
`StoresInBounds`. The sizes for which the kernels work are named (`Condition`): `covered` (Scan: the number of elements is
not one more than a multiple of the work-group size, whose last element gets no item,
`detail/ScanDef.h:199`), `powerOfTwo` (Scan: the tree of sums halves the work-group size), `lockstep` (Reduce: the second launch is one warp; otherwise items ahead of item 0 store
an unfinished value, `detail/ReduceKernel.cl:126`), `allRows` (finding `tall_matrix`), `wholeTiles` (a tile that sticks out over the last column
misses its border), `separate` (items of another group read what a MapOverlap into its input has overwritten), `narrow` (a tile of side 1 has
no second row of items, which loads the border's columns, and the test for the right border is of unsigned numbers, `detail/MapOverlapKernel.cl:134`:
below a range larger than the side it wraps, and no item passes), and for Map over
indices and points `onePart` (the offset of a device is the sum of the parts before it even if each is a replica of the whole,
`detail/MapDef.h:414`), `wholeGroups` (the guard compares the index on the device with the size of the whole
output, `detail/MapDef.h:447`) and `wholeColumns` (finding `ragged_points`). `IsCall` says what every call has, whatever its
sizes: the host's arithmetic starts from naturals, work-group sizes are not zero, and operands of one call agree. Adding a name to `Tolerated`,
with `Requests` one of `OddScan`, `RacyReduction`, `TallMatrix`, `RaggedMatrix`, `WideRange`, `RaggedParts`, `RaggedPoints` of `MCKernels`, shows why.

`ElementKernels` has the kernels without local memory: Map over elements, indices and points, each with and without a
result, Zip in both forms, and AllPairs with one function for a row and a column. A call of Map names the
parts of all devices and the device it runs on, because offsets and guards depend on both. An index is
the element of `In` at that place, so an item that computes the wrong index stores the wrong label. A user function without a
result writes to an additional argument; it leaves its mark where it was called for.

### ProgramCache

`exists` and `content` are the directory: files of blocks, where a block is what a
process wrote, or a hole. A process asks for a skeleton with `SKELCL_LOAD_BINARY` and
`SKELCL_SAVE_BINARY` set or not; `loadBinary` opens, measures and reads a file per device; a missing
file makes it forget what it has loaded and compile; saving truncates and writes, block by block, file by file.
Processes interleave at each of these, and may end at each of them (`Stop`); the files stay.
The conditions are `oneFunction` (the key is the hash of the source before the function's name is inserted,
`detail/MapDef.h:197`, and likewise in the other skeletons, so two skeletons with one source share files),
`apart` (nobody loads what another may be saving) and `finished` (no process stops while it
writes). `OneSource` of `MCProgramCache` with `Tolerated = {"oneFunction"}` shows one function run for the other.

### Adaptation

The constructor of a skeleton appends its kernels to the user's source and has the text rewritten by a
sequence of passes, each of which parses what the one before it wrote (`src/src/Source.cpp`, `src/libraries/stooling`). `program` is the
text as functions with parameters, calls and variable names; `todo` holds the passes left, in the order of the skeleton's
`createAndBuildProgram`. There is an action per kind of pass: `AppendParameters` (additional parameters of the user's function go to a
kernel, and a matrix among them becomes a buffer and a column count), `AppendArguments` (and to the calls in
the kernel), `RenameUsed`, `RenameInSource` (AllPairs renames its two functions before it joins the sources),
`JoinSources`, `RedefineElementType`. `SetKernelArgs` is the host's side: each skeleton sets its own arguments by number and
gives the next number to the first additional one. The numbers and the texts are in different files and must agree, for every kernel
of thirteen forms of skeletons. The conditions under which they do are named and were each found to be needed:

| Condition | | Code that needs it |
|---|---|---|
| `fresh` | no additional parameter has the name of another, or of a kernel's parameter or local variable (preprocessor macros are not among the names here) | parameters and arguments are appended by name |
| `expressions` | the user's source passes no plain variable to the used function | a renaming also replaces the variables among a call's arguments (`src/libraries/stooling/src/RenameFunctionCallback.cpp:97`) |
| `oneName` | the two functions of AllPairs have one name | both sources are searched for the name of the one to reduce (`detail/AllPairsDef.h:225`) |
| `noHelpers` | the two sources of AllPairs define no function twice | they are concatenated |
| `scanAlone` | Scan's function has no additional parameters | only one of the kernels is extended and the host sets nothing, although `src/include/SkelCL/Scan.h:113` documents "Additional arguments which are passed to the function" |

Operators whose name has a suffix (`BlockSize_RoundedUp`, `Awaited_Nothing`, ...) are mistakes, in all
modules: plausible wrong versions of a definition, which show that the properties can
fail. No module uses them.

## 3. The runs

| Run | What it shows | Bounds |
|---|---|---|
| `transfers` | Two vectors, all distributions, maps, redistributions, accesses: `CurrentCopyExists`, `CopiesAgree` (with the replicas of a copy distribution), `TransfersInBounds`, `MapComputesAll`; and the order in which devices work cannot be observed (`DevicesAreInvisible`) | backlog 1, vectors of three elements, so the last device's block is the larger one; 317 000 states |
| `members` | All members of the host side, mixed with maps: `TypeOK`, `SizeIsCurrent`; `ImplementsContainers` (refinement), `CallsDoWhatTheySay`, `WritesLand` | backlog 0: calls start with empty queues, because the rule `quiet` forbids most of them otherwise, so commands are in flight only inside a call that waits (a map that redistributes its output, an access); 11 000 states |
| `copies` | Copying and moving vectors with commands in flight: `BuffersAreOwned`, `NoDanglingUpload`, and `CallsDoWhatTheySay`, here that a copy gets and a move keeps what the original held, although the kernel and the copying are still queued | backlog 2: the upload and the kernel of a map are still queued; 113 000 states |
| `manual` | One vector, every distribution, the low-level members, `resize`: `AccessIsComplete`, `BuffersFit`, and `CallsDoWhatTheySay`, here that uploads, downloads, redistributions and marks leave the elements alone | backlog 1, sizes 2 and 3: blocks of equal and of different sizes; 81 000 states |
| `kernels` | Maps, Zips, Scans, Reduces, MapOverlaps and AllPairs of a hundred and ten sizes and forms (less those that no named condition admits), each in every order of groups and warps: `TypeOK`, `NoRace`, `BarriersAreMet`, `StoresInBounds`, the six results, and `CallsComplete` (liveness) | two groups resident; sizes on both sides of the multiples of the work-group size; Map on either of two devices; Scan with one to three passes; 55 000 states |
| `program_cache` | Two processes, two skeletons, two devices: `TypeOK`, `RunsWhatWasAsked`, `FilesAreWhole`, `NobodyAborts` | a binary is two blocks, so a file can be seen half written; 65 000 states |
| `matrices` | Two matrices, all members, `Map` and `MapOverlap`: `TypeOK`, `CurrentWhereMarked`, `DataIsSomewhere`, `OverlapsAreBorders`, `TransfersFit` | three devices, the least with an inner one; three rows of two or three columns and six rows of two, and what `insert_row` and `pop_back_row` make of them: rows that do not divide evenly; ranges 1 (`NEAREST`) and 2 (`NEUTRAL`), groups of side 2; two elements that the client writes, in different rows; 57 000 states |
| `products` | Three matrices, `Zip`, `MapOverlap`, `AllPairs`, all distributions: `CurrentWhereMarked` | two devices, two rows and columns (a row's width counts in the offsets); 2 500 states |
| `adaptation` | All skeletons, with up to three additional arguments, helpers and callers in the user's source: what the passes make compiles (`WellFormed`), leaves the user's functions alone (`UserCodeKept`), and the host's arguments reach them (`ArgumentsArrive`) | scalars, buffers and matrices in all positions of up to three; two functions for AllPairs with up to three additional arguments together; 2 600 states |

The runs of vectors have two devices and vectors of two or three elements, so a block distribution gives each device a
part of its own, and for three a rest to the last device. Two vectors are the least with an input, a different output and a
copy. The user function adds one modulo two, so a map that is lost, doubled or applied to stale data
shows. Three buffers per vector and device suffice: an action needs a free one and TLC would
stop at a deadlock otherwise. `Backlog` bounds the commands in flight when the next call starts.
Matrices are interchangeable, and so are vectors, where `SYMMETRY` is used; none of those runs checks liveness.

`ImplementsContainers` says that every step is *some* step of the sequential containers;
`CallsDoWhatTheySay`, `WritesLand` and `MapComputesAll` say *which*.

Three runs end in a violation. Each has a client that breaks one rule or condition the documentation does not
ask for.

| Run | The documentation says | The code does |
|---|---|---|
| `overtaken_upload` | Map computes `f(c[i])` for every i | a download on the new device overwrites the host buffer before the old device has read it |
| `tall_matrix` | MapOverlap computes every i | the index space has too few rows when a device's part has more rows than (elements of the part / rows of the whole matrix), rounded up: in the run one device has all of a matrix of three rows and two columns, and its last row is not written |
| `ragged_points` | Map over the points of a matrix computes every i | work items right of the last column pass the guard and store the function of a point outside of the matrix over an element of the next row |

**Fairness.** `SkelCL`: `WF_vars(DeviceStep(d))` for each device, because a queue is flushed by each enqueue
(`Device.cpp` calls `flush`) and an OpenCL device works on, and `WF_vars(Resume)`, because a host
thread whose events have completed returns from `wait`. `Kernels`: `WF_vars(DeviceWorks)`, the device goes on with some
group that can go on; nothing is assumed of a single warp. Nothing obliges a client to call. `ProgramCache`, `Matrices` and
`Adaptation` have no fairness. The one property that rests on fairness is `CallsComplete`: that a call's groups all end is a question about barriers, counters and
guards in loops. That a wait of the host ends, or a loop over the devices' files, follows from fairness alone and
is not stated. Deadlock is checked in every run.

**Mutants.** Every property of every passing run has a mutant in `PROJECT.json`: one of
the mistakes above put in place of its definition, which TLC must find to violate that property.

## 4. The proofs

| Module | Theorem | States | Assumes |
|---|---|---|---|
| `SkelCLProofs` | `TypeCorrect` | `Spec => []TypeOK` | `Obedient` |
| | `SizeCorrect` | `Spec => []SizeIsCurrent` | `Obedient` |
| | `DataNeverLost` | `Spec => []CurrentCopyExists` | `Obedient` |
| | `InvariantHolds` | `Spec => []IInv`, which the three follow from | `Obedient` |
| | `BuffersAlwaysFit` | `Spec => []BuffersFit` | `Careful` |
| | `BuffersNeverShared` | `Spec => []BuffersAreOwned` | `Careful` |
| | `BuffersTidy` | `Spec => [](IInv /\ Tidy(Now))`, which the two follow from | `Careful` |
| | `UploadsStayMoored` | `Spec => []NoDanglingUpload` | `Patient` |
| | `AccessCompletes` | `Spec => []AccessIsComplete` | `Patient` |
| | `FlightIsSafe` | `Spec => [](IInv /\ Flight)`, which the two follow from | `Patient` |
| | `TransfersStayInBounds` | `Spec => []TransfersInBounds` | `Prudent` |
| | `TransfersAreConfined` | `Spec => [](IInv /\ Confined)`, which it follows from | `Prudent` |
| `ProgramCacheProofs` | `CacheTypeCorrect` | `Spec => []TypeOK` | `Proper` |
| | `CacheCorrect` | `Spec => []RunsWhatWasAsked` | `Proper` |
| | `CacheFilesWhole` | `Spec => []FilesAreWhole` | `Proper`, `"finished" \notin Tolerated` |
| | `CacheIsHarmless` | `Spec => []NobodyAborts` | `Tolerated = {}` |
| `MatrixProofs` | `MatricesKeepData` | `Spec => []DataIsSomewhere` | `"current" \notin Broken` |
| | `MatricesTypeCorrect` | `Spec => []TypeOK` | `Broken = {}` |
| | `MatricesCurrent` | `Spec => []CurrentWhereMarked` | `Broken = {}` |
| | `MatricesBordered` | `Spec => []OverlapsAreBorders` | `Broken = {}` |
| | `MatrixTransfersFit` | `Spec => []TransfersFit` | `Broken = {}` |
| | `MatricesRight` | `Spec => []AllRight(mat)`, which the four follow from | `Broken = {}` |
| `AdaptationProofs` | `PassesAsPlanned` | `Spec => []Inv`, which the two below follow from | `NamesAgree` |
| | `UserCodeStays` | `Spec => []UserCodeKept` | `NamesAgree`, `"expressions" \notin Tolerated` |
| | `ArgumentsInPlace` | `Spec => []ArgumentsArrive` | `NamesAgree`, `fresh`, `scanAlone` not in `Tolerated` |
| `KernelContracts` | `KernelsTypeCorrect` | `Spec => []TypeOK` | nothing |
| | `KernelBarriersAreMet` | `Spec => []BarriersAreMet` | nothing |
| | `KernelStoresInBounds` | `Spec => []StoresInBounds` | `powerOfTwo`, `wholeTiles`, `wholeGroups`, `wholeColumns` not in `Tolerated` |
| | `KernelsDoNotRace` | `Spec => []NoRace` | `powerOfTwo`, `lockstep`, `wholeTiles`, `separate`, `wholeColumns` not in `Tolerated` |
| `KernelResults` | `ZipsArePointwise` | `Spec => []ZipIsPointwise` | nothing |
| | `MapsArePointwise` | `Spec => []MapIsPointwise` | `onePart`, `wholeGroups`, `wholeColumns` not in `Tolerated` |
| | `ProductsAreRight` | `Spec => []AllPairsIsProduct` | nothing |
| | `OverlapsAreStencils` | `Spec => []OverlapIsStencil` | `allRows`, `wholeTiles`, `separate`, `narrow` not in `Tolerated` |
| `FoldResults` | `ReductionsAreFolds` | `Spec => []ReduceIsFold` | `lockstep` not in `Tolerated` |
| | `ScansArePrefixes` | `Spec => []ScanIsPrefix` | `covered`, `powerOfTwo` not in `Tolerated` |

All hold for any number of devices, vectors, matrices, processes, skeletons, work groups and items, any sizes, distributions and user functions, and any
number of commands in flight, as far as the client keeps the rules and conditions that "Assumes" names: `Broken = {}` includes all rules of `Matrices`,
hence the shapes and ranges that MapOverlap is right for (`allRows`, `wholeTiles`, `narrow`). Besides what the table names, only the named assumptions on the constants are used.

**Vectors.** `Obedient`: the client keeps `hostOnly`, `bare` and `length`. The other six rules may be broken: what is proved here
does not need them. None of the three properties is inductive by itself. Erasing an element
keeps `_size` natural only if `_size` is the length of the host buffer; marking the
devices as modified keeps `CurrentCopyExists` only if a vector that has one buffer has
all of its distribution (`Fitted`); resizing keeps it only if one of the flags was
set before. `Sound` is the conjunction of these facts about one vector,
`Good(S)` says that `S` is a machine whose vectors are all sound, and `IInv` adds what
a waiting call relies on when it goes on (`PcOK`): that the host copy it waits for is marked as
current, that a Map's input has a valid distribution, and that there is still a free buffer for its
output. The last is why the lemmas track which buffers a call takes into use (`NewUse`, `Room`).
The first half of `SkelCLProofs` gives the type of each helper and what it changes, and
shows for each member function that it leads from a good machine to a
good machine. The second half has one lemma per action or group of similar actions, the
two halves of a waiting call separately. The device's steps change elements of host
copies and nothing else of a vector (`RunHeadType`).

**Buffers.** `Careful` is `Obedient` with the rule `current`: a resize of a stale vector would leave buffers of the old
size. `Tidy` says that no two vectors share a buffer and that every buffer has the length that the vector's size
and distribution ask for. It is inductive together with `IInv` only: that a distribution without an exchange finds either no buffers or
those of the same distribution is `Fitted`. Most steps are `Keeping`: each vector keeps its
buffer with all that determines its length, or gives it up. The others allocate: `NewBuffers` takes a free slot,
which exists (`Room`) and belongs to nobody, since a buffer of a vector is alive (`Live`), and `Release` keeps what is.

**Transfers.** `Patient` is `Obedient` with the rules `quiet` and `awaited`: clients do not resize or copy over a vector whose
transfers are pending. `Flight` is what keeps the queues and the host copies in step: every queued upload reads from the memory
its vector has now (`Moored`); while the client runs, and while a call waits for an upload, no download is queued
(`NoReads`); and while a call waits for downloads, all that are queued are those it waits for (`ReadsOf`). The step that could
break it is a download, which resizes the host buffer it writes to: it moves no memory, because an upload is only queued for a host
copy that has all elements already. Every other step either leaves the queues and the memory alone (`NoTransfer`), or
appends commands that read or write the current memory.

**Bounds.** `Prudent`: clients keep all rules but `settled`, so a download may overtake an upload. Two arguments meet here. The first is about
the parts of a block distribution (`PartsFit`): a device's offset is the number of elements in the buffers before it, and since
all devices but the last have equally many, those elements are a rectangle of known area; with the device's own part they fit in the size. The
second is about time: a command is enqueued for the size a vector has then, and runs later. `Bounded` says of every command in flight that it
stays within the *size* of its vector, not the length of its host copy, which a download changes: so it survives every step that
moves memory between vectors together with the commands that use it (`Descends`) and releases only buffers that nothing uses (`Lasting`). A
size changes only on vectors without transfers in flight, which is `Flight`, and that buffers have the lengths their
offsets assume is `Tidy`; `Confined` is the conjunction, and for a Map that waits it adds that its output has the input's size and the
input its buffers, since the kernels it will launch rely on both. `Moored` and `hostUp` then turn sizes into lengths of host copies.

**The cache.** `Proper`: no two skeletons that are asked for have one key. `CacheCorrect` rests on what a process has in
`programs` at each place of its loops (`ProgramsOK`): the right binaries of the first devices while it loads, none or all
when it builds, all when it saves. `CacheFilesWhole` adds that each block of a file is right or somebody who writes
the file is still to write it (`WholeInv`), and `CacheIsHarmless` that nobody writes a file while another loads it, so
that the size a reader has taken stays the size (`SizeKnown`). `CacheCorrect` needs neither `apart` nor `finished`: a
process that meets half a file ends, it does not run the wrong program.

**Matrices: nothing is lost.** `Sound` says of a matrix in use that it has buffers on all devices of its distribution or none, and
that its host copy is current or the device copies are, all of them, under a valid distribution. There is a lemma per
member, per step of preparing operands, and per skeleton. The step that could fail is a
change of distribution without an exchange: then the old buffers stay, and they must be
for the new one's devices (`SameDevices`). Rows erased near the end or too small parts make elements
wrong but lose none, so no rule but `current` is needed.

**Matrices: what is there is right.** The inductive invariant is `Right(m)` for every matrix, in four parts, none of which is
inductive without the others. `Typed`: the fields; every cell is an element or a padding; the buffers have the sizes that size
and distribution ask for. `Roomy`: there are buffers only where there are elements, and each device has enough rows for the
overlap. `Held`: the host copy is the elements in order where it is marked, and so is each device's own part, without the borders,
where the devices are marked. `Bordered`: if both are, the borders are the neighbours' rows or padding. `OverlapsAreBorders` would be lost by a
change of range that keeps the buffers, which is why `Typed` fixes their sizes; `CurrentWhereMarked` needs only the own parts of an overlap
buffer, but the MapOverlap that reads it needs its borders, and the one after it must not, since the borders of a result
are not computed (rule `fetched`).
The argument has three layers. *Where*: the own parts of the devices are disjoint and cover the rows (`PartsOfRows`), hence the cells
(`PartsOfCells`); the offset of a device, a recursive sum over the buffers before it, is a product (`BeforeIs`, by induction).
From these follow the piece each transfer moves (`DownloadPieces`, `UploadPieces`). *What*: a download
leaves every element in place (`DownloadRight`), since each cell of the host comes from just one device, and an upload fills each cell
of each buffer with what it stands for (`UploadRight`), whether the cell comes from the host or was padded. *When*: each member, each
preparation of operands, and each skeleton keeps `Right` or ends in it. For the skeletons `ComputedRight` asks that each
device's own part of the result is right, which is shown cell by cell for Map and Zip (`PointwiseRight`) and row by
row for MapOverlap and AllPairs (`ByRowsRight`; `OverlapPartIs`, `ProductPartIs`). `OverlapPartIs` is where `allRows`, `wholeTiles` and `narrow` enter: without them
the definition leaves rows as they are, or gives anything. The proof showed that the rule `range` was stated too weakly: it
did not speak of an output that is on the devices under another range.

**Kernels.** `NoRace` quantifies over the states of all resident groups, and each kernel is a function of the phase with loops in it. The
proof separates the two by a *contract*. `KernelContracts` asks of a launch: the items of a group have equally many phases (`Even`), what
is stored is inside the buffers and the local memory (`Fits`), what items of different warps or groups touch while no barrier separates them
is not what one of them stores (`Apart`), and items of one warp that store into one cell store the same (`Agree`). `KInv` says of
the machine that each resident group has a phase per warp, with what that warp loads and stores there (`GroupType`), that a warp
holds values only on the way from loads to stores (`Holds`), and that no warp has passed a barrier that another has not reached (`Met`).
It needs nothing from a launch but the contract. The contract is then shown for each of the kernels, from three
simpler facts (`PhasesAreSafe`): in a phase, what an item stores no other item touches (`Exclusive`), in the device's memory no other group
touches it in any phase (`Groupwise`), and phases that no barrier separates have nothing in common (`Separated`).
Scan's and Reduce's trees need that different items' strides never meet, for which sizes and strides are shown to be powers of two,
by induction over the rounds. `covered`, `allRows` and `onePart` are not needed here: without them results are wrong or
missing, but nothing races and nothing is stored outside.

**Results of the kernels.** `KernelResults` goes on from the contract. Each launch is annotated: `Written` is the value that a phase stores
in a cell, and `Value` what the last phase or launch that stores the cell leaves there, as if phases and launches were done one after the other.
`VInv` says that each resident group's local memory, each warp's registers and the buffers have the annotated values, for as many phases as each warp has
done. It is inductive for each launch that is `Explained`: it keeps the contract, no two of its stores that are not in order
meet, and its code makes the annotated values of those before; so what is computed does not depend on the order in which groups and warps run.
At the end of a call, `Explained` turns the memory into the annotations of its last launch. For Zip and Map what is left is
where the items are: each element of the result is stored by just one of them (`MapStores`, `MapCovers`), and
an item that is left over stores nothing or, for the forms without a guard for it, nothing that the caller sees. Zip's output may be either input.

For AllPairs the annotations carry the argument. A phase of the sum stores the product *up to the end of its segment*; it makes that of
the product up to the segment before, which it finds in the output, and of two pieces of the matrices in local memory, whose values are what the phase
before loaded: cell `k` of a piece is element `segment * D + k` of the row or column (`KLoads`-lemmas: which item loads it, and that no other does).
So the recursion over segments is in the machine's steps, and the proof only adds one segment to a product that is a prefix. What remains is
that the last segment ends at the dimension, and that each cell of the output has just one item and one tile, also where a group reaches
beyond the matrix (`Reached`). The general form is one phase; its launches have `S = 1` (`AllPairsDef.h:103`), which `AllPairsCall` says,
since a general kernel computes one cell per item.

For MapOverlap two phases have the same annotation: a cell of the tile holds what the matrix has at its place, or the padding
(`SeenLabel`). The middle and the four borders overlap at the corners and along the edges, so the proof does not ask who stores a cell but that
whoever does is `Faithful`: each of the five loops stores in a cell what belongs there (`NorthIsFaithful`, ..., `EastIsFaithful`), and
together they store every cell (`TileIsStored`). This is where the attempt at a proof found that more is needed than `wholeTiles`: without `narrow` some
cells are never stored, and the last phase reads what the local memory happened to hold. TLC finds the same for `WideRange` with `narrow` tolerated.
Documentation and code check nothing of the kind: the side comes from the device's work-group size, the range from the caller.

For Reduce the annotations are the *lists of elements* that a value is made of, and two facts about lists carry the proof: such a list has no
element twice (`Distinct`), and the lists of several cells share the elements out among themselves (`Splits`: every element is in one of them, and
two of them have none in common). An item folds the elements at its place plus multiples of the global size (`FirstFold`), so after the first launch
the cells of the intermediate buffer split the input; the second launch's items do the same with those cells (`SecondFold`), and each round of its
tree adds to the first half of the cells what the other half has (`RoundFold`), which splits the input again over half the cells (`HalvedSplits`).
After the last round one cell has everything (`RoundsFacts`). Nothing separates the last launch's rounds but that its one group is a warp: hence
`lockstep`. The proof failed at first: where the groups' number times their size is not the global size, some elements are in no fold. OpenCL refuses
such a launch, which `ReduceCall` now says.

For Scan the annotation is the *memory itself*: `AfterLaunches` is what a device has in all its cells if launches, groups and phases are
done one after the other (`AfterPhases` for one group), and `SequenceExplains` shows that for every call whose kernels keep the contract
(`Sequential`) the machine, in any order, makes the same. What remains is a sequential program. Its values are again lists of elements, and
`Spans(v, a, b)` says that `v` has the elements `a + 1 .. b`, each once. Inside a work group the argument is Blelloch's: going up the tree, after `s`
rounds the node that stands for `2^r` elements spans just those (`Upward`); the root is cleared; and going down, a node of a level that has been
reached spans what precedes its elements *in the group*, while those below still have their own (`Downward`). At the leaves that
is the prefix within the group, and the root's sum goes to the next level (`PassMakes`).
Between work groups the argument is another induction, over levels, where element `j` of level `k` stands for the inputs from
`Bound(n, e, k)[j]` to `Bound(n, e, k)[j + 1]`, of `wg^k` elements each except at the end of the input: after `i` passes the levels below `i` have
the prefixes of their groups (`Parted`) and level `i` has its sums (`Ascended`); after `i` combinations the last `i + 1` levels
have the prefixes of everything (`Scanned`, `Descended`), since a combination joins each element with the sum of all
groups before its own. At level 0 that is `ScanIsPrefix`. `covered` enters where a group must exist for each sum of the
next level, `powerOfTwo` where the tree's levels meet the group's end. The last group of a pass is filled up with the identity:
`Shifted` and `Bound` therefore go on beyond the end of the input, where there is nothing more to span.

**Induction.** The library's theorems about induction take an operator as a parameter and cannot be used. `RecursionProofs` states induction
over *sets* of naturals instead (from the well-foundedness of `<`), and derives that a recursive function over an initial segment exists and
satisfies its equation. That is enough for Scan's sizes, trees and
levels, Reduce's rounds, and the sums over devices.

**Adaptation.** A request is any source that compiles by itself, of any number of functions, parameters and calls, for a skeleton of the table (`RequestsAssumption`, `IsRequest`).
`Inv` says that after `k` passes the program is in two halves (`Progress`): the user's functions, renamed as far as the passes done say, and the skeleton's
kernels, *furnished* with the parameters and arguments they have got so far. Each pass is shown to work on one of the halves: appending
parameters looks for a kernel by name and finds no function of the user's, since the names of kernels are reserved; appending
arguments looks for calls of the placeholder, which the user's functions have none of; renaming changes the used function, its calls, and nothing else if
no plain variable is passed to it (`expressions`). For AllPairs the renaming comes before the two sources are joined,
and both are searched for one name: `NamesAgree`. What is particular to a skeleton is in one lemma about the finite table of kernels (`KernelTable`); the induction
over passes is the same for all. `ArgumentsInPlace` then compares three lists of any length: what the host sets
(own arguments first, then each additional one, a matrix as two), the parameters of the kernel as rewritten, and the arguments of the call in it.
By `fresh` no additional parameter has a name that the kernel uses, so a name stands for one parameter.

**Only model-checked.** Liveness. The refinement, `CallsDoWhatTheySay`, `CopiesAgree` and whatever else of vectors is stated with
`Drained` or `Held`: these are recursive over the queues. `WellFormed` of `Adaptation`: that the finished program compiles.

## 5. Not modelled

* **Containers.** `Vector`'s copy assignment (`detail/VectorDef.h:172` passes a `unique_ptr` where a distribution is expected) and
  `Matrix::push_back_row` cannot be instantiated. `reserve`: capacity is not state here; a growing vector always reallocates, the worst
  case. Matrices are assigned by move only. `Index` containers have no data whose copies could differ: the kernels see
  their sizes and offsets, which `ElementKernels` has. (Their `at()` lets one index beyond the end pass,
  `src/src/IndexVector.cpp:124`, `src/src/IndexMatrix.cpp:111`: a matter for a unit test.)
* **Distributions.** The combine function of a copy distribution. Unequal significances: the API can set them,
  nothing in the library does, so the float subtraction at `detail/BlockDistributionDef.h:209` is exact here. Overlap-distributed vectors: no skeleton makes them,
  and their upload computes a wrong offset on three devices (`detail/OLDistributionDef.h:254`). The conversion of an overlap distribution between
  element types, which drops the neutral element (`detail/OLDistributionDef.h:60`).
* **Skeletons.** A MapOverlap whose output is its input, in `Matrices` (in `Kernels` it is the condition `separate`).
  How Reduce and Scan prepare their vectors, which is Map's way under `Single`. Additional arguments that are containers
  are uploaded as Map's input is; that they reach the kernels is in `Adaptation`, their transfers are not modelled. The bank-conflict variant of Scan, which a macro
  leaves out, and `AllPairsKernel3.cl`, which nothing includes.
* **Devices.** Commands that fail (`Device.cpp` logs and goes on), completion callbacks, work-group sizes that are
  not powers of two. Selecting devices at the start, `terminate` and `barrier`: sequential and without state that a later call
  depends on, but for the list of devices, which is fixed here as `NumDevices`.
* **Programs and source tooling.** How the passes find a declaration in Clang's syntax tree and replace text; `renameTypedef` and
  `parameterTypeNames`, which no skeleton uses.
* **The executor** is a program of its own that is called from Java: it builds a kernel from a string, wraps the caller's arrays in `Vector`s and
  calls members that are modelled here, one after the other.
* Logging, formatting and assertions of `pvsutil`; the abandoned overlap
  distribution, which nothing includes; examples and tests; the vendored OpenCL headers (`src/include/CL`), which
  alone are a fifth of the repository's lines.

What the map covers is therefore the protocol of the library, and its kernels. Much of the rest of its headers is declarations with
documentation (`Map.h`, `Vector.h`, ...), debug output, and forwarding overloads.

## 6. Plan

Done: everything above. What would come next, in this order:

1. `Zip`, `Reduce` and `Scan` as calls of `SkelCL`, so that their transfers overlap with those of other calls.
2. Proofs: `CopiesAgree`, `WellFormed`.
3. Unequal significances, with products rounded as floats.
4. The combine function of a copy distribution.
5. The executor's life cycle, and the selection of devices.
