# TLA+ models of iccDEV (IccProfLib)

This directory holds TLA+ modules, TLC configurations and TLAPS proofs about the
ICC profile library of this repository. `src/IccProfLib/` is the library; the
other directories are XML and JSON front ends, command line tools and build
files around it. The modules model control: which object owns what, in which
order things are read, written, shared and deleted, and what threads may do at
the same time. Colour arithmetic is floating point; of it only the order in which a
conversion decodes, scales, offsets and encodes is modelled, with exact numbers.

## 1. Inventory

### Parts and how they interact

| part | state it keeps | operations | talks to |
|---|---|---|---|
| `CIccProfile` (IccProfile.cpp) | tag directory `m_Tags`, owned tags `m_TagVals`, attached IO `m_pAttachIO`, `m_bSharedIO`, header | Attach, Read, ReadTags, FindTag, LoadTag, AttachTag, DeleteTag, Detach, CopyAttach, Write, copy, assignment, Validate | IO objects; tags (calls `Read`, `Write`, `ReadAll`, `DetachIO`) |
| `CIccIO` family (IccIO.cpp) | position, length, buffer or file, for embedded IO a window of another IO | Open, Close, Seek, Tell, Read*, Write*, Align32, GetLength | files, each other |
| `CIccCmm` (IccCmm.cpp) | list of transforms, first and last colour space, `m_pApply`, `m_bValid` | AddXform (five forms), Begin, CheckPCSConnections, GetNewApplyCmm, Apply, RemoveAllIO | profiles (takes ownership), transforms |
| `CIccApplyCmm` | apply objects of the transforms, two pixel buffers, two chunk buffers | Apply one pixel, Apply many pixels | transforms |
| `CIccMruCmm`, `CIccMruCache` | linked list of recent pixels over a fixed array | Attach, Apply, Update | a wrapped CMM |
| `CIccThreadedCmm` (IccCmmThread.cpp) | one worker apply object per thread | Attach, Apply many pixels in strips | a wrapped CMM, `std::async` |
| MPE chain, calculator, LUT tags | element lists, operator stacks | Read, Write, Begin, Apply | IO, each other |
| Dict, array, struct, sequence tags | sub-element tables with offsets | Read, Write, lookup, copy | IO, tags |
| UTF conversion, sparse matrices, search | none between calls | pure algorithms | |
| IccXML, IccJSON | none beyond the library's | parse and print | library |
| IccConnect | CMM configuration | builds a CMM and wraps it | CMM, threaded CMM |
| Tools, ConvertSingle, ConvertBulk, Utils | files | run a CMM over data | library |

### What is hard in this code

* *Lazy loading.* A profile attached to an IO object has entries without objects.
  Loading, editing, writing, copying and detaching can happen in any order, and
  entries alias objects by offset.
* *Ownership by convention.* Raw pointers: profiles, tags and IO objects have
  owners that change with `AttachTag`, `DetachTag`, `CopyAttach`, `AddXform`.
* *Failure part-way.* `Write`, `Read`, `Attach`, `AddXform` and `Begin` can fail
  after they changed something.
* *Threads.* A multi-pixel Apply runs strips at the same time; several apply
  objects may be used at the same time against one CMM.
* *Boundaries.* 32-bit offsets, sizes and products; a cache of size one; a strip
  count larger than the pixel count.

What makes each part correct is stated, property by property, in section 3; the
list of hazards with their lines is in `PROJECT.json`.

## 2. Plan

Modules in the order of how much of the library depends on them:

1. done: `IccProfile`, the profile container, and its proofs;
2. done: `RecentPixels` (abstract) and `MruCache`, which implements it, and its proofs;
3. done: `CmmApply` and `CmmThread`, one apply object and the strips of the threaded CMM, and
   proofs;
4. done: `CmmChain`, the list of transforms and what Begin makes of it, with `PcsSteps`, the
   steps of the conversions Begin puts in and how they are optimized, and proofs about
   ownership;
5. done: `CalcOps` and `CalcElement`, Begin's check of a calculator function against what
   the interpreter does with it, and proofs;
6. done: `TagFormats`, `ElementFormats`, `CompoundFormats` and `TagCodec`, every tag and
   element that owns no others between files and memory, and their proof;
7. done: `DocFormats`, the same through XML and JSON documents, and its proofs;
8. done: `TableFormats` and `TagContainer`, the tags and elements that own others, and
   their proofs;
9. done: `Lookup` and `Evaluation`, what a transform does to a pixel: interpolation, the
   stages of lookup tags, the element chain's buffers, and proofs;
10. next: the layout of a written profile, byte by byte: Write and Align32 against
   CheckTagLayout (IccProfile.cpp:3142-3271), with sizes, padding, and offsets modulo
   2^32; `IccProfile` uses one size for every tag;
11. `IccIO`: seek, tell and length of memory, file and embedded IO objects, composed
    with the profile's sub-profile attach;
12. how a client edits dictionaries, localized texts and sequence tags;
13. pure algorithms against a reference definition: UTF-8/16/32 conversion over bounded
    code units, products of sparse matrices on their index rows;
14. the XML and JSON forms of a whole profile: header, tag list, containers;
15. CMM search and IccConnect: who owns the profiles they hand to CMMs, composed with
    `CmmChain`.

Abstract specifications: `RecentPixels`; for the profile a map from signatures to
payloads which CarefulSpec implements; for the threaded CMM a single sequential Apply.

Theorems to add: `Reloads` and `Settles` of `TagCodec`, for which each codec needs lemmas of its own;
`ChainConnects`, for the headers of which it is true.

## 3. What is modelled and checked

### Profile container: `IccProfile`, `MCIccProfile`

A directory is a function on node numbers because `m_Tags` is a `std::list` whose nodes
keep their address. An entry has a signature, an offset and a pointer (`pTag`), and the
history field `listed`, the payload it stood for when it entered the directory. Tag
objects live on a heap (`data`); a file has a tag table and what `CIccTag::Read` makes of
the bytes at each offset. `New`, `Delete`, `Attach`, `Read`, `FindTag`, `ReadTags`,
`AttachTag`, `DeleteTag`, `Detach`, `CopyAttach`, `Copy`, `Assign`, `AddXformCopy` and `Write`
are the functions of these names; `AttachOrReadFails` and four `WriteFails...` actions
are the ways in which they stop half way, so a full disk or a damaged file can occur at every
point of a write: in the header or the count, in the table written first with zeros, in the tags, and
in the table written again. A failure after that, while the size or the ID is put into the header,
leaves what `Write` leaves. `Spec` calls them in any order. `CarefulSpec` keeps the habits the
repository's own callers have (named above its definition) and is what the properties
about payloads are stated for.

| run | question | instance |
|---|---|---|
| `profile_save` | types, ownership of entries, what Write writes | one profile, an initially empty file, 3 objects, 3 signatures, 3 nodes, both payloads |
| `profile_careful` | files saved by careful clients, profiles that copy, borrow and assign: entries are never mixed up, IO objects are closed once | two profiles, a source file with two tags, a target file, 4 objects, 2 signatures, 3 nodes; two profiles only until something was written |

Three nodes are enough for two aliases of one object and a third entry that is unrelated,
between or after them. Two profiles are the most any operation takes; a third would only
repeat the pair. The size of every tag is `TagBytes`; offsets depend on the number of
entries and of objects written before, as in the code. There is no fairness: nothing
here must happen, and TLC reports a deadlock if no call were possible.

The habits leave out one thing the code breaks: after a Write of a profile that was
attached and not fully read the offsets in memory belong to two files, and a later `LoadTag`
(IccProfile.cpp:1486-1492) equates them and replaces the object of a loaded entry. Under `Spec`
`EntriesFaithful` does not hold for that reason. Nor does `IOOwned`: a profile that borrowed an IO object and
then attaches one of its own never closes it, `CopyAttach` forgets the one the profile has, and a profile
without tags that is attached again loses its IO object. `WriteIsFaithful` speaks of the loaded
entries: what was not loaded is not written.

### Recent pixels: `RecentPixels`, `MruCache`, `MCMruCache`

`RecentPixels` says what the cache promises: a sequence of distinct pixels, most recent
first, each with its transform; an answer is the transform of the pixel asked for.
`MruCache` has the array of cells, the `pNext` links and the three local pointers of
`CIccMruCache::Apply`, one action per turn of its loop and per branch after it. The history
variable `order` is the order in which the cells ought to be linked, and gives the
refinement mapping.

`mru_cache` checks the list, the contents, that each request returns, and the refinement, with
three cells and four pixels: the smallest cache in which the hit cell can be the first,
the last and in between, and one pixel more than fits, so every request order that
evicts, re-links and evicts again occurs. Fairness is `WF_vars(Serve)`: a thread inside Apply
runs on; the client need not ask. The instance leaves out two cases in which the code
breaks these properties: a cache of size one, which `CIccMruCmm::Attach` accepts and in
which an eviction links the cell to itself (`CacheSize = 1` breaks `ListSound` and `ApplyReturns`), and a wrapped
CMM that fails, whose status is dropped (`CanFail = TRUE` breaks `CacheCoherent`).

### Apply and threads: `CmmApply`, `CmmThread` and their MC modules

`CmmApply` is one apply object: the buffers `InitPixel` allocates (all, some or none), and
the loop over chunks, in which the first pass reads the source and the last writes the
destination, as two steps so that others run in between. A `worker` is one such object.
`CmmThread` composes `nThreads` of them with the calling thread: it computes the strips,
launches all but one, runs its own, collects; or `std::async` throws, and the destructors
of the futures wait. `CmmApply` has a second client, `ClientSpec`, that calls apply objects
of one CMM from threads of its own.

`thread_apply` takes three threads and up to seven pixels in chunks of two: remainders of 0, 1
and 2 pixels, fewer pixels than threads, strips of one chunk and of several, and
different sample counts on the two sides. Fairness: every thread that can run is scheduled
(`WF` of the caller and of each strip); nothing is assumed of the client. Deadlock is not
checked because a program that used a missing buffer has stopped. No strip of the instance
starts beyond the width `Word` of the 32-bit product in which its start is computed
(with `Word = 16` `Converted` breaks). `client_mru_threads` runs two threads on two apply objects of a `CIccMruCmm`.

### Chains: `CmmChain`, `PcsSteps`, `MCCmmChain`

The list `m_Xforms`, the four fields by which `AddXform` judges the next profile, the profile
objects with their IO and loaded tags, and the list an apply object was made from. A profile
file is its header and the families of transform tags it holds; `Create` chooses
among them as the code does, and makes a transform that owns the object. `AddXform`,
`AddXformByReference`, `Begin` (range conversions, each transform's Begin, PCS
conversions, the apply object), `NewApply`, `RemoveAllIO` and `DeleteCmm` are the public
operations; any allocation, factory or arithmetic check on the way may fail.

The spaces of multiplex channels (`MCS`) are compatible with each other whatever their number of channels. Among the
tags `Create` falls back to, a `DToB` or `BRDFDToB` tag of another intent than the one asked for counts as colorimetric, as
`bUseSpectralPCS` is set before the search for it (lines 613, 1011).

`PcsSteps` has a conversion's list of steps: which steps `Connect`, `ConnectFirst` and
`ConnectLast` push for each pair of spaces, which failure ends them, and the passes in which
`Optimize` joins neighbours and drops what changes nothing. Numbers are abstracted: all
channels of a pixel have one level, and levels are calculated with modulo a prime, where, as
with real numbers, what is not zero divides and every level has one cube root. A white is its own
level, an encoding a factor, a matrix or a spectrum a factor and its size, and steps applied in
another order, twice, or with another side's data give another level. `ColourCarried` compares
what the optimized steps make of each level with what the two sides mean by it: the second half
of `PcsSteps` says that without steps. Left out are luminance matching (a hint), spectra that
cannot be mapped, and the piecewise linear ends of the cube root.

In these places the code does something else, and `ColourCarried` leaves them out: a Lab client before a
first transform that takes XYZ, for which `ConnectFirst` pushes no XYZ encoding (line 2567);
the PCS of a client at whose end is an abstract profile taken for a device, which `CheckPCSConnections`
never converts; a client's colorimetric space against a spectral end; spectra of a profile without viewing
conditions, from which nothing is pushed although the call succeeds, and a bi-directional reflectance
whose conditions lack an illuminant or an observer spectrum, of which the same is true. `PushToXyz` also keeps that the status of
a bi-directional reflectance on its way to Lab is not looked at (line 2452), and `ConnectMcs`
that the channels two multiplex sides must share are compared index by index (line 2163).

`cmm_chain` offers twelve profiles, one for each way in which `AddXform`, `Create` or `Connect`
treats a class or a header field differently: input with an MCS, extended range and legacy Lab;
matrix, with a PCS of its own to adjust; output with preview and gamut tags, another adjustment and
a custom observer; abstract; device link; reflectance, radiance and bi-directional reflectance in
two spectral ranges; the three multiplex classes, one of which has a white of its own and one its channels in
another order; colour encoding. There are four connection conditions: two standard ones
of different white, one that a matrix and one that an element takes to the standard. Among the
41 levels (`Modulus`) no two of the factors given are equal or inverse to each other. Up to three objects make chains of three, an object
refused in every position, and a copy next to its original; a link looks at its
neighbour only, so a fourth would add no new case. The CMM starts without
spaces, or between two clients' encodings, Lab or XYZ, with an output profile first. TLC reaches
1.5 million states in one to two minutes. No fairness; the
deleted CMM has no further step, so deadlock is not checked.
`cmm_chain_strides` is the finding about the sample counts of the conversions at both ends.

### Calculator: `CalcOps`, `CalcElement`, `MCCalcElement`

`CalcOps` says of each operator what the static check takes it to pop and push and what the
interpreter does pop and push, which the code computes in two places. `CalcElement` has the
function as `CIccCalculatorFunc::Read` leaves it, the checks Begin makes (as recursive functions over
its parts), and the interpreter with the nested calls of `ApplySequence` as a stack of `frames`,
one action per kind of operator and per way to return. A value is not modelled: a condition
or selector is any.

`calculator` runs every function of up to three of fifteen operators, parsed functions with if,
else, sel and dflt nested three deep, and those with one size changed, on a stack of seven
values and a nesting limit of two, so that both limits are met; `MaxTemp`, 65536 in the code, is four. The `Begin` of
a sub-element may refuse. `InBounds` is about every function, with one exception, because `tran` and `solv` multiply two 16-bit counts in an `int` (lines 580 and 618): where the product
wraps around the comparison with the stack passes, and the operator then works on cells beyond
the stack (`ExecLeavesStack`, phase "lost"), or asks a vector for a negative size, which throws
(`ExecThrows`). `InBounds` says that nothing else leads there; that the width of an `int`, `Word`, is
64 here lets it happen with counts of eight. The solver is the library's own
(`IccProfLibConf.h:180`), which reads the cells the counts name. `AcceptedNeverFails` and `DepthForeseen` are about well nested functions (an instance assumption has
TLC confirm that everything `ParseFuncDef` writes is), but for sel without dflt,
solv of unequal counts and counts cut to the stack's limit (what wraps around is cut, too), where Begin's
estimate and the interpreter differ; `TempsFresh` about those the analysis of temporary channels follows.
Fairness: a call of Apply runs on. Deadlock is not checked because a refused function is
the end. `calc_stale_temps` is the finding about the functions it does not follow.

### Evaluation: `Lookup`, `Evaluation`, `MCEvaluation`

`Lookup` has every interpolation of the library: tag curves, sampled segments, the two kinds of
sampled curve elements, tables of one to five and of more inputs, tetrahedral or not, and arrays of
vectors. A source is a number of fractions of `1/Unit`, or no number, or infinite; what a
lookup gives is the set of the entries it reads with their weights, before they are added.
`Evaluation` makes a transform of a tag or a chain (`Begin`), takes its curves out as a caller may
(`ExtractCurves`), makes an apply object, and takes pixels through the stages of the
tag, or through the elements with the two buffers of `CIccDblPixelBuffer`. A pixel is the list of
what was done to it and how many channels of it were written.

`evaluation` has about twelve hundred transforms: every side, class and combination of curves of
grey, matrix and lookup tags, chains of up to four elements with some that are skipped, and curves and
tables alone, with every source around every grid point. `Unit` is four, so that a source can lie on, next to and
between grid points; the second pixel finds what the first left in the buffers. `IndexRange`, 2^16
in the code, is four, above some curves and below others. A pixel is done when it is done and
no pixel need come: deadlock is not checked and there is no fairness. TLC reaches 86,887 states in
about a minute and a half.

The properties leave out what the code does otherwise: with four inputs the first is compared with the second's
last grid point (IccTagLut.cpp:2980); an array of integers takes the wrong branch in
`Interpolate`, which tests `!zeroVals` where the floating-point arrays test `zeroVals`; the scratch memory of
a spectral table of seven or more inputs is measured before Begin has counted its nodes (IccMpeSpectral.cpp:1252); a
curve tag keeps its last index in 16 bits and is misread with more than 65536 entries (IccTagLut.cpp:529);
a sampled curve or segment whose first entry lies above its last, which `Read` takes unchecked (IccMpeBasic.cpp:1643, 2323) and
`Begin` refuses only when the two are equal (1181, 1780, 2417), is never interpolated, as every source is below the one or
above the other (1833-1838): it reads inside its table, and `Interpolates` says that of it, but what it
gives is no line through its entries (`Reversed`);
`NoClip` makes both infinities the same large number (IccMpeBasic.cpp:5508); lookup tags of four
or more inputs that begin with a matrix ignore their M curves, and those of four without a table leave outputs beyond the
fourth as they were; and an element that cannot be appended is left out without an error (IccTagMPE.cpp:1457).

### Tags, elements and their documents: `TagFormats`, `ElementFormats`, `CompoundFormats`, `DocFormats`, `TagCodec`

`TagFormats` and `ElementFormats` have for each tag and element what its `Read` makes of an image (the
size in the directory, the header fields that say how much follows) and what its `Write`
makes of an object. Most are plain: a header and elements of one width, described by a record; the
others have a pair of operators named after them. `CompoundFormats` has the tags made of
several texts, curves or matrices: localized text, dictionaries, profile sequences, response
curves, sparse matrices, segmented curves, lutAtoB and lutBtoA. Their parts are alike and lie
where Write puts them, save for strings that share their bytes, so one record still tells of
all: how many parts, how large, which of them are there. `DocFormats` says what comes back of an object
after `ToXml` and `ParseXml`, or `ToJson` and `ParseJson`. `TagCodec` takes one object through
`Read`, `SetSize`, `Write` and `Read` again, or through documents and back.

`tag_codec` offers each format sizes and counts on both sides of each comparison. `Word`, 2^32
in the code, is 2^24, above every count offered but those that are meant to wrap.
Four saves (`MaxSaves`) are one more than the longest time to come to rest, two documents
(`MaxDocs`) are what `DocumentSettles` compares. The properties name what the code does otherwise:
the formats whose `Read` reaches past its tag (`Overruns`; a spectral table's number of inputs is cut to a byte on the way to
the table, so that 257 of them make a table of one input whose size nothing is compared with), the objects that are written
and refused (`WriteOnly`, descriptions longer than `Read` allocates for among them), and what documents forget (`ForgottenInXml`, `ForgottenInJson`).
Counts do not show all that a document loses: a dictionary's names come out of JSON with as
many characters, half of them NUL. A sparse matrix is taken to have its entries in as many rows
as it can. TLC reaches 2,348,508 states in about half a minute, all of the instance.
The code has no state that waits, so there is no fairness; a refused image is the end.

### Containers: `TableFormats`, `TagContainer`, `MCTagContainer`

Element chains, structs, arrays, curve sets and tone maps keep elements by raw pointer, often
one in several slots, and write a table of positions in which shared elements share an
offset. `TableFormats` has their tables: what Write makes of a content, what Read makes of an
image and where it stops. `TagContainer` has containers of one kind over a heap of elements; each
operation is the function of that name. The habits of the callers that the guards keep are
named at the top of the module. A tone map keeps its number of inputs (`inputs`) apart from its outputs:
`SetNumOutputChannels` changes the one only (IccMpeBasic.cpp:4468), `Write` stores both and `Read` refuses them unless the
inputs are one more, so that a tone map resized since it was made is written and refused (`WriteOnly`). Its `Write` has room for the positions of
16 functions (`FuncPositions`) and writes beyond them for more, so `Writable` stops there. `AttachTag` and `SetCurve` accept
the index just behind the last slot and write there (IccTagComposite.cpp:1642, IccMpeBasic.cpp:3242); no caller
passes it and the model takes the slots there are.

`tag_container` has two interchangeable containers, four addresses and three slots: one element
in two slots next to another, a copy of it, and the moment at which an assignment or a
failed Read replaces one by the other. Files have up to two entries whose positions are right,
shared, of unequal size, out of the tag, empty, inside the table, or unreadable.

### Findings

| run | kind | what |
|---|---|---|
| `client_mru_threads` | documentation | apply objects of a CIccMruCmm share one inner apply object (IccCmm.cpp:11869) |
| `cmm_chain_strides` | code bug | end conversions have no sample counts, so ApplyN does not advance (IccCmm.cpp:2545, 2613) |
| `calc_stale_temps` | code bug | temporary channels of a calculator are not zeroed where they should be (IccMpeCalc.cpp:4151) |

## 4. What is proved

All theorems hold for every value of the constants that meets the modules' named assumptions
(named in each module next to its constants) and the hypotheses the theorem itself states.

*`IccProfile_proofs`.* `TypeCorrect`: `Spec => []TypeOK`, action by action. `EntriesAlwaysOwned` and
`TagsHaveOneOwner` follow from one inductive invariant, `EntriesOwned` with `OneOwner`: that no two
profiles own an object is needed to know that freeing one profile's tags leaves the
other's entries alone. Most actions only change one profile's set of objects, to objects
that were free or its own, so they share one lemma, `OwnershipChange`.
`WritesAreFaithful` is about the step in which Write succeeds: the object of an entry is written for
the first entry that names it, so two entries get one offset exactly when they name one object; that first
entries differ in offset is a count, because the set of objects written before grows strictly from
one to the next.
For careful clients there are `CarefulEntriesFaithful`, `CarefulIOOwned` and `CarefulOneOwner`.
Their invariant adds that a profile with an IO object has offsets of that object's file (else a lazily loaded
entry could get another's payload) and that a borrowed IO object is gone between calls.
`EntriesFaithful` alone is not inductive: loading by offset preserves it only while no entry
has an offset of another file.

*`MruCache_proofs`.* `IInv` is `TypeOK`, `ListSound`, `NoDuplicates`, `Filled` (a cell in use
holds a pixel) and `Walking` (inside the loop, `i` cells were passed, none holds the pixel, and
the pointers are the `i`-th cell, the one before and the one after). Without `Walking` a miss
could insert a pixel that is cached further on. `Hit` and `Evict` both move one
cell to the front; that this keeps the list sound is one lemma, `Relinked`. `ListAlwaysSound`,
`PixelsCachedOnce` and `TypeCorrect` assume `CacheSize > 1` and hold whether or not the
wrapped CMM fails; `CacheAlwaysCoherent` and `ImplementsRecentPixels`, the safety half of the
refinement, also assume that it does not. TLC finds a counterexample without either.

*`CmmThread_proofs`.* The invariant has two halves. `ControlInv` says who runs: a strip runs only if
it was launched, the caller holds the status of those it has collected. `NoStripAfterReturn` and
`StatusAlwaysHonest` follow from it alone, for any CMM and any image. `DataInv` says what the
destination is: `Image`, the converted sample where a strip has come past the pixel, what was there before
everywhere else; a strip between reading and writing a chunk holds the sources of exactly that chunk.
That strips lie next to each other and end where the pixels end is arithmetic on quotients and rests
(`Division`, `SamplesOfPixels`), done from uniqueness of the quotient.
`AllConverted`, `StripsAlwaysBalanced`, `NothingWrittenTwice` and `TypeCorrect` assume `NoWrap`: that the
number of samples on either side is below `Word`, as strip starts are computed in 32 bits and wrap
beyond, and that apply objects do not share buffers, as those of a `CIccMruCmm` do. TLC has a
counterexample without either: the note on `Word` in section 3, and the finding of `client_mru_threads`.

*`CmmChain_proofs`.* `ProfilesHaveOneOwner`, `NothingDangles`, `LentIOReturned` and
`RefusalsKeepProfiles`, for any set of profile files, chain length, conditions and failures.
Ownership is stated with the set of objects *outside* the chain: the client's and, inside
AddXform, the one it was given or copied and may have to delete. While a chain is built
(`Growing`) each of its transforms owns an object; after Begin, transforms of range
conversions borrow, each next to the owner. Begin's insertions are one operator,
`Interposed`, and that each old transform occurs in its result once is shown by counting
the insertions before it.

`ColourIsCarried` is about the steps between transforms, in four layers. Levels form a field: what the proofs
need of it (a factor that is not zero can be undone, the cube root is a function) follows from
`LevelsAssumption`. A list of steps *fits* when each reads the channels the one before writes
(`Fits`), and `Goes` says that such a list takes one level to another; each push goes on from the
one before (`GoesOn`), and `OptimizeKeepsColours` shows that no pass of `Optimize` changes where a
list goes. `ConversionsKeepColours` is the case distinction of `Connect` over the
encodings, conditions and ranges of two sides: what is pushed goes from a level to the one of the
same colour, or fails. Last, the layout: Begin puts before, between and behind the transforms exactly what
it pushed for the place (`Handed`), so that the transforms it leaves carry (`Carried`). The inductive
invariant joins `ChainInv` with `CarriedInv`, that nothing is applied before Begin succeeds and that what it left then
is carried. Assumed are named facts of the constants: what kinds of spectral space there are
(`SpacesAssumption`), that a header's spectral spaces have as many samples as its ranges have steps
(`HeaderAssumption`), that Lab and XYZ have three (`SamplesAssumption`), and that whites and custom
factors are not zero (`PccAssumption`).

*`CalcElement_proofs`.* `StaysInBounds`: `InBounds` for every function, element, stack and nesting
limit, and for every width of an `int` that holds twice the stack (`WordAssumption`). It is inductive with the types of the variables: a call is made only of a part
that `icCalcSubSequenceFits`, and an accepted function names only channels that exist.
`AcceptedFunctionsNeverFail`, `AcceptedFunctionsEndForeseen` and `TempsStayFresh` are about what Begin
computes of a function and what the interpreter then does with it, for programs of any length and nesting.
The static check, the nesting depth and `SequenceNeedTempReset` are recursive functions on places of the
program. First each is shown to exist: with the operators that are left as measure it calls itself on
smaller places only (`RecursionExists`, `SameByMeasure`), and so equals its own step. Then the nested
calls of `ApplySequence` are related to it. `Tracks` says, for any such analysis, that there is a
list `xs` with one entry per call, which the analysis would have there, such that each part from where it
goes on gives what its caller was promised, and the outermost the result for the whole function. There are three
lemmas about it, for a part that goes on, a branch that begins and one that ends. For the check
the promise is a bound: the depth of the stack is at least (at most) the one counted (`Held`), so there is
always enough to pop, and the nesting that is left fits the limit (`Shallow`); `Foreseen` joins the two.
For the temporary channels the promise is that what the analysis reckons with after an if is fresh already
or written by the branch at work (`Grown`); `TempsInv` adds that all are fresh when they were zeroed.

*`Evaluation_proofs`.* `LookupsInterpolate`: `Interpolates` for tables of up to 16 inputs and any
grid, curves and arrays of any size, and all sources that are multiples of the unit, no number and infinity
among them. What a table and a curve have to be is `TablesAssumption` (`ClutBegins`, `CurveBegins`,
`CurveEnds`): what `CIccCLUT::Init` and the curves' Begin refuse otherwise. The invariant `ApplySound`
only says that an apply object has room for the nodes of its tables and elements of its chain; the work
is in four theorems about one lookup. `TablesReadInside` goes from offsets to nodes: the
distance between neighbours is a product of grid sizes (`Strides`), the offset Begin computes for a corner is
the sum of the distances its bits ask for (`Offsets`), so the entry read is the node
one up along those inputs (`CornersAreNodes`), and a node on the grid is in the table (`NodeInTable`). For two
inputs it follows that the cut in `Interp2d` never moves a cell (`NotKeptBack`). `LinearAsMeant` then
compares products: every grid point has the coordinates of one node (`NodeOfCoordinates`) and is
near along every input only if it is a corner of the cell (`NearTheCell`); every choice of ends of a cell is a corner
(`CornerFor`), and the factors agree. `TetraAsMeant` counts the levels between the parts of
the source (`LevelsAre`). `CurvesAsMeant`: below, inside and above the ends an Apply is the line of
`MeantLine` (`LineBelow`, `LineInside`, `LineAbove`). Products and sums are recursive functions that are
shown to exist (`BuiltUp`), powers of two are the function `TwoTo`.
`CellInTable` and `CurvesReadInside` are the steps before: the cell that is interpolated in exists,
for curves of every kind too, the reversed ones that `CurvesAsMeant` is not about among them. `TetraWeights`: the corners that tetrahedral interpolation goes
through have weights of 0 to 1, for each of the six orders of the fractions.
`ChainsCarryPixels` has as its invariant where a pixel is after the first `k` elements (`Carried`): the
source, the buffer that is read next, or the destination, with the channels of the
`k`-th element; that neighbours agree, which Begin checks, is what makes the next element sound.
`StagesKeepOrder`: what was done to a pixel and what is left are always the steps Begin chose
(`LutCarried`), so that at the end only lists are compared. The steps and the order of the tag are both
what `Kept` keeps of a list; curves that were taken out are the first or the last of it
(`MadeUp`). The lemmas about lists are stated for elements of any kind. The last two hold with the exceptions
the properties name (`Dropped`, `Unwritten`, `Incomplete`), for every transform that meets
`TransformsAssumption`.

*`TagCodec_proofs`.* `FormatsContained`: `Contained` for every size, count and header field. The
invariant says that an object in memory that was not saved yet, and did not come through a document,
is what Load made of the image; then there is one lemma per format with arithmetic of its own.
The formats of `Overruns` are excepted, because their Read does reach past the tag.
`DocumentsReload` and `DocumentsSettle` are for every object that a file or a
client can make. For each type the rereading of an accepted object is shown to be what was
written, or to be stable: what came out of a document once comes out of it again. The
invariant `DocsInv` says that after a first document the object is such a result, and that before it the
object is one Load or SetSize can make (`Sound`), without which a table's channel counts or a description's marks could
be anything.

*`TagContainer_proofs`.* `ContainerElementsOwned` and `NothingLeaks`, for any number of containers,
addresses, slots and files. The invariant joins the two properties with the types and one fact more: the
curve of a tone map stands in no other slot, because `SetLumCurve` deletes it unasked.
Everything that builds a content (copying, assigning, reading) is one lemma about `Filled`.
`ContainersReload` is proved in two parts. `Placed` says what Write makes without speaking of sums: elements
lie behind the table and inside the tag, equal ones at one offset, others apart (`WrittenPlaced`,
from the partial sums `Ends`); any image that is so placed is read back (`ReadsBack`). The
second inductive invariant, `Whole`, says that what a good container holds has its bytes and that chains and
structs have no empty slot; it needs that a Read that succeeds made each of its elements from
the file, and that every other container's elements are spared. `ReadsStayContained` needs no history: it
is about every table of positions there can be, given that an element has at least its signature and that
where a tone map itself begins there is neither a curve nor a function (an offset of 0 is
not compared with anything).

Where a definition is recursive over a sequence the proofs use the least-number principle (`LeastOf`): the
least index at which a recursive function of the model does not exist, or a claim fails, cannot be.
This works for functions that are recursive over numbers, not for RECURSIVE operators.

Model-checked only: `ChainConnects` of `CmmChain`, which is not true for every value of the constants:
of a spectral source without viewing conditions, or with a flat illuminant, `Optimize` may leave no
step at all, and a header can name a space its class may not have; the interleavings of `CmmApply`'s second client; `Reloads` and
`Settles` of the codecs; every liveness property (`ApplyReturns`, `ApplyEnds` and the
liveness half of `RefinesRecentPixels`), because the prover has no ENABLED and no fairness
reasoning. The type invariants of `MruCache` and `CmmThread` are proved and not checked by a run; that of
`CmmChain` only says what the variables are.

## 5. What is not modelled

* Floating-point arithmetic: formula and parametric curves, matrices, colour appearance,
  spectra, black point compensation. `PcsSteps` and `Lookup` have exact arithmetic instead;
  rounding is in neither. The order of the stages of a pixel is modelled, not the colours.
* Rendering intents, late binding, luminance matching, environment variables and other
  hints: they choose within a tag family or change the arithmetic.
* In a profile: sub-profiles, `ReadValidate`, the rules of `Validate`, header fields.
* In the chain: that `AddXform` by reference drops the borrowed IO before Begin, which still
  loads tags, is in the model (`ProfileMissingTag` of `XformBegin`), but nothing in the
  repository says what should happen. Not in it: `AddXform` of a caller's own transform (no caller), the named colour CMM
  (its own class with its own list), a second Begin (no caller), and Begin with transforms
  that convert their own PCS (no caller). `ChainConnects` leaves transforms to or from an MCS out.
* Conversion in place, and `Attach` and `Init` of the cached and the threaded CMM.
* Small guards of an evaluation: `Interp3dTetra` does nothing for more than 16 outputs
  (IccTagLut.cpp:2729), and an element chain whose PCS is adjusted by the transform itself has a stage of its own
  (`m_bPcsAdjustXform`, IccCmm.cpp:7972).
* Of tags and elements: `Describe` and `Validate`; the embedded profile; files whose parts
  differ in size. Values are not modelled, so that
  `Reloads` is about sizes, counts and marks.
* Of documents: the profile's header and tag list, containers, calculator sources and macros,
  files included from a document, how numbers are printed, markup inside texts.
* The IO classes, UTF conversion, sparse matrix products, CMM search and IccConnect: planned,
  see section 2.
* Command line and window tools, test data drivers, build files: user interfaces and file
  I/O around library calls.
