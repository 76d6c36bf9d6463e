# RuNda, specified in TLA+

RuNda (`src/runda`) is a morphological analyzer: it cuts a sentence into words
with a dictionary and a table of connection costs, by a Viterbi search over the
lattice of all words that could be there. Beside the analyzer the repository
holds the tools that build its binary dictionaries and the trainer that learns
the costs. This directory models the program in TLA+, checks the models with
TLC on small instances, and proves with TLAPS what matters most of its
concurrent core, its sessions, its dictionary images and its feature numbers.

## 1. Inventory

| Component | Code | State it keeps | Operations | Interacts with |
|---|---|---|---|---|
| Readers-writer lock | `thread.h` 74-140 | `l_`, `write_pending_` | `read_lock`, `read_unlock`, `write_lock`, `write_unlock` | `ModelImpl::swap`, `TaggerImpl::parse` |
| Shared model, hot swap | `tagger.cpp` 79-153, 339-443 | `viterbi_`, `request_type_`, `theta_` | `open`, `swap`, `createTagger`, `createLattice`, `lookup`, `transition_cost`, `dictionary_info` | every tagger made from it, concurrently |
| Tagger and Lattice | `tagger.cpp` 155-337, 445-1034 | request type, theta, sentence, node lists, constraints, output buffer, error text | settings, `set_sentence`, `parse*`, `next*`, `toString`, `enumNBestAsString`, `set_result` | model, Viterbi, N-best search, Writer |
| Tokenizer | `tokenizer.cpp`, `char_property.h` | dictionaries, unknown-word tokens (fixed after `open`) | `lookup` | called by Viterbi at each position |
| Viterbi | `viterbi.cpp`, `connector.h` | none of its own between calls; fills the lattice | `analyze` and its phases | Tokenizer, Connector, Lattice |
| N-best search | `nbest_generator.cpp` | agenda of partial paths | `set`, `next` | rewrites the links of the lattice's nodes |
| Memory pools, output buffer | `freelist.h`, `tokenizer.h` 21-100, `string_buffer.cpp` | chunks and a cursor; size and error flag | `alloc`, `free`; `write`, `clear`, `str` | Lattice |
| Dictionary image, double array | `dictionary.cpp`, `darts.h`, `mmap.h` | arrays of the image | `compile`, `open`, searches | Tokenizer |
| Connection matrix | `connector.cpp` | matrix | `compile`, `open`, `cost` | Viterbi |
| Trainer | `learner.cpp`, `learner_tagger.cpp` | weights, observed and expected counts, worker threads | `read`, `gradient`, `eval`, iteration | feature index, L-BFGS, Tokenizer |
| Feature index | `feature_index.cpp` | feature to id map, feature cache | `id`, `shrink`, `reopen`, `save`, `convert` | Trainer, dictionary costs |
| L-BFGS | `lbfgs.cpp` | history of steps | `optimize` | Trainer |
| Character properties | `char_property.cpp` | map of code points | `compile`, `open` | Tokenizer |
| Context ids, rewriting | `context_id.cpp`, `dictionary_rewriter.cpp` | rule lists, id maps | `rewrite`, `lid`, `rid` | dictionary tools |
| Writer | `writer.cpp` | the format in force | `open`, `write`, `writeNode` | Lattice |
| Param | `param.cpp` | options | `open`, `load`, `get`, `set` | every `open` |
| Drivers, bindings, support | `runda*.cpp`, `librunda.cpp`, `utils.cpp`, `ucs.h`, `swig/`, `python/` | none | forwarding, conversions | |

The behaviours that are hard to get right, and hard to test:

* *Concurrency.* Threads parse with a shared model while another replaces its
  dictionary. A hand-made spin lock of two words protects `analyze` and the
  assignments of `swap`, and nothing else.
* *Lifetime.* Nodes point into a dictionary image owned by the Viterbi that
  `swap` deletes, and into pools that the next sentence reuses.
* *Search.* One lattice is read in five ways (best path, all morphs, marginals,
  N-best, constrained), each over the same linked lists, some of which are
  rewritten on the way.
* *Boundaries.* White space before a token and at the end, runs of characters
  that stop at a group, boundaries that clip the dictionary search.
* *Call protocols.* Settings are copied from model to tagger to lattice and
  partly reset on the way.
* *Build.* Number and index of homographs packed into one value, an array that
  grows while it is probed, bytes that change their order when they are
  converted.
* *Files.* A dictionary is five files, compiled by separate commands from
  definitions that change; the compiler may be killed, its disk may be full, and
  an analyser maps the files one after another.
* *Training.* Features renumbered under counts and weights already read,
  fork-join workers over shared vectors, a test of convergence that divides.

What makes each component correct:

| Component | Properties |
|---|---|
| Lock | mutual exclusion, exact words, writer preference, refinement of an abstract lock, no starvation of the first waiting writer, of announced readers, and of readers once writers stop |
| Model swap | analysis on a live, current Viterbi; each replaced Viterbi deleted exactly once; settings of one model together; swaps return |
| Lattice | least-cost path; exact marginals; links that show exactly the result; constraints on every path |
| N-best search | each path once, cheapest first, then "no more"; `next` always answers |
| Session | answers that depend only on the caller's own text, settings and progress; request types and theta in force when analysis begins; no node of an earlier sentence is read; the sentence is never overwritten; no text is lost without an error; strings in the pool do not overlap; the pool grows only by strings as long as a chunk |
| Dictionary image | a search finds exactly the words of the files, each with its own entries; nothing is read or written outside the array; no two nodes of the trie share a cell |
| Dictionary files | what opens is complete, with ids inside the matrix; files of one set of definitions are never refused |
| Trainer | dictionary, vectors and counts speak of the same features after renumbering; threads compute what one thread would; training ends |

## 2. Plan

Done, in this order: `ReadersWriters`, `ReadWriteMutex`, `ModelSwap` with their
proofs; `Tokenizer`, `Viterbi`, `PathRanking`, `NBestGenerator` with the proofs
that the best path is a cheapest segmentation and that the search implements
`PathRanking`;
`ChunkFreeList` and `Session` with the proofs about answers, pool, types, request types,
text and search; `Rewriting`, `DoubleArray` and `Dictionary` with the proofs
that the array is built soundly, that searches are exact and that the image is
the map of its files; `DictionaryFiles` with the proofs of its four properties;
`FeatureIndex` and `Training` with the proofs that the features stay aligned and
that the reduction is the sum.

To do:

1. `Tokenizer` over the image of `Dictionary` instead of a dictionary given as a
   constant, with characters of several bytes.
2. The parsing of `char.def` (ranges of code points, default categories), the
   precedence among formats in Writer and among sources of options in Param, as
   operators composed into the modules above.

## 3. Modules

### The lock

`ReadWriteMutex` has one action per atomic access to `l_` or `write_pending_`;
an iteration of a spin loop that changes nothing is a stuttering step. `pc`
says where a thread is, and the scoped locks make sure that a thread takes one
side at a time. What `compare_and_swap` yields depends on the platform
(`thread.h` 44-72) and is the constant `CasReturnsSuccess`: the old value of
the word on Windows and with GCC, whether it swapped on OS X.

`ReadersWriters` is the lock as its users see it: a reader is *admitted* at the
moment it finds no writer pending, and then enters before any writer that asks
later. `ImplementsReadersWriters` is the refinement, with `Admitted` (readers
between their first check and the end of their second) as refinement mapping.

### The shared model

`ModelSwap` uses the abstract lock and models `swap`, `createTagger`,
`parse(lattice)` and the unlocked queries at each access to the fields of the
model. A Viterbi is a model value; request types and thetas are named by the
Viterbi they were loaded with; `deletions` counts runs of a destructor, so that
deleting twice and never deleting can both be seen. A parsing thread reads its
lattice after the lock is released, as `TaggerImpl::parse` does, for as long as
it likes.

### The lattice

`Tokenizer`, `Viterbi` and `NBestGenerator` are one state machine, in three
modules as in the code: the stages of `lookup` (white space, dictionaries, the
blank case, group, counted lengths, single, and the two fallbacks under
constraints), the phases of `analyze` with one action per position of the
sentence, and one action per agenda element of the N-best search.

* A sentence is a sequence of characters, all one position wide. Properties,
  dictionaries and unknown-word tokens are constants.
* `begin_nodes` and `end_nodes` are sequences in the order of the `bnext` and
  `enext` lists; `cost`, `prev`, `next` are functions of nodes. The order
  matters: among equal costs the first left neighbour wins.
* Log-probabilities become exact positive weights, so `logsumexp` is a sum and
  the marginals can be compared with sums over paths for equality.
* A feature is a sequence of columns, `"*"` matching any.
* `Picked` is the loop that keeps some elements of a list in their order; it is
  how the prefixes that are words, the nodes that are `Valid` under the
  constraints and the nodes that end at a position are selected. `Updated`
  overwrites the fields of some nodes.
* A partial text is its sequence of lines, each ended by a line end.

`Segmentations` computes by definition which chains of nodes cover the
sentence, and the properties compare what the program computed with it.
`PathRanking` states the promise of an N-best search; `ImplementsRanking` says
that `next` keeps it. Its refinement mapping takes `Segmentations` as the
candidates and the answers given so far as the ranked list.

`MCLattice` holds the instances: two letters that differ in every unknown-word
rule and share a category, white space, two dictionaries with homographs and
overlapping words, and a matrix with four different costs.

### Calls on a lattice

`Session` is one lattice and the calls made on it. `owner` says whose it is: a
Tagger's own, which is reached through `parse`, `parseToNode`, `parseNBestInit`,
`parseNBest`, `next`, `nextNode` and `formatNode` and takes its settings from
the tagger at every parse, or a client's, with `set_sentence`, `clear`, `parse`,
`toString`, `enumNBestAsString`, `next` and `set_result`. A call is a few
steps, with `pc` and `call` as its place and its arguments, so that what one
part of the code leaves for the next can be seen between them.

* The lattice has its request types, theta, sentence and present result. The
  sentence is a text and *where it lies*: in the caller's memory, in a buffer
  on the stack, or in a region of the pool; `intact` is lost when something
  else is written there.
* A result is named by its text and its rank among `Results`, the list that
  `Viterbi` and `NBestGenerator` compute; rank 0 is the list of all morphs.
* The agenda is what the N-best search still has to give. `clear` frees the
  nodes under it (`live`), `NBestGenerator::set` replaces it.
* A `StringBuffer` is the sequence of pieces written, with their sizes; a fixed
  one leaves out what does not fit. Text is compared piece by piece.
* `asked` and `used` observe what the caller chose and what the analysis read.

`ChunkFreeList` is the pool as operators on a record: chunks, cursor, and the
regions given out since the last `free`. `FirstFit` is the loop of `alloc`.

The callers are disciplined where the documentation shows it: results are asked
for only after an analysis that succeeded, a client changes settings between
analyses only, parses once per `set_sentence`, and passes partial texts that get
shorter when their lines are joined (others leave `initPartial` with a null
pointer). `set_result` is called with texts that the program itself has
written.

### Dictionary images

`DoubleArray` is `darts.h`: a node of the trie is the range of keys that agree
in their first bytes, `fetch` gives its siblings, and `insert` looks for a begin
at which the cells of all siblings are free. One step is one probe of that
search, one leaf written, or one return; the recursion is the sequence `stack`.
The array is sparse: `DOMAIN check` is the set of claimed cells, every other
cell is zero, and `size` and `alloc` are numbers. Two ways the array can go
wrong are states, not assumptions: the division by zero before the first leaf
is written (`darts.h` 156) makes `building` "undefined", after which nothing is
promised, and keys out of order end with the error that the code returns.

`Dictionary` is `Dictionary::compile` to the image in memory: lines of csv files
become tokens (`Die`, `Skip`, `Add`, with each reason that the code has), tokens
are sorted by word, equal words are packed into one value (`Packed`: number and
index of the first, converted to a signed integer), and `DoubleArray` is run on
them. `Rewriting` supplies the ids of lines that leave them out,
provided that all three lists of rules apply and that the files of ids are as
large as the matrix (`ContextIdsFit`). A word is a
sequence of bytes, and conversion maps bytes to bytes, in another order. What
the image should answer is computed from the files alone: `PlacesOf` a word are
the places of its lines, and `Agree` asks for one entry for each, in their
order.

### Dictionary files

`DictionaryFiles` puts the compiler and an analyser side by side. A file is what
it was made from, the sizes written into it, how many of its blocks are on the
disk, and whether its length word is set. `EditSources` changes the
definitions, `StartBuild` runs `runda-dict-index` with some command, and every
write can be the last (`Killed`) or fail from then on unnoticed (`WriteFails`).
The analyser opens the files in the order of `Viterbi::open`, one per step, with
the checks of `open` and those that `Tokenizer` and `Viterbi` add. Files are
mapped shared, so a file that is opened for output under an analyser leaves it
"lost", and no property speaks of it until it closes.

### Training

`FeatureIndex` is the encoder's index as operators on a record: features and
their ids, the cache of feature vectors by the key of their node or path, and
`shrink`, which renumbers the dictionary, the vectors and the observed counts.
`Training` is `CRFLearner::run`: sentences are read into the index and the
observed counts, features are dropped, and iterations run until the objective
changes little three times in a row or the optimizer ends them. With threads, an
iteration starts them one by one, each takes every n-th sentence and owns its
loss and expectations, and the main thread joins all and adds up.

* A sentence is its lattice, a sequence of paths with the keys of node and link.
* Probabilities are left out: every path is expected once, and the loss is the
  cost of the paths that are not in the answer. That keeps what the control
  needs of them, that they depend on the shared weights and vectors.
* The optimizer answers anything: new weights, the end, or an error.

## 4. Runs

| Run | Shows | Bounds |
|---|---|---|
| `rwlock` | safety, refinement and liveness of the lock | 3 threads, each reader or writer at any time: two writers and a reader, or two readers and a writer, are the smallest mixes in which anybody can be overtaken |
| `model_swap` | swap against parsing threads, swaps one after another | 2 parsing threads, 1 swapping thread, 3 Viterbis, so two swaps: the second deletes what the first installed |
| `model_swap_concurrent` | violation: concurrent swaps delete a Viterbi twice | 1 parsing, 2 swapping threads |
| `model_swap_reading` | violation: a result is read after its dictionary is gone | 1 parsing, 1 swapping thread |
| `lattice` | all phases of a parse and the N-best search | sentences up to 3 characters (2 with constraints over all positions and features, 4 in one partial text), `MaxGroupingSize` 1, `MaxLookup` 2, `CostLimit` 6, so that the grouping limit, the clipping of long stretches and the cost overflow all happen |
| `lattice_trailing` | violation: marginals when white space ends the sentence | sentences up to 2 characters |
| `session` | every answer against what the caller is due, settings in force, text and search state, the places of strings and the growth of the pool | two texts with results (one with two, one with an empty one), one whose analysis gives up, a partial text and one as long as a chunk; six sets of request types that have each type on and off; `NBestMax` 3 with numbers 1, 3 and 4; callers' buffers of 12 bytes, too small for some texts, and of none at all; chunks of 20 bytes, which the copies of one `set_result` overflow into a second chunk; short is a string of up to 16 bytes (`ShortRequest`); calls that copy long ones end with three of these (`MaxLong`), so that a long string is allocated, passed over after `free` and allocated again; behaviours with a long string are followed through three sets of request types, without a search and without callers' buffers (`LongStringsApart`), the others without restriction |
| `session_theta` | violation: a tagger's theta is reset before it is read | two thetas |
| `session_buffer` | violation: a too small buffer returns part of the text | a buffer of 8 bytes |
| `dictionary` | searches of the image against the files, room in the array, cells not shared | files of three lines over eight candidates in every order, with homographs; words with up to six homographs where `CountSize` is 4, the numbers that a value can hold; 34 entries where `IntMax` is 127, so that eight bits hold number and index and the sign shows; words that fill the array, which begins with 8 cells and grows by 3/2; every kind of odd line, for each type of dictionary; lines that get their ids from rules, and each way in which they get none (a list of rules that does not apply, a rule that refers to a column that is not there, a result without an id, an id outside of the matrix), with as many ids as the matrix has sizes; missing and empty files; texts of up to 4 bytes, one longer than the words of the ordinary files, with a byte that occurs in none |
| `files` | what an analyser accepts, whatever the compiler did | files of 2 blocks, so that one can be there in part; 2 runs of the compiler, so that the second replaces or mixes with the first; five definitions and five commands |
| `training` | numbering, counts, threads, convergence | three corpora over two words, one without EOS, one with an empty sentence; 1 and 2 threads on 3 sentences, so that one takes two; `--freq` 1 and 3; weights 0 and 1; an old model with a feature that does not occur |

Bounds of counters: the lock's words are bounded by the number of threads, the
number of swaps by the Viterbis, `asked.served` by one more than there are
results, the long strings of a session by `MaxLong`, the runs of the compiler by `MaxBuilds`, the array and the counts of
the trainer by what is read, all else by the sentence.

`CHECK_DEADLOCK FALSE` where the program modelled ends: a parse that gave up, an
exhausted search and a lattice without N-best (`lattice`, `lattice_trailing`);
an image built, or a compiler that died (`dictionary`); a model saved, or a
trainer that died (`training`). The other runs check that nothing gets stuck.

The passing `lattice` run takes constraints only on sentences without white
space, and marginals only on sentences that do not end in it; `lattice_trailing`
shows what happens to the marginals otherwise. A constrained token after white
space runs into the assertion `CHECK_DIE(new_node->feature)`
(`tokenizer.cpp` 367). All other requests are checked on sentences with white
space anywhere.

**What the violations say.** `swap` saves the pointer it will
delete before it has the lock (`tagger.cpp` 407), though `runda.h` 1109 calls it
thread safe. It deletes features that results of finished parses still use,
though `runda.h` 1111 says that no parsing thread needs to be stopped. The
backward pass misses nodes that run past the end of the sentence, so
probabilities come out too large. A tagger sets theta on its lattice and then
`set_sentence` sets it back (`tagger.cpp` 567, 755), though `runda.h` 1389 offers
`set_theta`. `StringBuffer::reserve` forgets an overflow at the next write that
fits (`string_buffer.cpp` 17), so a call returns a text with a word missing where
`runda.h` 1256 promises NULL; `AnswerRight` states what does hold of such calls.

**Seen while modelling, and not a run.** The generator writes the number of right
ids first into `matrix.def` (`dictionary_generator.cpp` 88), so that a left id is
below the *right* size of the matrix, as `is_valid` has it (`connector.h` 56);
`compile`, when a line leaves its ids out, compares left ids with the left size
and right ids with the right one (`dictionary.cpp` 355; also 182) and says of files
that belong together that they "may be broken" (357), unless there are as many
left ids as right ids. `ContextIdsFit` and `IsValid` are as in the code, and the
instance of `dictionary` passes the first with sizes that differ, so that the
second refuses some ids that were found.

**What the passing runs except.** `thread.h` 69 picks, on OS X, a primitive with
the opposite result, which inverts the loop of `write_lock`; with
`CasReturnsSuccess` set to `TRUE` the run `rwlock` finds two writers inside.
`AnswersAreMap` excepts the entries of a word with more homographs than the
number in its value can hold, and costs that do not fit a short; the run has
both. `ConsistentFilesOpen` excepts definitions without a `matrix.def`: a
dictionary is then compiled for whatever binary matrix is there
(`dictionary.cpp` 284). `unk.dic` is not compared with the others, so
`IdsInMatrix` speaks of the system and the user dictionary. `TrainingEnds`
excepts an objective of zero, for which the relative change is not a number; by a
negative one it is divided to something negative, which counts as small. The
weights of an old model stay with their features only with `--freq` 1, and
`FeaturesAligned` says so.

**Fairness.** The lock: each thread that is inside a method or a section is
scheduled again, which `sched_yield` and a preemptive scheduler give; no thread
need ever call the lock. `ModelSwap`: a thread in `analyze` finishes it and a
thread in `swap` goes on; nothing makes a thread parse or read. `NBestGenerator`:
a `next` that was called runs on. `Training`: the main thread and every thread it
has started are scheduled again; nothing makes the optimizer end. All of it is
weak fairness; that one of several writers always loses the compare-and-swap is
therefore possible, and `SomeWriterEnters` promises only that one of them gets
in.

## 5. Proofs

`ReadWriteMutexProofs` proves, for every finite set of threads and under
`~ CasReturnsSuccess`, type correctness, exclusion, the exact words, writer
preference, that announced readers are not overtaken, and that the lock
implements `ReadersWriters`. The inductive invariant is that the words are
exact (`WordsExact`) together with typing and exclusion. Exclusion alone is not
inductive: that the compare-and-swap sees zero only when nobody is inside
follows from what the word counts. The proofs rest on a few lemmas about
cardinalities of the sets of threads at a place when one thread moves.

`ModelSwapProofs` proves that `analyze` runs on the model's current and live
Viterbi and that the settings a parsing thread reads under the lock are those of
that Viterbi, for any number of parsing and swapping threads, concurrent swaps
included. The invariant says where readers and writers stand in the lock, that
the pointer a parsing thread holds is the current one, that every Viterbi
still to be installed (unused, incoming, current) has not been deleted and
belongs to one place only, and that the three fields differ only while a swap
stands between its assignments. That a replaced Viterbi is deleted exactly once
is proved for a sole swapping thread (`SoleSwapper`); with two it is false, as
`model_swap_concurrent` shows. There the invariant follows each Viterbi from
being saved to being deleted.

`SessionProofs` proves for all texts, sizes, settings and sequences of calls that the strings of a lattice never
overlap in its pool (`RegionsDisjoint`) and that the pool is bounded by its
heaviest use between two frees (`PoolBounded`). Disjointness by itself is not
inductive: the invariant says that everything given out lies behind the cursor
(`Sound`). The bound counts the requests longer than
`ShortRequest`, which is any size below a chunk's, and needs an account
(`Accounted`): every chunk that the cursor has passed was filled but for less
than one short request, except for what long requests have left, which is at most
one chunk and a heaviest use for each (`Allowance`). `alloc` leaves a chunk only
when a request does not fit; for a short one the next chunk, being empty or new,
has room (`TakeAccounted`). A long one may pass any number of chunks, and adds at
most one. No size is excluded: a chunk made to measure never fits the request it
was made for, because `alloc` compares with `<` (`freelist.h` 61), so strings as
long as a chunk (8192 bytes in the code) do make the pool grow at each use, and
the theorem says by how much and that nothing else does, for every `MaxLong`. The session adds that
whatever is copied is a known text or a known result of one.

`SessionProofs` also proves `TypeOK`, and that the request types the caller asked
for are those in force when the analysis begins (`RequestInForce`), and that a search goes on over
nodes that are still there (`NextReadsLive`). The first needs to know, for every
place inside a call, which part of the settings has been handed on already; the
second, that the agenda is that of the present result whenever there is one
that was analysed with N-best, and that nobody asks for a result before.

The hardest theorem of the session is `TextIntact`. `set_result` frees the pool
while its sentence may still lie in it, and copies strings over the freed bytes
(`tagger.cpp` 798-872). What saves the sentence is its place: it was cut out of a
text in front of it, that text held every surface and every feature of the result
being set, and the copies together take fewer bytes than that text did.
`TextInv` says so between any two copies: either the sentence has been moved to a
place that is given out, or the cursor stands behind exactly the features copied
so far (`Copied`) and the sentence lies beyond everything still to come. With
strings as long as a chunk the text in front may lie in a later chunk than the
cursor; it still has room for whatever comes before it, and `alloc` does not go
past a chunk with room (`FitsBefore`). Assumed (`ResultTextAssumption`) is what a
text of `toString` contains: the surfaces that make up the sentence, each
feature, and something more, the line that ends it at least.

`AnswersAreRight` states `AnswerRight`, the specification of the whole session: what
each of the fifteen calls answers, as a function of the caller's own text and
settings and of how many results he has been through. Texts are folds, so the
proof begins with them: a fold is a run of steps (`WriteRun` and its relatives,
by `NatSetInduction`), and `WriteAllHolds` says of a run of writes into a growing or
a fixed buffer that everything is there if it fits and that what is there fits in
any case. The invariant `AnswerInv` says that a result
being shown is the caller's, under the number he has come to (`ResultShown`), that
the agenda of an open search is exactly what he has not been through
(`Remaining`), so that the next taken is the next in order, and that the
buffer of an enumeration holds the results so far (`EnumerationInv`). Assumed is
that capacities are numbers (`CapacitiesAssumption`).

`DoubleArrayProofs` proves for every list of keys of bytes and every list of
values, sorted or not, that `build` writes inside the array it has allocated and
that no two nodes claim the same cell. `WritesAllocated` rests on the way the
array grows (`DoubleArrayAssumption`): the first allocation times the factor
makes room for every code, while the code asks only that it exceeds the cell
being probed. `ChildrenUnshared` is not inductive: it needs that every call but
the one that searches has a begin in `used`, that these begins differ from each
other and from every base written so far, and that a leaf's base is negative.

It goes on to the searches: `SearchesFindKeys` says that for any text
`commonPrefixSearch` finds exactly the keys that begin it, each with the value
of the first of its equals, and `exactMatchSearch` the key that is the text;
`SearchesReadInside` that neither reads behind `size`. The invariant `Layout`
describes the array while it is being built: every cell claimed belongs to one
child of one node that was opened, is still to be visited, or holds the base of
that child, so that a walk along a text stands at a node exactly as long as some
key goes on like the text. A walk that leaves the trie reads a cell of another
node or none, and `check` tells.

`DictionaryProofs` carries this to `Dictionary::compile`. `CompileBuilds` is a
refinement: every behaviour of the compiler is one of the array's, over the
words it packs, so that all that is proved of any array holds of the image's.
`ImageIsMap` is the correctness of the compiler as a whole: for all files, kinds
of odd lines and texts, the image answers with the entries of exactly the lines
whose word begins the text, in the order of the files. The invariant says what
the tokens are at each stage: an entry for every line read so far and not
skipped, in the order of the lines (`CompiledSoFar`); after `Sort`, in the order
of the words and, within one word, of the lines; after `Pack`, keys that are the distinct words,
with values that hold number and index of their entries (`WordsPacked`). Counting predecessors is how the sort and the packing are
defined, and the lemmas `RankOrder` and `RankOnto` say that it numbers the
members of any linear order. Assumed are types of the constants
(`DictionaryAssumption`), with `CountSize` (256 in the code) any positive number.

`DictionaryFilesProofs` proves all four properties of `DictionaryFiles`, for
any definitions, commands, number of blocks and number of builds. The invariant
says that a file with its length word is a whole dictionary (`FilesInv`), that
every file begun comes from definitions whose ids fit the sizes written into it
(`Made`), and that an analyser, unless it is lost, has opened a prefix of its
order of opening, of whole files whose sizes agree as far as they were compared
(`ReaderInv`).

`TrainingProofs` is about the trainer. It begins with folds over finite sets,
since the loops over the paths of a sentence, the names of a key, the numbers of
a vector and all sums are such folds: `FoldDefined` says that the function
exists, `TotalMore`, `TotalSame`, `TotalUnion` and `TotalParts` how sums over
parts add up, in whatever order. Renumbering the kept ids by the number of kept
ids below them is a bijection to an initial segment
(`RenumberingIsBijection`), hence `Shrink` leaves the ids without a gap and
without a duplicate, for any frequency (`ShrinkKeepsDense`).

`FeaturesStayAligned` states `FeaturesAligned` for every corpus, old model and
`--freq`. Its invariant `IndexInv` says, while the corpus is read, that the
dictionary holds the names of the keys read and of the old model, that the
cached vectors number them and that the cached counts are the uses so far
(`Indexed`), and that the observed counts are those of the answers read
(`Observed`); from `Prepare` on, that all of them number the kept names
(`Aligned`). `ReductionIsSum` states `ReducedIsSum` for any number of threads
and sentences. Its invariant `ThreadsInv` says that a running thread has added
exactly the sentences of its `Turn` before `next`, with the weights of this
iteration (`Added`), and that between join and start no thread runs: a sum never
outlives the weights it was made with. `TurnsDisjoint` and `TurnsCover` say that
the turns take every sentence once, and `SharesSum` that the reduction then adds
every sentence once. Assumed are types of the constants
(`FeaturesAssumption`, `TrainingAssumption`) and that an old model names a
feature once, as `save` writes it.

`LatticeProofs` proves that the path marked best is a cheapest segmentation
(`BestPathIsBest`), that the N-best search ranks all of them (`SearchRanks`:
`NBestGenerator` implements `PathRanking`), that all of them keep to the
constraints (`ConstraintsAreHonoured`), that the links a caller follows are the
result asked for (`LinksAreTheResult`) and the types of the lattice
(`LatticeTypes`) for all dictionaries, unknown-word tokens, matrices, requests,
constraints and texts.
Its invariant `IInv` follows a lattice through its life:

* `LookupInv` says what the locals of `lookup` are at each stage, above all that
  every node found begins at the position looked up and ends behind it, at most
  one position past the end of the text; without constraints `lookup` never
  comes back with nothing.
* `ListsInv` and `NodesInv` say that `begin_nodes` holds at a position what was
  found there and `end_nodes` what was linked and ends there; `CostsInv` that the
  cost of a linked node is the least over the nodes that end where it begins;
  `PrevInv` that `prev` names a neighbour with which that cost is reached, until
  results are linked; `GaveUpInv` which node could not be linked.
* `BestInv` carries the path found by `BuildBestLattice` to the states that read
  it.

That local costs determine the cost of whole chains is an induction on the
position (`ChainsCostMore`: no chain to a node costs less than the node;
`NodesEndChains`: every node ends one). `SegmentationsAre` shows that the
definition of `Segmentations`, a function recursive in the position, yields
exactly the chains; `BackExists` that the walk back along `prev`, recursive too,
is defined, because each step gets nearer to the begin of the text (`RankIs`).
The loops over lists (`Picked`, concatenation, the cost of a chain) are runs of
steps (`RunExists`).

For the search, `SInv` adds four parts to `IInv`. `FullPaths`: under `NBEST` the
paths are all the links of the lattice, also after a list was linked only in
part. `AgendaInv`: an element is a chain along such links to EOS with its exact
cost, and its estimate adds the cost of its first node; only the element the
search begins with has an estimate of zero, and then it is alone. `PendingInv`:
of a segmentation that is a result no element is what it ends with, and of any
other exactly one is; this is what makes each path appear once, and the search
end with all of them. `ResultsInv`: the results are segmentations. As no way to a
node costs less than the node (`NodesCostLeast`, from `ChainsCostMore`), an
element on top of the agenda that has reached BOS costs no more than any
segmentation still pending (`FindRanks`). `InitNBest` is then `Offer`, `Find` is
`Rank`, `Exhaust` is `Exhaust`, and every other step a stutter (`StepRanks`).

For the constraints, `CInv` adds four parts to `IInv`. `TokensInv`: `InitPartial`
closes a constrained text at both ends. `FoundInv`: at every stage of a lookup the
nodes found end where a token may end, span no token boundary and have the
feature asked for (`Honours`); the stage that tries a character behind the limit
finds nothing there, since it found nothing at the limit; and where a word is
stretched or forced, it ends at a place where a token may end. `HonouredInv` says
the same of the lists, and `ReachedInv` that a position some node ends at has
nodes that begin there, as soon as it is looked up. So the ways through the lattice
end where the text ends (`WaysReachTheEnd`), a constrained token is covered by
some node of each, and that node begins where the token does, or it would span
its first boundary (`ConstraintsAreHonoured`). The theorem has a premise,
`ConstraintsFit`: a feature is set at a token boundary, as
`set_feature_constraint` leaves it unless a later call sets that boundary to
"inside", and no token asked for is longer than `MaxLookup + 1`. Without it the
statement is false: a lookup reads at most `MaxLookup` characters
(`tokenizer.cpp` 256), and the node forced for a longer token ends there, inside
the token (TLC shows it with `MaxLookup` 1 and a token of three characters). The
texts of `MCLattice` satisfy the premise (`MCConstraints`).

For the links, `LInv` adds three parts to `SInv`. `FoundOnce`: a lookup finds no
node twice, because what it finds of one source has different lengths or
different tokens, a group of unknown characters is not counted again, and the
dictionary's nodes have another kind than the unknown ones. `ListedOnce`: so no
list of the sentence has a node twice, and joining them (`AllMorphs`) meets each
node once (`AllMorphsOnce`). `ChainInv`: until a result is linked `next` is null
everywhere; afterwards there is a chain from BOS to EOS along which `next` leads
and `prev` leads back, and it is the best path, the answer just found, or under
`ALL_MORPHS` all the nodes. Answers share nodes, and each leaves its links in the
nodes that the following one does not pass; what keeps these harmless is that
every link ever made leads forward through the text, EOS keeps none, and an answer
writes both links of each node it passes. That is also why the walk of the caller
ends (`FromExists`: the recursive `ResultList` is defined, since `next` brings
nearer to an end; `ResultListIs`: it is the chain). The theorem has a premise,
`TokensDiffer`: no word has a token twice, no two dictionaries have the same
token for a word, and no unknown category has one twice. In the code a token is
a place in an image and a node a place in the heap, so that two equal ones are
still two; in the model a token is its record and a node its fields, and the
premise says that a record stands for one place. The dictionaries of `MCLattice`
satisfy it (`MCTokens`).

Assumed are `TokenizerAssumption` (types of the dictionaries, no empty word, some
token for every category, as the compilers produce them), `CostAssumption` (the
attributes of tokens lie inside the matrix, which `IdsInMatrix` of
`DictionaryFiles` is about), `NullAssumption` (no node is the null pointer) and
`InputsAssumption`: texts consist of characters of the table, constraints
have the size of their text, and a text under constraints has no white space.
The last is what the code needs: a feature constraint set behind white space is
looked for in front of it (`tokenizer.cpp` 367), and when only white space is left
the node made runs past the end (`tokenizer.cpp` 317), so that under constraints
a lookup may read behind the text.

Only model-checked: everything under fairness, whose premises need `ENABLED`
(`SomeWriterEnters`, `NextReturns` and the like), and `TrainingEnds`, which is
liveness; of the lattice `MarginalsExact`, which is false for a text that ends
in white space and otherwise equates sums over sets of paths, each defined by
recursion; and `DeletedOnce`, `NoLeak` for more than one swapping thread, where
they fail. Where a proof needs induction over a number (a walk in the double
array, a leaf of the trie), it is an argument about the least number, or the
longest prefix, that would fail: `LeastExists` and `GreatestExists`, or about a
set that holds 0 and every successor (`NatSetInduction`).

## 6. Not modelled

Components with status `not_modelled` in `PROJECT.json` are listed with the
reason. Nine tenths of the repository's lines are two generated files, the
character tables `ucstable.h` (155,511 lines) and the Python wrapper
`RuNda_wrap.cxx` (8,451 lines); neither has behaviour of its own, so the share
of lines that the modules stand for is small whatever they model.

Left out of the system: floating-point numerics of L-BFGS and of the trainer's
probabilities, layout and format strings of the Writer, character-set
conversion, wrappers of the operating system, bindings, the drivers' forwarding
of arguments, the evaluation tool, the dictionary generator, the HMM trainer.

Left out of the modelled components: several bytes per character in the
tokenizer, and with it the code point U+FFFF that reads behind the table
(`char_property.h` 74); the limit of 512 prefixes per position
(`tokenizer.cpp` 280); `buildAlternative` (never called); the case of a parse
with no sentence set, which returns at once; error texts (`what`); a second
parse of a lattice without a new sentence, whose nodes are added to those of
the first; how `calcCost` arrives at a number, `assignUserDictionaryCosts`, the
syntax of csv and definition files, and the exits of `compile` for a definition
or model file that is missing or a feature too long to be rewritten
(`dictionary_rewriter.cpp` 168); the templates that name a node's features,
and the decoder's side of the feature index.
