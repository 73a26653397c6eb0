# Verification of groth16-solana

`groth16-solana` is a Groth16 verifier for Solana programs, with the tools
around it: generators that turn a verifying key of snarkjs or gnark into Rust
source, metadata that ties that source to a proving key, and conversions of
proofs. This directory holds TLA+ models of it, translated from the source, the
TLC runs that check them on small instances, and TLAPS proofs of the theorems
about them. Paths below are relative to the repository's root (in
`PROJECT.json` they have `src/` in front).

## 1. Inventory

### 1.1 Parts, their state and their operations

| Part | State it keeps | Operations |
|---|---|---|
| Verifier, `src/groth16.rs` | an object: proof, inputs, key, and `prepared_public_inputs`, the one field that is assigned after construction | `new`, `new_with_commitment`, `prepare_inputs::<CHECK>`, `verify`, `verify_unchecked` |
| Curve arithmetic, `src/syscalls.rs` | none | G1 addition and multiplication, pairing product, SHA-256, decompression; on chain by syscall, on the host by crates |
| Helpers of the verifier, `src/groth16.rs` | none | `is_less_than_bn254_field_size_be`, `negate_g1_be` |
| Hash to field, `src/hash_to_field.rs` | one scratch buffer, used for three preimages in turn | `expand_message_xmd_sha256_l48`, `reduce_be_l48`, `hash_to_field_bn254_fr` |
| gnark key, `src/vk/gnark.rs` | a cursor into the input | `parse_gnark_vk_bytes`, `bsb22_vk_to_rust_const`, `generate_bsb22_vk_file` |
| snarkjs key, `src/vk/circom.rs` | none | `parse_vk_json_to_rust_string`, `generate_vk_file` |
| Setup metadata, `src/vk/setup.rs` | none in memory; it reads the proving key file, and what it emits lives on in sources and binaries | `proving_key_sha256`, `delta_equals_gamma`, `metadata_rust_source`, `find_setup_txts` |
| Proof conversion, `src/proof_parser.rs` | none | `convert_proof`, `convert_proof_to_compressed`, `convert_public_inputs` |
| Decompression, `src/decompression.rs` | none | two calls handed on to a syscall |
| Test program, `tests/program` | none between instructions | `process_instruction`: selector, payload lengths, then the verifier |
| rust-vk example, `tests/rust-vk` | key files, a generated source, a crate | build script, prover's comparison of digests |
| gnark fixture, `tests/gnark-ffi` | key files, a cache of compiled circuits behind a read-write lock | `Setup`, `Prove`, `NativeVerify` |

### 1.2 How they interact

- A program calls a constructor with a key compiled into it and the fields it
  cut out of an instruction, then one of the entry points. An object may be
  used for several calls; they share `prepared_public_inputs`.
- With the feature `bsb22` the verifier hashes the commitment to a field element
  and takes it as one more public input. The key then has one more column.
- The generators read two files a setup wrote, and write one the compiler
  includes. The prover later hashes one of those two files and compares it with
  a constant in the crate. Nothing but the files connects these parts, and
  nothing locks the files.
- `find_setup_txts` reads back from a binary what `metadata_rust_source` put in.

### 1.3 What is hard to get right

- **Sequences of calls on one object.** A call that fails half-way must leave
  nothing behind that a later call takes for its own (section 3.1).
- **Orders of checks and errors.** Six things can be wrong with a call at once;
  the error that is reported names one.
- **Boundaries of numbers.** Public inputs at the field's order, keys without
  public inputs, one more column with a commitment, counts in untrusted input
  that size an allocation.
- **Files that change under the reader, and runs that are killed or fail.**
  Section 3.3.
- **Threads that share a map** behind a read-write lock. Section 3.8.
- **Layouts of equal length.** The payloads of two circuits cannot be told apart
  by the program; only the verifier can. Section 3.9.
- **Orders of bytes and coordinates**, and flags inside them. Section 3.10.
- **Reading back what was written**, between other bytes. Section 3.4.
- **One scratch buffer for three preimages**, the later ones shorter than the
  first, and arithmetic on raw limbs. Sections 3.5 and 3.6.
`PROJECT.json` lists these, each at its line, with the properties about them.

### 1.4 What makes each part correct

- Verifier: a call accepts exactly valid proofs; its outcome depends on the
  object and the entry point alone.
- gnark parser: it accepts exactly the images of supported keys, allocates
  nothing the input does not back, and its key fits the verifier's constructors.
- snarkjs parser: the constant it generates is the file's key, or does not
  compile; a malformed file is refused for what is wrong with it.
- Generators and metadata: no test key reaches a crate that did not ask for it
  (a failed write can break this, see 3.3);
  the pinned digest is that of the key's own proving key.
- Markers: each is read once, in order, as it was written.
- Hash to field: the three preimages are those of RFC 9380; the result is the
  48 bytes modulo r, canonical.
- Negation: `(x, p - y)` as a number, whatever borrows between the limbs.
- Proof conversion: the verifier is given the prover's points, A negated once;
  what is no proof is refused for the first thing wrong with it.
- Test program: the answer is what the instruction data deserve; an honest
  client's proof is accepted exactly if it is one.
- Circuit cache: one object for each circuit; the map is never raced; every call
  returns.

## 2. Plan

Order of work, the most important behaviour first. Sections 3 and 4 describe
what is there.

| # | Module | About | State |
|---|---|---|---|
| 1 | `Bn254`, `Groth16Statement`, `Groth16Spec`, `Groth16Verifier` | the verifier and its abstract specification | checked, proved |
| 2 | `GnarkVk` | the gnark parser | checked, proved |
| 3 | `VkLifecycle` | setup, generator, compiler, prover | checked, proved |
| 4 | `SetupTxt` | the markers | checked, proved |
| 5 | `HashToField` | the preimages and the reduction | checked, proved |
| 6 | `NegateG1` | the borrow through four limbs | checked, proved |
| 7 | `CircomVk` | the snarkjs parser: numbers to bytes, the order of G2 components, the trailing z coordinate | checked, proved |
| 8 | `CacheSpec`, `FixtureCache` | the circuit cache of the gnark fixture: double-checked locking, refined to a memo | checked, proved |
| 9 | `Program` | the test program, composed with the verifier | checked, proved |
| 10 | `ProofParser` | a prover's integers to the verifier's bytes, compressed and back | checked, proved |

Left: a composition of `ProofParser` and `CircomVk` with the verifier, for which
the points of one would have to be the discrete logarithms of the other.

## 3. Models and runs

Conventions. Definitions carry the names of the source. `MC...` modules give the
constants of a module small values; a `.cfg` names the properties of one run.
Operators called `Mutant_...` are plausible mistakes in the definition that
follows them; `PROJECT.json` pairs each property of a run with the mistake that
breaks it, and no specification uses them.

### 3.1 The verifier

*Data.* `Bn254` represents a point by its discrete logarithm, a number below the
group order r. Addition, multiplication by a scalar and the pairing become
arithmetic modulo r. All byte strings that the syscalls reject are one value,
`OffCurve`. Scalars go beyond r, so non-canonical public inputs exist. This
abstraction assumes that the syscalls implement the group, and keeps everything
the verifier itself decides: which columns are summed with which scalars, what is
decoded when, and what is checked.

*State.* `self` (the fields that constructors set), `prepared`
(`prepared_public_inputs`), and the locals of the call in progress. `pc` says
where it is. One action is one iteration of the loop over the inputs, or the code
up to the next syscall that can fail. Any number of calls follow one another on
one object. `Bsb22` is the cargo feature.

*Specification.* `Groth16Statement` says in terms of sums and products what a
valid proof is, and what the outcome of a call has to be. `Groth16Spec` is a
machine that answers at once with that outcome; `ImplementsSpec` is the
refinement: `object <- self`, `pending <- call` while a call is in progress,
`answer <- res`.

| Property | Meaning |
|---|---|
| `VerdictCorrect` | Ok exactly for valid proofs, after any history of calls |
| `ShapeSettledByConstructors` | the defensive branches of `prepare_inputs` and `verify_commitment_pok` are unreachable |
| `PreparedNeverPartial` | a failed call leaves no partial sum in the object |
| `CommitmentBlamed` | `Bsb22InvalidCommitmentPoint` is reported only for a commitment that is no point |
| `CallsReturn` | every call returns |
| `ImplementsSpec` | the same outcome, error included, as the abstract machine |

*Run.* `verifier`: bsb22 on, r = 3, scalars to 4, up to four columns with at most
one bad one, up to two public inputs. r = 3 has a
point of each kind that matters (neutral, generator, its negative), 3 and 4 are
aliases of 0 and 1, and two inputs are the fewest that give the loop a middle. The
build without bsb22 has no run of its own: the theorems of section 4 hold for both.

*Fairness.* `WF_vars(Step)`: a call is straight-line code with a bounded loop and
is run to its end by the thread that made it. No fairness is assumed of callers.

### 3.2 The gnark key parser

`GnarkVk` follows `parse_gnark_vk_bytes` through an input given by its length and
the numbers found where the parser looks. An action is a read of fixed
size or the group of reads between two decisions. `seen` is history: which number
was read where. `ImageSize` and `ImageNumbers` describe what gnark's `WriteRawTo`
writes, as the comment at `src/vk/gnark.rs:15-33` and the parser use it.

| Property | Meaning |
|---|---|
| `AcceptsExactlyImages` | Ok only for images of keys with at most one commitment and no committed public input; an error only if nothing read so far fits such an image |
| `AllocationCovered` | a count that sizes an allocation is backed by the rest of the input |
| `KeyFitsVerifier` | the key has exactly the columns its constructor asks for |
| `ErrorsTellTheReason` | unsupported features are reported as such, and only they |

*Run.* `gnark_vk`: keys of one to four columns with and without commitment, all
lengths one byte, number or point away, and lengths at which each read of the
head fails; counts 0 to 5 and the largest number TLC has. The parser ends, so
deadlock is not an error there.

### 3.3 From a setup to a prover

`VkLifecycle` puts four programs around three files. The setup truncates and
fills the proving key, then the verifying key (the order of `Setup` in the gnark
fixture), and can be killed anywhere. The generator reads the verifying key,
hashes the proving key, checks, and writes a source: the key, the digest, and for
a test key the compile guard as the last item. A write that fails leaves nothing
that is Rust, or a source that ends behind one of these items (its `extent`). The
compiler takes any source whose guard, if it got that far, allows. The prover compares the
digest of the proving key file with the constant in its crate, and then opens the
file again. Every interleaving is allowed; the compiler alone waits for the
generator, as a build script makes it. A digest stands for the contents it
was computed from, so collisions do not exist.

| Property | Meaning |
|---|---|
| `TypeOK` | the types, and: a source holds a whole key, one not declared a test key has delta and gamma apart, wherever its writing stopped; a prover loads whole keys only |
| `PinDecides` | if the keys were one pair when the generator read the verifying key, and nobody wrote the proving key between the generator's two reads nor between the prover's, the prover goes on exactly with the right proving key |
| `MismatchedKeyFails` | no prover goes on with a foreign proving key: **violated** |
| `TestKeyNeedsFeature` | no crate without the feature holds a test key: **violated** |

The windows in `PinDecides` are as narrow as the code allows. Setups may run, and be
killed, at any time, and may rewrite the verifying key even inside a window. The
history variables `calm` record only whether the generator was given one pair and
whether the proving key was written inside a window; what happens when it was
is what `MismatchedKeyFails` shows.

*Runs.* `lifecycle`: two key pairs, one with delta equal to gamma, and two
setups, so that one pair replaces the other under a reader, or a killed setup
leaves one file of each. `lifecycle_stale` shows the first violation: a setup is
complete, a second is killed (or still running) after the proving key, the
generator pins the new proving key to the old verifying key, and the prover's
comparison succeeds. `src/lib.rs:46-48` promises that a mismatched key fails
before proving; the comparison can only detect a change since the generator ran.

`lifecycle_guard` shows the second: the source of a test key is written by one
`fs::write`, which is not atomic, and the guard is the last text of the file. When
the disk is full or the process is killed behind the key constant, the call fails but
the file stays. A build script that runs the generator again replaces it. An
xtask, or a build script such as `tests/rust-vk/build.rs`, which generates nothing
when it finds no JSON, leaves it, and a crate without the feature compiles it, where
`src/lib.rs:51-53` says that such a key only compiles with the feature. A source
that got as far as the digest even satisfies a prover. What no failed write can
undo is the check of delta and gamma, which comes before the first byte: that part
is in `TypeOK`, and proved.

### 3.4 Markers

`SetupTxt` models `to_marker` and `find_setup_txts` over sequences of tokens. A
token is a delimiter's text, a zero byte, a field name, a digit, or anything else;
neither function can tell more apart, since a delimiter ends in a zero byte that
its text does not contain, so two of them never overlap.

| Property | Meaning |
|---|---|
| `NoMarkerPassedOver` | success: every begin delimiter belongs to a marker that was read, in order; failure: the first that could not be read is named |
| `ReadsWhatWasWritten` | each marker found is the text `to_marker` writes for the values found, its digits up to their spelling |
| `SearchReturns` | the search returns |

*Run.* `setup_txt`: all binaries of up to three segments out of 20: markers,
markers damaged in each place `parse_body` looks at, respelled digests, gaps,
stray delimiters. Three segments let a damaged marker stand before, between and
behind good ones. A digest has 2 bytes, for 32. `ReadsWhatWasWritten` leaves the
spelling of the digest's digits open, and of nothing else: `u8::from_str_radix`
takes capitals, and also `+f` for `0f`. Names are compared as they are.
Fairness: the search is one call of a function.

### 3.5 Hash to field

`HashToField` puts the three preimages together in `scratch`, one write at a
time, as `expand_message_xmd_sha256_l48` does, and reduces the result as
`reduce_be_l48` does. `pc` names the next write, `n` the preimage. `hashed` is
history: what SHA-256 was given. SHA-256 is not computed; it answers with any
digest, since none of the properties depends on which. Block, digest, limb and
buffer sizes are parameters. A product of two field elements is the Montgomery
product of the numbers in their limbs, which is what makes
`Fr::new_unchecked` visible. `Bytes` holds what a byte, a power and a
big-endian number are, for this module and `CircomVk`.

| Property | Meaning |
|---|---|
| `PreimagesMatchRfc` | SHA-256 is given the preimages of RFC 9380, byte for byte |
| `NeverPanics` | the assertions at compile time cover every slice |
| `ResultIsRemainder` | the result is the canonical remainder of the 48 bytes modulo r |
| `IInv` | the buffer begins with as much of the preimage as has been written |

*Run.* `hash_to_field`: bytes of base 4, limbs of two bytes, digests of 8, blocks
of 9, messages up to 6 and tags up to 4 bytes; some pairs do not compile, some
fill the 18 bytes of scratch to the last. r = 4099 is just above 2^12 = 16^3, the
bound of a half, as tight as the code's assumption `2^192 < r` allows. Six digests
with extreme and mixed bytes make both the sum that exceeds r and the one that
does not. The function ends, so deadlock is not an error.

### 3.6 Negation of a point

`NegateG1` is `negate_g1_be`: one action for each turn of the loop over the limbs.
Words are read and written by `FromBe` and `ToBe`, which a run gives by their
definition. `NegationIsExact` says that the difference is `p - y` modulo the size of
the buffer, for every y. In particular a y from 1 to p - 1 gives the y of the
inverse. A y of zero with a nonzero x would give p, which is not canonical; no
such point is on the curve, whose order is odd. *Run.* `negate_g1`: four limbs of
two bits, all 256 values of y, two of x, a modulus (147) whose limbs all differ.

### 3.7 The snarkjs key parser

`CircomVk` is `parse_vk_json_to_rust_string`: `field` names what is written next, with one action for each field and one
for each point of `IC`, up to the first error. The file is what serde makes of it,
with a number for each decimal string; lists may have any length, since the code
asks for none but the pairs of G2. What is generated is the arrays of the
constant, not their text. `SourceCompiles` states what rustc checks: the lengths.

| Property | Meaning |
|---|---|
| `CompiledKeyIsTheFile` | a constant that compiles holds the file's coordinates, each G2 pair swapped, up to multiples of 2^256 |
| `RefusedForItsReason` | a file is refused exactly for a malformed field, or for delta equal to gamma in a production key, whichever the code meets first |
| `KeyTypeOK` | each array has as many bytes as the file has coordinates, so its type catches a list of the wrong length |

*Run.* `circom_vk`: coordinates of two bits, ten odd G1 lists, twelve odd G2
lists and thirty-two odd lists of points, two fields at a time so that the order
of the checks matters, including delta and gamma that agree only in their affine
part or only after being cut. Coordinates above 32 bytes are among them, hence "up to
multiples": `Vec::resize` (`src/vk/circom.rs:84`, under a comment that speaks of
padding only) cuts such a number to its low bytes, and no error is raised. For
production keys this is not hidden from the delta/gamma check, which compares the
bytes after the cut, as `RefusedForItsReason` states.

### 3.8 The cache of circuits

`FixtureCache` is `compile` in `tests/gnark-ffi/gnark-fixture/main.go` on any number of
threads, one action for each statement that another thread can see. A Go map
must not be touched while it is assigned to, so a lookup and an assignment take
time: a thread whose `pc` is at one is in the middle of it. The lock is Go's
`sync.RWMutex`: a waiting writer keeps new readers out and lets them in when it
unlocks. `CacheSpec` is what callers are promised, a memo; in the refinement
`memo <- csCache`, `asked` is the variant of a thread that is not idle, and
`answer` is its `cs` once it is.

| Property | Meaning |
|---|---|
| `NoDataRace` | no thread touches the map while another assigns to it |
| `CompiledOnce` | a circuit is compiled at most once |
| `OneObjectPerCircuit` | the memo: one object for each circuit, never replaced, given to every call; an error for the others |
| `EveryCallReturns` | every call returns, failed ones and those that wait included |

*Run.* `fixture_cache`: three threads, the fewest for a reader, a writer and another
that waits; a good circuit (1), one that does not compile (2) and an unknown
variant (4). Nothing bounds the number of calls.

*Fairness.* `WF_vars(Step(t))`: a thread is scheduled. `SF_vars(Lock(t))`: writers
queue at a `sync.Mutex`, which in its starvation mode hands itself to the first in
the queue. Weak fairness would not do: the others can take the lock again and
again.

### 3.9 The test program

`Program` composes `process_instruction` with `Groth16Verifier` (an `INSTANCE`, whose
actions it takes as its own steps) and with a client: `build_ix_data`, and what
`tests/failing.rs` does to its result. The payload is a sequence of words of 32
bytes and a rest; `take` takes words off its front. How words are read as points
is a parameter, and any words can be read as anything.

| Property | Meaning |
|---|---|
| `AnswerDeserved` | data of another length than the table in the program's header are invalid; otherwise the answer is the outcome of the statement that the data, read by that table, make of the selected circuit, and its code names it |
| `HonestProofsAccepted` | what `build_ix_data` made of a proof is accepted exactly if gnark's equation, in which A is not negated, holds |
| `EveryInstructionAnswered` | every instruction sent is answered |

*Run.* `program`: all eight circuits, r = 3 and scalars to 4. The keys of 3
(`plain_8`), 4 and 6 (`bsb22_4`) fit; those of 0 and 5 have a column that is no point,
1 has a commitment key it should not have, 7 lacks one, 2 lacks a column. So each
step of the verifier is reached with each kind of circuit, and nine of the codes
are answered. 3 and 6 have payloads of one length, and instructions are sent from
one to the other. One alteration for each instruction: the tests make one, too.
Fairness: the program runs until it has answered. A program that has answered
stops, so deadlock is not an error.

### 3.10 Proof conversion

`ProofParser` follows a prover's integers through `convert_proof`, on to
`convert_proof_to_compressed` and back through `decompress_g1` and `decompress_g2`,
and the signals through `convert_public_inputs`. Conversion goes coordinate by
coordinate up to the first error. A byte string is a sequence of words, each a
field element, the flags in the two bits above it, and which way round its bytes
are; that is all that serialization, `convert_endianness` and the compression
change. arkworks and solana-bn254 are external, modelled by what they do to
points: `Decode`, `Compress`, `Candidates`.

| Property | Meaning |
|---|---|
| `SamePoints` | converted, and again after compression and decompression, the bytes say the prover's points, A negated once |
| `ErrorsTellTheReason` | refused exactly if the integers are no points, with the error of the first offence; nothing later fails |
| `InputsKept` | an input of at most 32 bytes arrives as it is |

*Run.* `proof_parser`: y^2 = x^3 + 3 over 7 elements, which has 13 points, and the
13 points of its twist over 49: points of either sign, and of G2 some whose y has a
zero in one part. Infinity, points off the curve or outside the group, integers from
7 and from 16, where words end. Inputs above 16 are cut to their leading bytes,
which the property leaves open: a circuit's signals are below r. The pipeline ends,
so deadlock is not an error.

## 4. Proofs

Theorems hold for every value of the constants that satisfies the modules'
assumptions, which TLC evaluates on the values of the runs.

| Module | Theorems | Argument |
|---|---|---|
| `Groth16VerifierProofs` | `TypeCorrect`, `InductiveInvariant`, `VerdictIsCorrect`, `ShapeIsSettled`, `PreparedIsNeverPartial`, `CommitmentIsBlamed`, `Refinement` | see below |
| `GnarkVkProofs` | `TypeCorrect`, `AcceptsExactly`, `AllocationIsCovered`, `ParsedKeyFits`, `ReasonsAreTold` | `Layout`: where the cursor is in each part and which numbers were read |
| `SetupProofs`, of `VkLifecycle` | `TypeCorrect`, `PinIsDecisive` | `SourceSound`, `CalmGenerator`, `CalmProver`: what generator and prover know of the proving key while nobody writes it |
| `SetupProofs`, of `SetupTxt` | `SearchInvariant`, `NoMarkerIsPassedOver`, `ReadIsWhatWasWritten` | `SearchIInv`: the spans of the markers read so far cover every begin delimiter before the search; see below |
| `BytesProofs`, of `HashToField` | `InductiveInvariant`, `PreimagesAreRfc`, `NoPanic`, `ReduceIsRemainder`, `ResultIsCanonical` | `IInv`: the buffer's beginning is the concatenation written so far; an overwrite changes nothing before its offset. `LimbsMakeValue`, `ReduceIsRemainder` and `WrittenValue`: the value of the bytes is kept from the digest to the limbs, through the reduction, and back to bytes |
| `BytesProofs`, of `CircomVk` | `KeyInvariant`, `KeyTypeCorrect`, `CompiledKeyIsFile`, `RefusedIsForItsReason` | `KeyIInv`: what is written is the bytes of its field, and every field passed is written; see below |
| `NegateG1Proofs` | `InductiveInvariant`, `NegationExact` | `LimbStep`: two borrows never meet; `Below`: the difference of the limbs done, up to one borrow |
| `ProgramProofs` | `InductiveInvariant`, `VerifierUsedAsSpecified`, `TypeCorrect`, `AnswersAreDeserved`, `HonestProofsAreAccepted` | see below |
| `FixtureCacheProofs` | `TypeCorrect`, `MapIsNeverRaced`, `NoSecondCompilation`, `CacheImplementsSpec` | `Alone`: a writer past the wait has no readers beside it; `Once`, `Carried`: map, counter and locals agree |
| `ProofParserProofs` | `TypeCorrect`, `PointsAreTheSame`, `ErrorsAreReasons`, `InputsAreKept` | `IInv`: what was converted so far are field elements and whole points, and `Carries`: the bytes say them; `OneCandidate`: x and sign determine a point |

Each module starts with the facts about remainders, sequences or least elements
it rests on. Induction is stated for sets (`SetInduction`), since the provers
cannot instantiate a theorem about operators.

*The verifier.* `VerdictCorrect` is not inductive: it speaks of finished calls
only. `IInv` adds what a call knows on its way: in the loop, the accumulator is
the sum of the first i columns and no earlier input was an offence
(`AccIs`, `NoOffence`); at the pairing, `prepared` is the prepared input
of this object. The statement defines sums by sequences of partial sums, so that
a step of the loop extends the sequence by one, and `SumUnique` shows that the
sum is determined. `IInv` contains `PreparedNeverPartial`: a later call starts
from the field an earlier one left. The outcome of the last call,
`AnswerIsOutcome`, gives the refinement. Its induction needs that the first
offence is the one the loop stops at.

*The test program.* `ProgramProofs` takes the verifier's theorems as they are: `V` is
`Groth16VerifierProofs` for any key, proof and inputs, and
`VerifierUsedAsSpecified` shows that the program only ever takes steps of `V` or
leaves it alone, so `V!IInv` holds along with the program's `IInv`. The latter
relates three things that the code keeps apart: the instruction data as a whole
(`Says`), the fields and the rest that `take` has cut so far (`TypeOK`), and the object of
the verifier (`Constructed`, `Verifying`). `V!AnswerIsOutcome` then says what
`verify` returned, and `CodeTells` that no two errors share a code. For an honest
client, `BuiltData` finds each part of the proof where `take` cuts it, and
`NegatedEquation` turns the product of four pairings, with A negated, into
gnark's equation.

*The markers.* `NoMarkerPassedOver` speaks of the end of the search; `SearchIInv`
says at each turn that no begin delimiter before `pos` is outside the spans, and
`LaterOccurrences` that there is none before the next one found. For
`ReadsWhatWasWritten`, `RankExists` and `SevenPieces` cut a body that parses at its
six zero bytes, `MarkerIsWritten` reads the seven pieces on, token by token, to
the text of `MarkerText`, and `PairAgain` and `HexAgain` say that `to_hex` of the
value of two digits is their canonical spelling.

*The hash.* `ResultIsRemainder` compares the number a digest's bytes stand for with
that of the result's bytes. Both are values of recursive functions
(`Power`, `BeValue`); what is known of them comes from `TableExists` and
`TableUnique`, an induction over sets of naturals: every recurrence has exactly one
table up to n, so the functions satisfy their equations (`PowerStep`,
`BeAppend`). From these follow `PowerAdd`, `BeSplit` and `BeBound`, and, by
`LimbsMakeValue` and `WrittenValue`, that nothing is lost on the way through six
limbs of eight bytes and back.

*The snarkjs key.* `CircomVk` shares `Bytes` with `HashToField`, and its proofs the
facts about digits. A number's little-endian bytes are its digits (`LeBytes`);
padding and cutting leave the digits of the number modulo 2^256 (`PaddedBytes`,
`ResidueDigits`), which `BytesOfNumber` reads back. A point is a `FlattenSeq` of pieces of one
length: `PiecesJoin` says where each piece lies, `SlotValue` what number stands
there, `G1Written` and `G2Written` put them together. `SameG2` is the crux of
`RefusedForItsReason`: two points have the same bytes just when their
affine coordinates agree up to multiples of 2^256, so the check on bytes refuses neither more
nor less than equal trapdoors. `RefusedForItsReason` speaks of the end only;
`KeyIInv` adds, for each field, that once it is passed it was not malformed and
its bytes are written, and that a production key past delta has another delta
than gamma.

*Assumptions.* r > 1 and scalars at least up to r; `OffCurve` and `None` differ
from the values they stand beside; keys, proofs and inputs have the types of the
structs; the hash to field returns canonical elements (`HashAssumption`, which
`ResultIsCanonical` shows of `HashToField`). There a limb's radix is that of its
bytes, and the order fits four limbs but not three, as that of BN254 does.
In `CircomVk`: a coordinate has at least one byte, a byte more than one value, and
files are what serde returns for `RawVerifyingKey`, lists of any length.
In `SetupTxt`: binaries are sequences of tokens, and a digest has any length.
In `Program`: reading a point or scalar that was written gives it back, a fixture has
as many inputs as its circuit (asserted by `build_ix_data`), and the feature bsb22
is on, as in the program's `Cargo.toml`; of other words nothing is assumed.
In `ProofParser`: p is odd, the groups are closed under negation, have no point with
a coordinate zero, and at most two points share an x.

*Model-checked only.* `CallsReturn`, `SearchReturns`, `EveryCallReturns` and
`EveryInstructionAnswered`, which are liveness properties. `MismatchedKeyFails`
and `TestKeyNeedsFeature` are violated.

## 5. Not modelled

- That the syscalls implement BN254, SHA-256 and the pairing, and that the
  on-chain and host implementations agree; the models take the group for granted.
- The bytes of points where the verifier uses them (`ProofParser` has byte order,
  flags and compression where proofs are converted).
- The text of generated sources other than the metadata's place and guard.
- `Prove` and `NativeVerify` of the fixture beyond their call of `compile`: calls of gnark.
- The crate's re-exports, CI, benchmarks; tests, except as the client of `Program`.
