----------------------------- MODULE VkLifecycle -----------------------------
(***************************************************************************)
(* From a setup to a proof: how a verifying key gets into a program and a  *)
(* proving key into a prover, and what ties the two together.              *)
(*                                                                         *)
(*   - the setup (snarkjs, or the gnark fixture) writes the proving key,   *)
(*     then the verifying key, into two files, and may be run again;       *)
(*   - a build script or xtask calls the generator (generate_vk_file of    *)
(*     src/vk/circom.rs, generate_bsb22_vk_file of src/vk/gnark.rs), which *)
(*     reads both files and writes a Rust source file with the key and the *)
(*     metadata of src/vk/setup.rs;                                        *)
(*   - the compiler includes that file in a crate;                         *)
(*   - the prover hashes its proving key file, compares the digest with    *)
(*     the constant in the crate, and only then loads the file.            *)
(*                                                                         *)
(* They share nothing but files, and nothing locks the files.  A key pair  *)
(* is a member of Keys; the digest of a proving key file stands for what   *)
(* was in the file.                                                        *)
(***************************************************************************)
EXTENDS Naturals

CONSTANTS
    Keys,           \* key pairs that setups can produce
    Forgeable,      \* those whose delta equals their gamma
    MaxSetups       \* bound: how often the setup is run

ASSUME KeysAssumption == Forgeable \subseteq Keys
ASSUME MaxSetupsAssumption == MaxSetups \in Nat

\* What a file can hold besides a key: nothing, or the beginning of one.
CONSTANTS Missing, Torn

ASSUME ContentsAssumption == Missing # Torn /\ {Missing, Torn} \cap Keys = {}

VARIABLES
    pkFile, vkFile,     \* the two files of the setup
    setup,              \* where the setup stands, and the key it is writing
    setups,             \* how many setups were started
    gen,                \* a call of the generator
    out,                \* the generated source file
    crate,              \* what was compiled last
    prover              \* a prover: the verifying key in its crate, and what
                        \* it found in the proving key file when it last looked

vars == <<pkFile, vkFile, setup, setups, gen, out, crate, prover>>

Contents == Keys \cup {Missing, Torn}
Kinds    == {"InsecureTest", "Production"}

\* ProvingKeySource: the proving key file, or a digest from elsewhere.
Sources == [file : {TRUE}, digest : {Missing}] \cup [file : {FALSE}, digest : Keys]

\* How far the text of a source got: to the key, to the digest of the proving
\* key, or to the compile guard at its end.
Extents == {"key", "pin", "guard"}

\* A generated source that is Rust.  `calm' is history: the proving key that was
\* hashed was of one pair with the verifying key when that was read, and was
\* not written in between.
Generated ==
    {src \in [vk : Keys, digest : Keys \cup {Torn}, insecure : BOOLEAN,
              extent : Extents, calm : BOOLEAN] :
        ~src.insecure => src.vk \notin Forgeable}
\* No file, or one that was cut off within an item and is no Rust.
NothingGenerated == [vk |-> Missing]
Crates == [src : Generated, feature : BOOLEAN]
NoCrate == [src |-> NothingGenerated]

\* The three actors, and each of them at rest.
Setups == [pc : {"idle", "pk", "between", "vk"}, key : Keys \cup {Missing}]
Calls  == [pc : {"idle", "read", "hash", "emit", "write"}, kind : Kinds,
           source : Sources, vk : Contents, digest : Contents, calm : BOOLEAN]
Provers == [pc : {"idle", "load", "refused", "proving"},
            vk : Keys \cup {Missing}, pk : Contents, calm : BOOLEAN]

NoSetup == [pc |-> "idle", key |-> Missing]
NoCall  == [pc |-> "idle", kind |-> "Production",
            source |-> [file |-> TRUE, digest |-> Missing],
            vk |-> Missing, digest |-> Missing, calm |-> FALSE]
NoProver == [pc |-> "idle", vk |-> Missing, pk |-> Missing, calm |-> FALSE]

-----------------------------------------------------------------------------
(***************************************************************************)
(* The setup.  Each file is truncated, then filled.  It may be killed at   *)
(* any point.                                                              *)
(***************************************************************************)
\* History: the proving key is written between the generator's two reads, or
\* between the prover's.
PkWritten ==
    /\ gen' = [gen EXCEPT !.calm = @ /\ ~(gen.pc = "hash" /\ gen.source.file)]
    /\ prover' = [prover EXCEPT !.calm = @ /\ prover.pc # "load"]

StartSetup(k) ==
    /\ setup.pc = "idle" /\ setups < MaxSetups
    /\ setup' = [pc |-> "pk", key |-> k]
    /\ setups' = setups + 1
    /\ pkFile' = Torn
    /\ PkWritten
    /\ UNCHANGED <<vkFile, out, crate>>

WritePk ==
    /\ setup.pc = "pk"
    /\ pkFile' = setup.key
    /\ setup' = [setup EXCEPT !.pc = "between"]
    /\ PkWritten
    /\ UNCHANGED <<vkFile, setups, out, crate>>

TruncateVk ==
    /\ setup.pc = "between"
    /\ vkFile' = Torn
    /\ setup' = [setup EXCEPT !.pc = "vk"]
    /\ UNCHANGED <<pkFile, setups, gen, out, crate, prover>>

WriteVk ==
    /\ setup.pc = "vk"
    /\ vkFile' = setup.key
    /\ setup' = NoSetup
    /\ UNCHANGED <<pkFile, setups, gen, out, crate, prover>>

KillSetup ==
    /\ setup.pc # "idle"
    /\ setup' = NoSetup
    /\ UNCHANGED <<pkFile, vkFile, setups, gen, out, crate, prover>>

-----------------------------------------------------------------------------
(***************************************************************************)
(* The generator: read the verifying key, hash the proving key, emit the   *)
(* source, write it.  An error ends the call.                              *)
(***************************************************************************)
Generate(kind, source) ==
    /\ gen.pc = "idle"
    /\ gen' = [pc |-> "read", kind |-> kind, source |-> source,
               vk |-> Missing, digest |-> Missing, calm |-> FALSE]
    /\ UNCHANGED <<pkFile, vkFile, setup, setups, out, crate, prover>>

GeneratorGoesOn(step) ==
    /\ gen' = step
    /\ UNCHANGED <<pkFile, vkFile, setup, setups, crate, prover>>

GeneratorFails == GeneratorGoesOn(NoCall) /\ UNCHANGED out

\* ProvingKeySource: what would be hashed now.
PkSource == IF gen.source.file THEN pkFile ELSE gen.source.digest

\* fs::read fails on a missing file.  A truncated key does not parse: gnark's
\* generator parses here, snarkjs' only after it has hashed the proving key.
ReadVk ==
    /\ gen.pc = "read"
    /\ \/ /\ vkFile # Missing
          /\ GeneratorGoesOn([gen EXCEPT !.pc = "hash", !.vk = vkFile,
                                         !.calm = PkSource = vkFile])
          /\ UNCHANGED out
       \/ vkFile \in {Missing, Torn} /\ GeneratorFails

\* ProvingKeySource::sha256.  Any file that can be opened has a digest.
HashPk ==
    /\ gen.pc = "hash"
    /\ IF PkSource = Missing
       THEN GeneratorFails
       ELSE /\ GeneratorGoesOn([gen EXCEPT !.pc = "emit", !.digest = PkSource])
            /\ UNCHANGED out

ForgeableProductionVk == gen.kind = "Production" /\ gen.vk \in Forgeable

\* Mutant: whatever could be read is emitted.
Mutant_Parses == TRUE

Parses == gen.vk # Torn

\* Emitting is pure; then the output file is truncated and the text written:
\* the key, the metadata, the compile guard.
Emit ==
    /\ gen.pc = "emit"
    /\ IF ~Parses \/ ForgeableProductionVk
       THEN GeneratorFails
       ELSE /\ out' = [vk |-> gen.vk, digest |-> gen.digest,
                       insecure |-> gen.kind = "InsecureTest",
                       extent |-> "key", calm |-> gen.calm]
            /\ GeneratorGoesOn([gen EXCEPT !.pc = "write"])

FinishWrite ==
    /\ gen.pc = "write"
    /\ out' = [out EXCEPT !.extent = "guard"]
    /\ GeneratorGoesOn(NoCall)

\* The disk is full, or the process is killed: the file ends anywhere.
FailWrite ==
    /\ gen.pc = "write"
    /\ \/ out' = NothingGenerated
       \/ \E extent \in {"key", "pin"} : out' = [out EXCEPT !.extent = extent]
    /\ GeneratorGoesOn(NoCall)

-----------------------------------------------------------------------------
(***************************************************************************)
(* The compiler.  The guard of an InsecureTest key is an error unless the  *)
(* crate enables the feature `insecure-test-setup'.  The source may have   *)
(* been left by an earlier call: of an xtask, or of a build script that    *)
(* generates nothing when it finds no key (tests/rust-vk/build.rs).        *)
(***************************************************************************)
GuardFires(feature) == out.extent = "guard" /\ out.insecure /\ ~feature

Compile(feature) ==
    /\ gen.pc = "idle"
    /\ out # NothingGenerated
    /\ ~GuardFires(feature)
    /\ crate' = [src |-> out, feature |-> feature]
    /\ UNCHANGED <<pkFile, vkFile, setup, setups, gen, out, prover>>

-----------------------------------------------------------------------------
(***************************************************************************)
(* The prover.                                                             *)
(***************************************************************************)
\* Mutant: the prover does not look at the constant.
Mutant_PinMatches == TRUE

PinMatches == pkFile = crate.src.digest

\* The digest of the proving key file is compared with the crate's constant,
\* without which the prover does not compile.
StartProver ==
    /\ prover.pc = "idle"
    /\ crate # NoCrate
    /\ crate.src.extent # "key"
    /\ pkFile # Missing
    /\ prover' = [pc |-> IF PinMatches THEN "load" ELSE "refused",
                  vk |-> crate.src.vk, pk |-> pkFile,
                  calm |-> crate.src.calm]
    /\ UNCHANGED <<pkFile, vkFile, setup, setups, gen, out, crate>>

\* The file is opened a second time; a truncated key does not load.
LoadPk ==
    /\ prover.pc = "load"
    /\ prover' = [prover EXCEPT !.pc = IF pkFile \in Keys THEN "proving"
                                                          ELSE "refused",
                               !.pk = pkFile]
    /\ UNCHANGED <<pkFile, vkFile, setup, setups, gen, out, crate>>

EndProver ==
    /\ prover.pc \in {"refused", "proving"}
    /\ prover' = NoProver
    /\ UNCHANGED <<pkFile, vkFile, setup, setups, gen, out, crate>>

-----------------------------------------------------------------------------
Init ==
    /\ pkFile = Missing /\ vkFile = Missing
    /\ setup = NoSetup
    /\ setups = 0
    /\ gen = NoCall
    /\ out = NothingGenerated
    /\ crate = NoCrate
    /\ prover = NoProver

Next ==
    \/ \E k \in Keys : StartSetup(k)
    \/ WritePk \/ TruncateVk \/ WriteVk \/ KillSetup
    \/ \E kind \in Kinds, source \in Sources : Generate(kind, source)
    \/ ReadVk \/ HashPk \/ Emit \/ FinishWrite \/ FailWrite
    \/ \E feature \in BOOLEAN : Compile(feature)
    \/ StartProver \/ LoadPk \/ EndProver

Spec == Init /\ [][Next]_vars

-----------------------------------------------------------------------------
(***************************************************************************)
(* What is required of it.                                                 *)
(***************************************************************************)
\* The type invariant: only whole keys are ever emitted, a forgeable one only as
\* a test key, and that holds of what a failed write leaves behind.
TypeOK ==
    /\ pkFile \in Contents /\ vkFile \in Contents
    /\ setup \in Setups
    /\ setup.pc # "idle" => setup.key \in Keys
    /\ setups \in 0 .. MaxSetups
    /\ gen \in Calls
    /\ gen.pc \in {"hash", "emit"} => gen.vk # Missing
    /\ gen.pc = "emit" => gen.digest # Missing
    /\ out \in Generated \cup {NothingGenerated}
    /\ gen.pc = "write" => out \in Generated
    /\ crate \in Crates \cup {NoCrate}
    /\ prover \in Provers
    /\ prover.pc # "idle" => prover.vk \in Keys
    /\ prover.pc = "proving" => prover.pk \in Keys

\* The pinned digest decides, whatever setups do at other times: when the keys
\* were one pair as the generator read the first, and nobody wrote the proving
\* key between its two reads nor between the prover's, the prover goes on
\* exactly with the proving key of the crate's verifying key.
PinDecides ==
    prover.calm => /\ prover.pc = "refused" => prover.pk # prover.vk
                   /\ prover.pc = "proving" => prover.pk = prover.vk

-----------------------------------------------------------------------------
(***************************************************************************)
(* The inductive invariant: what a calm generator and a calm prover know   *)
(* of the proving key, and what that makes of a generated source.          *)
(***************************************************************************)
SourceSound(src) == src.calm => src.digest = src.vk

CalmGenerator ==
    gen.calm => /\ gen.pc = "hash" => PkSource = gen.vk
                /\ gen.pc = "emit" => gen.digest = gen.vk

CalmProver ==
    prover.calm /\ prover.pc = "load" => prover.pk = prover.vk /\ pkFile = prover.pk

IInv ==
    /\ TypeOK /\ PinDecides
    /\ out # NothingGenerated => SourceSound(out)
    /\ crate # NoCrate => SourceSound(crate.src)
    /\ CalmGenerator /\ CalmProver

-----------------------------------------------------------------------------
\* "A prover hashes the proving key it is about to load and compares, so a
\* stale or mismatched key fails before proving" (src/lib.rs): no prover goes
\* on with the proving key of another pair than its verifying key.
MismatchedKeyFails ==
    prover.pc = "proving" => prover.pk = prover.vk

\* "Such a vk only compiles in a crate that enables an insecure-test-setup
\* feature" (src/lib.rs): no crate without it holds a key of a test setup,
\* whatever became of the calls that wrote its source.
TestKeyNeedsFeature ==
    crate # NoCrate /\ ~crate.feature => ~crate.src.insecure
=============================================================================
