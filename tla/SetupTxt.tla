------------------------------ MODULE SetupTxt ------------------------------
(***************************************************************************)
(* The setup marker of src/vk/setup.rs: what SetupTxt::to_marker puts into *)
(* a program binary, and find_setup_txts, which looks for the markers in   *)
(* the bytes of a binary and reads them back.                              *)
(*                                                                         *)
(* Bytes are grouped into tokens as far as the functions tell them apart:  *)
(* the text of a delimiter, the zero byte, a field name, a digit.  A       *)
(* binary is a sequence of tokens.  A digest has DigestLen bytes (32 in    *)
(* the code), two digits each.                                             *)
(***************************************************************************)
EXTENDS Integers, FiniteSets, SequencesExt

CONSTANTS
    DigestLen,
    Binaries        \* the binaries that are searched

ASSUME DigestLenAssumption == DigestLen \in Nat
ASSUME BinariesAssumption  == Binaries \subseteq Seq(STRING)

\* The tokens that matter; any other string is a token too.
NUL      == "\\0"
BadUtf8  == "\\xff"
HexValue == [c \in {"0", "1", "f", "F"} |->
                CASE c = "0" -> 0 [] c = "1" -> 1 [] OTHER -> 15]

SETUP_TXT_BEGIN == <<"BEGIN GROTH16 VK SETUP V1", NUL>>
SETUP_TXT_END   == <<"END GROTH16 VK SETUP V1", NUL>>

FIELD_NAME                == <<"name">>
FIELD_INSECURE_TEST_SETUP == <<"insecure_test_setup">>
FIELD_PROVING_KEY_SHA256  == <<"proving_key_sha256">>

VARIABLES
    binary,
    pos,
    found,
    res,        \* how the search ended, and the offset an error names
    spans       \* history: where each marker found begins, and the first token behind it

searchVars == <<binary, pos, found, res, spans>>

-----------------------------------------------------------------------------
(***************************************************************************)
(* Digits.                                                                 *)
(***************************************************************************)
HexDigit(n) == CASE n = 0 -> "0" [] n = 1 -> "1" [] n = 15 -> "f"

\* Bytes here are made of the digits 0, 1 and f.
to_hex(bytes) ==
    [k \in 1 .. 2 * Len(bytes) |->
        LET byte == bytes[(k + 1) \div 2] IN
        HexDigit(IF k % 2 = 1 THEN byte \div 16 ELSE byte % 16)]

IsHexDigit(c) == c \in DOMAIN HexValue

\* u8::from_str_radix(pair, 16): one leading + is skipped when a digit follows.
PairParses(c, d) == IsHexDigit(d) /\ (IsHexDigit(c) \/ c = "+")
PairValue(c, d)  == HexValue[d] + (IF c = "+" THEN 0 ELSE 16 * HexValue[c])

HexParses(s) ==
    /\ Len(s) = 2 * DigestLen
    /\ \A k \in 1 .. DigestLen : PairParses(s[2 * k - 1], s[2 * k])

from_hex(s) == [k \in 1 .. DigestLen |-> PairValue(s[2 * k - 1], s[2 * k])]

-----------------------------------------------------------------------------
(***************************************************************************)
(* The marker and its parser.                                              *)
(***************************************************************************)
MarkerText(name, insecure, hex) ==
    SETUP_TXT_BEGIN
    \o FIELD_NAME \o <<NUL>> \o name \o <<NUL>>
    \o FIELD_INSECURE_TEST_SETUP \o <<NUL>>
    \o <<IF insecure THEN "true" ELSE "false">> \o <<NUL>>
    \o FIELD_PROVING_KEY_SHA256 \o <<NUL>> \o hex \o <<NUL>>
    \o SETUP_TXT_END

to_marker(t) ==
    MarkerText(t.name, t.insecure_test_setup, to_hex(t.proving_key_sha256))

\* The zero bytes of a text, and the n-th of them.
Nuls(text) == {k \in 1 .. Len(text) : text[k] = NUL}
Nul(text, n) ==
    CHOOSE k \in Nuls(text) : Cardinality({j \in Nuls(text) : j < k}) = n - 1

\* text.split('\0'): the pieces between the zero bytes.
Split(text) ==
    LET last     == Cardinality(Nuls(text)) + 1
        Start(n) == IF n = 1 THEN 1 ELSE Nul(text, n - 1) + 1
        End(n)   == IF n = last THEN Len(text) ELSE Nul(text, n) - 1
    IN  [n \in 1 .. last |-> SubSeq(text, Start(n), End(n))]

\* Mutant: what follows the last field is not looked at.
Mutant_BodyParses(body) ==
    LET parts == Split(body) IN
    /\ BadUtf8 \notin ToSet(body)
    /\ Len(parts) >= 6
    /\ parts[1] = FIELD_NAME
    /\ parts[3] = FIELD_INSECURE_TEST_SETUP /\ parts[4] \in {<<"true">>, <<"false">>}
    /\ parts[5] = FIELD_PROVING_KEY_SHA256 /\ HexParses(parts[6])

\* Every key and value is \0-terminated, so the last part is empty.
BodyParses(body) ==
    LET parts == Split(body) IN
    /\ BadUtf8 \notin ToSet(body)
    /\ Len(parts) = 7 /\ parts[7] = <<>>
    /\ parts[1] = FIELD_NAME
    /\ parts[3] = FIELD_INSECURE_TEST_SETUP /\ parts[4] \in {<<"true">>, <<"false">>}
    /\ parts[5] = FIELD_PROVING_KEY_SHA256 /\ HexParses(parts[6])

parse_body(body) ==
    LET parts == Split(body) IN
    [name                |-> parts[2],
     insecure_test_setup |-> parts[4] = <<"true">>,
     proving_key_sha256  |-> from_hex(parts[6])]

-----------------------------------------------------------------------------
(***************************************************************************)
(* find_setup_txts.                                                        *)
(***************************************************************************)
\* The offsets at which needle occurs in the binary, from `from' on.
Occurrences(needle, from) ==
    {k \in from .. Len(binary) - Len(needle) :
        SubSeq(binary, k + 1, k + Len(needle)) = needle}

Stop(kind, offset) ==
    /\ res' = [kind |-> kind, offset |-> offset]
    /\ UNCHANGED <<binary, pos, found, spans>>

NoMoreMarkers ==
    /\ res.kind = "searching"
    /\ Occurrences(SETUP_TXT_BEGIN, pos) = {}
    /\ Stop("Ok", 0)

\* Mutant: a marker without an end is skipped, and the search forgets to move on.
Mutant_Unterminated(offset) == UNCHANGED searchVars

Unterminated(offset) == Stop("Unterminated", offset)

\* Mutant: the search goes on one token too late.
Mutant_NextPos(bodyEnd) == bodyEnd + Len(SETUP_TXT_END) + 1

NextPos(bodyEnd) == bodyEnd + Len(SETUP_TXT_END)

\* The body runs from bodyStart to the next end delimiter, at bodyEnd.
ReadBody(offset, bodyStart, bodyEnd) ==
    \E body \in {SubSeq(binary, bodyStart + 1, bodyEnd)} :
        \/ /\ ~BodyParses(body)
           /\ Stop("Malformed", offset)
        \/ /\ BodyParses(body)
           /\ found' = Append(found, parse_body(body))
           /\ spans' = Append(spans, [first |-> offset, next |-> bodyEnd + Len(SETUP_TXT_END)])
           /\ pos' = NextPos(bodyEnd)
           /\ UNCHANGED <<binary, res>>

NextMarker ==
    /\ res.kind = "searching"
    /\ \E begins \in {Occurrences(SETUP_TXT_BEGIN, pos)} :
        /\ begins # {}
        /\ LET offset    == Min(begins)
               bodyStart == offset + Len(SETUP_TXT_BEGIN)
               ends      == Occurrences(SETUP_TXT_END, bodyStart)
           IN  \/ ends = {} /\ Unterminated(offset)
               \/ ends # {} /\ ReadBody(offset, bodyStart, Min(ends))

SearchInit ==
    /\ binary \in Binaries
    /\ pos = 0
    /\ found = <<>>
    /\ res = [kind |-> "searching", offset |-> 0]
    /\ spans = <<>>

SearchNext == NoMoreMarkers \/ NextMarker

\* The search is one call of a function: it runs until it returns.
SearchSpec == SearchInit /\ [][SearchNext]_searchVars /\ WF_searchVars(SearchNext)

-----------------------------------------------------------------------------
(***************************************************************************)
(* What is required of it.                                                 *)
(***************************************************************************)
InSomeSpan(k) == \E n \in 1 .. Len(spans) : spans[n].first <= k /\ k < spans[n].next

\* "One entry per verifying key, in file order": when the search succeeds, every
\* begin delimiter of the binary belongs to a marker that was read, and the
\* markers follow each other. When it fails, it names the first begin delimiter
\* that could not be read, so nothing before it was lost (find_setup_txts).
NoMarkerPassedOver ==
    LET open == {k \in Occurrences(SETUP_TXT_BEGIN, 0) : ~InSomeSpan(k)} IN
    /\ res.kind = "Ok" => open = {}
    /\ res.kind \in {"Unterminated", "Malformed"} => res.offset = Min(open)
    /\ \A n \in 2 .. Len(spans) : spans[n - 1].next <= spans[n].first

\* Every search returns, whatever the binary holds (the loop of find_setup_txts).
SearchReturns == <>(res.kind # "searching")

\* What is read is what was written: the text of each marker that was found
\* is to_marker of the values found, up to the spellings of a digest that
\* from_hex takes for the same byte (parse_body against to_marker).
Canonical(hex) ==
    [k \in 1 .. Len(hex) |-> CASE hex[k] = "F" -> "f"
                               [] hex[k] = "+" -> "0"
                               [] OTHER -> hex[k]]

DigitsOf(text) == SubSeq(text, Len(text) - 2 * DigestLen - 2, Len(text) - 3)

ReadsWhatWasWritten ==
    \A n \in 1 .. Len(found) :
        LET text == SubSeq(binary, spans[n].first + 1, spans[n].next) IN
        /\ text = MarkerText(found[n].name, found[n].insecure_test_setup,
                             DigitsOf(text))
        /\ Canonical(DigitsOf(text)) = to_hex(found[n].proving_key_sha256)

\* The invariant of the search: the markers read so far follow each other up
\* to where the search is, hold every begin delimiter before it, and say what
\* was read.
SearchTypeOK ==
    /\ binary \in Binaries
    /\ pos \in 0 .. Len(binary)
    /\ res \in [kind : {"searching", "Ok", "Unterminated", "Malformed"}, offset : Nat]
    /\ found \in Seq([name : Seq(STRING), insecure_test_setup : BOOLEAN,
                       proving_key_sha256 : [1 .. DigestLen -> Nat]])
    /\ spans \in Seq([first : Nat, next : Nat])
    /\ Len(found) = Len(spans)

SearchIInv ==
    /\ SearchTypeOK
    /\ \A n \in 1 .. Len(spans) : spans[n].next <= pos
    /\ \A n \in 2 .. Len(spans) : spans[n - 1].next <= spans[n].first
    /\ \A k \in Occurrences(SETUP_TXT_BEGIN, 0) : k < pos => InSomeSpan(k)
    /\ res.kind = "Ok" => Occurrences(SETUP_TXT_BEGIN, pos) = {}
    /\ res.kind \in {"Unterminated", "Malformed"} =>
          /\ Occurrences(SETUP_TXT_BEGIN, pos) # {}
          /\ res.offset = Min(Occurrences(SETUP_TXT_BEGIN, pos))
    /\ ReadsWhatWasWritten
===============================================================================
