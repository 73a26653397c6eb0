----------------------------- MODULE MCSetupTxt -----------------------------
(***************************************************************************)
(* Binaries made of up to three segments: markers as to_marker writes      *)
(* them, bytes between markers, and markers that something has damaged.    *)
(***************************************************************************)
EXTENDS SetupTxt

Digest(b) == [k \in 1 .. DigestLen |-> b]

Txt(name, insecure, b) ==
    [name |-> name, insecure_test_setup |-> insecure,
     proving_key_sha256 |-> Digest(b)]

Good == {Txt(<<"VK_A">>, TRUE, 31), Txt(<<"VK_B">>, FALSE, 1)}

Marker == to_marker(Txt(<<"VK">>, TRUE, 16))

Without(s, k) == SubSeq(s, 1, k - 1) \o SubSeq(s, k + 1, Len(s))
Put(s, k, token) == [s EXCEPT ![k] = token]

\* With L tokens: 1 and 2 are the begin delimiter, 3 to L - 2 the body (its
\* digest ends at L - 3), L - 1 and L the end delimiter.
Damaged ==
    LET L == Len(Marker) IN
    {SubSeq(Marker, 1, L - 1), SubSeq(Marker, 1, L - 2), SubSeq(Marker, 1, 2),
     Without(Marker, L - 2), Without(Marker, L - 3),
     Put(Marker, 3, "label"), Put(Marker, 9, "yes"), Put(Marker, L - 3, "z"),
     Put(Marker, 5, BadUtf8), SETUP_TXT_BEGIN \o Marker,
     SubSeq(Marker, 1, L - 2) \o <<"extra", NUL, "field", NUL>> \o SETUP_TXT_END,
     SubSeq(Marker, 1, 4) \o Marker}

Gaps == {<<"ELF">>, <<NUL>>, <<SETUP_TXT_BEGIN[1]>>, SETUP_TXT_END}

\* Markers whose digest is spelled in another way than to_marker spells it.
Respelled == {Put(Marker, Len(Marker) - 4, c) : c \in {"F", "+"}}

Segments == {to_marker(t) : t \in Good} \cup Damaged \cup Gaps \cup Respelled

MCBinaries == {FlattenSeq(s) : s \in UNION {[1 .. n -> Segments] : n \in 0 .. 3}}
=============================================================================
