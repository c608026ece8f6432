----------------------------- MODULE Base64Uint -----------------------------
(***************************************************************************)
(* Numbers and raw signatures as base64url text (jwt/utils.py): a program  *)
(* writes one, the text is handed on by others, who may keep the padding,  *)
(* break lines or lose the end of it, and is read again.                   *)
(*                                                                         *)
(* Bytes are sequences of 0..255.  A text is a sequence of characters: the *)
(* values 0..63 of the alphabet, Pad, and Junk for all others.             *)
(* Functions that may raise return [error, value].                         *)
(***************************************************************************)
EXTENDS Integers, Sequences, SequencesExt

CONSTANTS
    Numbers,    \* integers the program writes
    Widths,     \* values of the argument bit_length
    CurveBits,  \* key sizes of curves
    MaxJunk     \* bound of the model: characters added to a text

None == -1  \* bit_length=None

ASSUME UintAssumption ==
    /\ Numbers \subseteq Int
    /\ Widths \subseteq Nat \cup {None}
    /\ CurveBits \subseteq Nat \ {0}
    /\ MaxJunk \in Nat

VARIABLES
    written,  \* what the program wrote
    error,    \* "ok", or what the writing raised
    text,     \* the text as it is now
    padded,   \* history: what has become of it on its way
    junk,
    cut

vars == <<written, error, text, padded, junk, cut>>

Pad == 64

Junk == 65

Byte == 0..255

Ok(value) == [error |-> "ok", value |-> value]

Fails(class) == [error |-> class, value |-> <<>>]

-----------------------------------------------------------------------------
(* base64url                                                               *)

\* The k-th byte, zero after the end.
ByteAt(s, k) == IF k <= Len(s) THEN s[k] ELSE 0

\* Three bytes from the i-th on, as one number.
Triple(s, i) == (ByteAt(s, i) * 256 + ByteAt(s, i + 1)) * 256 + ByteAt(s, i + 2)

\* Mutant: a character may carry bits of those before it.
Base64UrlEncode_NoMask(s) ==
    [j \in 1..((4 * Len(s) + 2) \div 3) |->
        Triple(s, 3 * ((j - 1) \div 4) + 1) \div 64^(3 - ((j - 1) % 4))]

\* base64url_encode: four characters for three bytes, none for padding.
Base64UrlEncode(s) ==
    [j \in 1..((4 * Len(s) + 2) \div 3) |->
        (Triple(s, 3 * ((j - 1) \div 4) + 1) \div 64^(3 - ((j - 1) % 4))) % 64]

\* binascii.a2b_base64, not strict: junk is skipped, and the padding that
\* completes a group of four ends the text.
DecodeStep(state, char) ==
    IF state.done \/ char = Junk THEN state
    ELSE IF char = Pad
    THEN IF state.quad < 2 THEN state
         ELSE [state EXCEPT !.pads = @ + 1, !.done = state.quad + state.pads + 1 >= 4]
    ELSE LET low == 4^(3 - state.quad)
         IN  [quad |-> (state.quad + 1) % 4,
              left |-> char % low,
              out  |-> IF state.quad = 0 THEN state.out
                       ELSE Append(state.out, state.left * 4^state.quad + char \div low),
              pads |-> 0,
              done |-> FALSE]

DecodeStart == [quad |-> 0, left |-> 0, out |-> <<>>, pads |-> 0, done |-> FALSE]

A2bBase64(chars) ==
    LET after[k \in 0..Len(chars)] ==
            IF k = 0 THEN DecodeStart ELSE DecodeStep(after[k - 1], chars[k])
        end == after[Len(chars)]
    IN  IF end.done \/ end.quad = 0 THEN Ok(end.out) ELSE Fails("binascii.Error")

Padding(n) == [i \in 1..n |-> Pad]

\* Mutant: the padding is taken to be there.
Base64UrlDecode_Padded(chars) == A2bBase64(chars)

\* base64url_decode: padding for the length the text has, junk included.
Base64UrlDecode(chars) ==
    LET rem == Len(chars) % 4
    IN  A2bBase64(IF rem > 0 THEN chars \o Padding(4 - rem) ELSE chars)

-----------------------------------------------------------------------------
(* Numbers.  Big-endian, like all of JOSE.                                 *)

TwoTo[n \in Nat] == IF n = 0 THEN 1 ELSE 2 * TwoTo[n - 1]

BytesOf(val, n) == [i \in 1..n |-> (val \div TwoTo[8 * (n - i)]) % 256]

IntFromBytes(s) ==
    LET number[i \in 0..Len(s)] == IF i = 0 THEN 0 ELSE 256 * number[i - 1] + s[i]
    IN  number[Len(s)]

\* int.bit_length
BitLength(val) == CHOOSE b \in 0..val : val < TwoTo[b] /\ (b > 0 => val >= TwoTo[b - 1])

\* Mutant: bit_length is not heeded.
BytesFromInt_Shortest(val, bits) ==
    Ok(BytesOf(val, (BitLength(val) + 7) \div 8))

\* bytes_from_int
BytesFromInt(val, bits) ==
    LET n == ((IF bits = None THEN BitLength(val) ELSE bits) + 7) \div 8
    IN  IF val >= TwoTo[8 * n] THEN Fails("OverflowError") ELSE Ok(BytesOf(val, n))

\* to_base64url_uint
ToBase64UrlUint(val, bits) ==
    IF val < 0 THEN Fails("ValueError")
    ELSE LET bytes == BytesFromInt(val, bits)
         IN  IF bytes.error # "ok" THEN bytes
             ELSE Ok(Base64UrlEncode(IF bytes.value = <<>> THEN <<0>> ELSE bytes.value))

\* from_base64url_uint
FromBase64UrlUint(chars) ==
    LET bytes == Base64UrlDecode(chars)
    IN  IF bytes.error # "ok" THEN bytes ELSE Ok(IntFromBytes(bytes.value))

-----------------------------------------------------------------------------
(* Raw signatures: two numbers, each as wide as the curve.                 *)

NumBytes(bits) == (bits + 7) \div 8

\* "%0*x": at least the digits asked for.
HexDigits(num, n) ==
    LET needed == (BitLength(num) + 3) \div 4
    IN  IF needed > 2 * n THEN needed ELSE 2 * n

\* Mutant: "%x".
NumberToBytes_NoZeros(num, n) == BytesFromInt(num, None)

\* number_to_bytes
NumberToBytes(num, n) ==
    IF HexDigits(num, n) % 2 = 1 THEN Fails("binascii.Error")
    ELSE Ok(BytesOf(num, HexDigits(num, n) \div 2))

\* der_to_raw_signature, of a DER signature of r and s.
DerToRawSignature(r, s, bits) ==
    LET rBytes == NumberToBytes(r, NumBytes(bits))
        sBytes == NumberToBytes(s, NumBytes(bits))
    IN  IF rBytes.error # "ok" THEN rBytes
        ELSE IF sBytes.error # "ok" THEN sBytes
        ELSE Ok(rBytes.value \o sBytes.value)

\* Mutant: the length is not looked at.
RawToDerSignature_AnyLength(raw, bits) ==
    LET half == Len(raw) \div 2
    IN  Ok(<<IntFromBytes(SubSeq(raw, 1, half)), IntFromBytes(SubSeq(raw, half + 1, Len(raw)))>>)

\* raw_to_der_signature
RawToDerSignature(raw, bits) ==
    LET n == NumBytes(bits)
    IN  IF Len(raw) # 2 * n THEN Fails("ValueError")
        ELSE Ok(<<IntFromBytes(SubSeq(raw, 1, n)), IntFromBytes(SubSeq(raw, n + 1, 2 * n))>>)

\* The signature segment of a token, as ECAlgorithm.verify comes to see it.
ReadSignature(chars, bits) ==
    LET raw == Base64UrlDecode(chars)
    IN  IF raw.error # "ok" THEN raw ELSE RawToDerSignature(raw.value, bits)

-----------------------------------------------------------------------------

Write(what, result) ==
    /\ written' = what
    /\ error' = result.error
    /\ text' = result.value
    /\ padded' = FALSE
    /\ junk' = 0
    /\ cut' = FALSE

Nothing == [kind |-> "nothing"]

Init ==
    /\ written = Nothing
    /\ error = "ok"
    /\ text = <<>>
    /\ padded = FALSE
    /\ junk = 0
    /\ cut = FALSE

WriteUint(val, bits) ==
    /\ written = Nothing
    /\ Write([kind |-> "uint", number |-> val, bits |-> bits], ToBase64UrlUint(val, bits))

\* A signature by ECAlgorithm.sign, as a segment of a token.
WriteSignature(r, s, bits) ==
    /\ written = Nothing
    /\ LET raw == DerToRawSignature(r, s, bits)
       IN  Write([kind |-> "signature", numbers |-> <<r, s>>, bits |-> bits],
                 IF raw.error # "ok" THEN raw ELSE Ok(Base64UrlEncode(raw.value)))

\* The text is handed on by a program that pads it,
KeepPadding ==
    /\ text # <<>> /\ ~padded /\ ~cut
    /\ text' = text \o Padding((4 - ((Len(text) - junk) % 4)) % 4)
    /\ padded' = TRUE
    /\ UNCHANGED <<written, error, junk, cut>>

\* by one that breaks it into lines,
InsertJunk(i) ==
    /\ text # <<>> /\ junk < MaxJunk
    /\ text' = InsertAt(text, i, Junk)
    /\ junk' = junk + 1
    /\ UNCHANGED <<written, error, padded, cut>>

\* or by one that loses its end.
Cut ==
    /\ text # <<>> /\ ~padded /\ junk = 0
    /\ text' = Front(text)
    /\ cut' = TRUE
    /\ UNCHANGED <<written, error, padded, junk>>

Next ==
    \/ \E val \in Numbers, bits \in Widths : WriteUint(val, bits)
    \/ \E bits \in CurveBits : \E r, s \in {n \in Numbers : 0 < n /\ n < TwoTo[bits]} :
          WriteSignature(r, s, bits)
    \/ KeepPadding
    \/ \E i \in 1..(Len(text) + 1) : InsertJunk(i)
    \/ Cut

Spec == Init /\ [][Next]_vars

-----------------------------------------------------------------------------

TypeOK ==
    /\ written.kind \in {"nothing", "uint", "signature"}
    /\ error \in {"ok", "ValueError", "OverflowError"}
    /\ text \in Seq(0..Junk)
    /\ padded \in BOOLEAN
    /\ junk \in 0..MaxJunk
    /\ cut \in BOOLEAN

\* A number that is read is the number that was written: with padding or
\* without, and after lines were broken; these may make a text unreadable, for
\* base64url_decode counts what the decoder skips, but never change the
\* number.  Only negative numbers and those wider than bit_length are refused
\* (utils.py:25-54, 66-71).
UintsSurvive ==
    written.kind = "uint" =>
        LET number == written.number
            bits   == written.bits
            read   == FromBase64UrlUint(text)
        IN  /\ error = "ok" <=> (number >= 0 /\ (bits # None => number < TwoTo[8 * NumBytes(bits)]))
            /\ (error = "ok" /\ ~cut) =>
                  \/ read = Ok(number)
                  \/ junk > 0 /\ read.error = "binascii.Error"

\* With bit_length a number takes the bytes of that width, whatever zeros it
\* begins with, which is what from_jwk asks of the coordinates of a curve;
\* without, it begins with a zero byte only if it is zero (utils.py:40-49, 66-71;
\* algorithms.py:700-714, 745-789).
WidthsAreExact ==
    (written.kind = "uint" /\ error = "ok" /\ junk = 0 /\ ~cut) =>
        LET bytes == Base64UrlDecode(text).value
        IN  IF written.bits \notin {None, 0}
            THEN Len(bytes) = NumBytes(written.bits)
            ELSE bytes # <<>> /\ (bytes[1] = 0 => bytes = <<0>>)

\* A signature that is read is the one that was written, at every size of curve,
\* whole bytes or not; curves of another width refuse it (utils.py:57-63, 74-93).
SignaturesSurvive ==
    (written.kind = "signature" /\ junk = 0 /\ ~cut) =>
        \A bits \in CurveBits :
            ReadSignature(text, bits) =
                IF NumBytes(bits) = NumBytes(written.bits)
                THEN Ok(written.numbers) ELSE Fails("ValueError")

\* Of a signature that has lost characters nothing is read: no other pair of
\* numbers, not even with zeros in place of what is missing (utils.py:25-33, 83-88).
CutSignaturesAreRefused ==
    (written.kind = "signature" /\ cut) => ReadSignature(text, written.bits).error # "ok"
=============================================================================
