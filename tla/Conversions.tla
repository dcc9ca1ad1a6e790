----------------------------- MODULE Conversions -----------------------------
(***************************************************************************)
(* The conversions: url_decode, which every request goes through, and      *)
(* url_encode; base64_encode, which signs the requests to the gateway, and *)
(* base64_decode; and the time to live of an order, days * 86400 seconds   *)
(* in an int32_t; and the query string of a request, taken apart by two    *)
(* nested strtok_r.  Characters are bytes, strings sequences of bytes.     *)
(*                                                                         *)
(* One call: the input is chosen, the output computed.                     *)
(***************************************************************************)
EXTENDS Integers, Sequences, FiniteSets, SequencesExt

CONSTANTS
    UrlTexts,       \* strings given to url_encode, without a NUL
    UrlRequests,    \* what arrives and is given to url_decode as it is
    Base64Texts,    \* strings given to base64_encode
    Queries,        \* query strings: parts between '&', each its tokens between '='
    Days            \* expire times of orders

ASSUME TextsAssumption ==
    /\ UrlTexts \subseteq Seq(1 .. 255) /\ UrlRequests \subseteq Seq(1 .. 255)
    /\ Base64Texts \subseteq Seq(0 .. 255)
    /\ Queries \subseteq Seq(Seq(STRING))
    /\ Days \subseteq Nat

VARIABLES
    call,       \* the function called and its input
    output,     \* what it returned
    again       \* what the inverse function makes of that

convVars == <<call, output, again>>

None == << >>
NUL == 0

-----------------------------------------------------------------------------
(* UrlEncode.cpp *)

Digits == 48 .. 57
Upper == 65 .. 90
Lower == 97 .. 122
Alnum == Digits \cup Upper \cup Lower
Plain == Alnum \cup {45, 95, 46, 126}       \* - _ . ~
Space == 32
Plus == 43
Percent == 37

(* In a char: from_hex of what is no hex digit is some number, too. *)
from_hex(ch) ==
    IF ch \in Digits THEN ch - 48
    ELSE (IF ch \in Upper THEN ch + 32 ELSE ch) - 97 + 10

to_hex(code) == IF code < 10 THEN 48 + code ELSE 65 + code - 10

(* Faulty variant: a plus sign is left as it is. *)
LaxEncodeChar(c) ==
    IF c \in Plain \cup {Plus} THEN <<c>>
    ELSE IF c = Space THEN <<Plus>>
    ELSE <<Percent, to_hex(c \div 16), to_hex(c % 16)>>

EncodeChar(c) ==
    IF c \in Plain THEN <<c>>
    ELSE IF c = Space THEN <<Plus>>
    ELSE <<Percent, to_hex(c \div 16), to_hex(c % 16)>>

url_encode(s) == FlattenSeq([i \in DOMAIN s |-> EncodeChar(s[i])])

(* hi << 4 | lo, in a byte.  For hex digits the sum; else bits overlap. *)
Or4(a, b) ==
    LET bit(e) == IF (a \div e) % 2 = 1 \/ (b \div e) % 2 = 1 THEN e ELSE 0
    IN bit(8) + bit(4) + bit(2) + bit(1)
HexByte(hi, lo) == 16 * Or4(hi % 16, (lo % 256) \div 16) + (lo % 16)

(* Faulty variant: the two digits are read although the text ends. *)
GreedyDecodeAt(s) ==
    LET dec[p \in 1 .. Len(s) + 3] ==
            IF p > Len(s) THEN << >>
            ELSE IF s[p] = Percent
                 THEN LET at(q) == IF q <= Len(s) THEN s[q] ELSE NUL
                      IN <<HexByte(from_hex(at(p + 1)), from_hex(at(p + 2)))>> \o dec[p + 3]
            ELSE IF s[p] = Plus THEN <<Space>> \o dec[p + 1]
            ELSE <<s[p]>> \o dec[p + 1]
    IN dec[1]

(* The loop from position p on.  A '%' without two characters after it is   *)
(* dropped.                                                                 *)
DecodeAt(s) ==
    LET dec[p \in 1 .. Len(s) + 3] ==
            IF p > Len(s) THEN << >>
            ELSE IF s[p] = Percent /\ p + 2 <= Len(s)
                 THEN <<HexByte(from_hex(s[p + 1]), from_hex(s[p + 2]))>> \o dec[p + 3]
            ELSE IF s[p] = Percent THEN dec[p + 1]
            ELSE IF s[p] = Plus THEN <<Space>> \o dec[p + 1]
            ELSE <<s[p]>> \o dec[p + 1]
    IN dec[1]

(* s up to the first c, if there is one. *)
CutAt(s, c) ==
    LET at == {i \in DOMAIN s : s[i] = c}
    IN IF at = {} THEN s ELSE SubSeq(s, 1, (CHOOSE i \in at : \A j \in at : i <= j) - 1)

(* strBuf = buf: a decoded NUL ends the string. *)
url_decode(s) == CutAt(DecodeAt(s), NUL)

-----------------------------------------------------------------------------
(* Base64.cpp, Base64_2.cpp.  The codes 0 .. 63 stand for base64_chars.      *)

Pad == 64

(* char_array_4 of three bytes *)
FourOf(b) ==
    <<b[1] \div 4,
      (b[1] % 4) * 16 + (b[2] \div 16),
      (b[2] % 16) * 4 + (b[3] \div 64),
      b[3] % 64>>

(* Faulty variant: a rest of one byte gives three characters. *)
LongEncodeGroup(b) ==
    LET full == b \o [j \in 1 .. 3 - Len(b) |-> 0]
    IN [j \in 1 .. 4 |-> IF j <= Len(b) + 2 THEN FourOf(full)[j] ELSE Pad]

(* A group of one to three bytes, the last one padded. *)
EncodeGroup(b) ==
    LET full == b \o [j \in 1 .. 3 - Len(b) |-> 0]
    IN [j \in 1 .. 4 |-> IF j <= Len(b) + 1 THEN FourOf(full)[j] ELSE Pad]

(* s cut into groups of n, the last one shorter. *)
Groups(s, n) ==
    [g \in 1 .. (Len(s) + n - 1) \div n |->
        SubSeq(s, n * (g - 1) + 1, IF n * g <= Len(s) THEN n * g ELSE Len(s))]

base64_encode(s) ==
    FlattenSeq([g \in 1 .. (Len(s) + 2) \div 3 |-> EncodeGroup(Groups(s, 3)[g])])

(* char_array_3 of four codes *)
ThreeOf(c) ==
    <<(c[1] * 4 + ((c[2] \div 16) % 4)) % 256,
      ((c[2] % 16) * 16 + ((c[3] \div 4) % 16)) % 256,
      ((c[3] % 4) * 64 + c[4]) % 256>>

(* A short group is filled with what find gives for NUL: npos, 255 in a byte. *)
DecodeGroup(c) ==
    LET full == c \o [j \in 1 .. 4 - Len(c) |-> 255]
    IN SubSeq(ThreeOf(full), 1, IF Len(c) = 4 THEN 3 ELSE Len(c) - 1)

(* The loop stops at the first '='. *)
base64_decode(t) ==
    LET c == CutAt(t, Pad)
    IN FlattenSeq([g \in 1 .. (Len(c) + 3) \div 4 |-> DecodeGroup(Groups(c, 4)[g])])

-----------------------------------------------------------------------------
(* UserPutExpire(..., atol(m_expireTime) * 86400): in units of 128 seconds a  *)
(* day is 675 and an int32_t holds 25 bits, exactly.                          *)

Unit == 128
DayUnits == 675
Forever == -1      \* SET without ex

int32(u) == ((u + 16777216) % 33554432) - 16777216

(* Faulty variant: 0 is sent as a time to live, which Redis refuses. *)
ZeroExpiry(d) ==
    LET expiration == int32(d * DayUnits)
    IN IF expiration > 0 THEN expiration ELSE IF expiration = 0 THEN 0 ELSE Forever

(* SetValue: SET ... ex only for a positive number. *)
OrderExpiry(d) ==
    LET expiration == int32(d * DayUnits)
    IN IF expiration > 0 THEN expiration ELSE Forever

-----------------------------------------------------------------------------
(* BdxGetHttpPacket: the tokens of all parts are numbered on; each with an odd *)
(* number (from 0) becomes the value of the one before it.  strtok_r passes    *)
(* over an empty token.                                                        *)

(* Faulty variant: the pairs are formed one token late. *)
LateParams(q) ==
    LET t == FlattenSeq(q)
        values == {i \in DOMAIN t : i > 2 /\ i % 2 = 1}
    IN [k \in {t[i - 1] : i \in values} |->
            LET of == {i \in values : t[i - 1] = k}
            IN t[CHOOSE i \in of : \A j \in of : j <= i]]

Params(q) ==
    LET t == FlattenSeq(q)
        values == {i \in DOMAIN t : i % 2 = 0}
    IN [k \in {t[i - 1] : i \in values} |->
            LET of == {i \in values : t[i - 1] = k}
            IN t[CHOOSE i \in of : \A j \in of : j <= i]]

-----------------------------------------------------------------------------
NoCall == <<"none">>

ConvInit ==
    /\ call = NoCall
    /\ output = None
    /\ again = None

(* A worker has something to convert. *)
Call(c) ==
    /\ call' = c
    /\ UNCHANGED <<output, again>>

Calls == ({"encode"} \X UrlTexts) \cup ({"decode"} \X UrlRequests) \cup ({"base64"} \X Base64Texts)
         \cup ({"expire"} \X Days) \cup ({"query"} \X Queries)

Input == call[2]

UrlEncode ==
    /\ call[1] = "encode" /\ output = None
    /\ output' = <<url_encode(Input)>>
    /\ again' = <<url_decode(url_encode(Input))>>
    /\ UNCHANGED call

UrlDecode ==
    /\ call[1] = "decode" /\ output = None
    /\ output' = <<url_decode(Input)>>
    /\ UNCHANGED <<call, again>>

Base64Encode ==
    /\ call[1] = "base64" /\ output = None
    /\ output' = <<base64_encode(Input)>>
    /\ again' = <<base64_decode(base64_encode(Input))>>
    /\ UNCHANGED call

PutExpire ==
    /\ call[1] = "expire" /\ output = None
    /\ output' = <<OrderExpiry(Input)>>
    /\ UNCHANGED <<call, again>>

GetParams ==
    /\ call[1] = "query" /\ output = None
    /\ output' = <<Params(Input)>>
    /\ UNCHANGED <<call, again>>

Convert == GetParams \/ UrlEncode \/ UrlDecode \/ Base64Encode \/ PutExpire

-----------------------------------------------------------------------------
(* What was encoded is got back, byte for byte, by either decoder: the       *)
(* signed shifts, the plus sign and the padding included.                    *)
RoundTrip ==
    again # None => again[1] = Input

(* The reference for base64: code k of the output holds bits 6k .. 6k + 5 of *)
(* the input, read as one string of bits, and the rest is padding to a       *)
(* multiple of four.                                                         *)
Base64Bits ==
    call[1] = "base64" /\ output # None =>
        LET weight == <<128, 64, 32, 16, 8, 4, 2, 1>>
            bit(n) == IF n \div 8 < Len(Input) THEN (Input[(n \div 8) + 1] \div weight[(n % 8) + 1]) % 2 ELSE 0
            code(k) == 32 * bit(6*k) + 16 * bit(6*k + 1) + 8 * bit(6*k + 2)
                       + 4 * bit(6*k + 3) + 2 * bit(6*k + 4) + bit(6*k + 5)
            used == (8 * Len(Input) + 5) \div 6
        IN /\ Len(output[1]) = 4 * ((Len(Input) + 2) \div 3)
           /\ \A k \in 0 .. Len(output[1]) - 1 :
                 output[1][k + 1] = IF k < used THEN code(k) ELSE Pad

(* The buffers: url_decode has strlen + 1 bytes and needs no more, and never *)
(* takes in a byte beyond the end of the text, whatever the request holds: a *)
(* text without a whole escape keeps its characters up to the cut escape.    *)
DecodeFits ==
    call[1] = "decode" /\ output # None =>
        /\ Len(output[1]) <= Len(Input)
        /\ \A i \in DOMAIN output[1] : output[1][i] \in 1 .. 255
        /\ (\A p \in DOMAIN Input : Input[p] = Percent => p + 2 > Len(Input)) =>
              Len(output[1]) = Cardinality({p \in DOMAIN Input : Input[p] # Percent})

(* A parameter has the value it was sent with, the last one if sent twice,    *)
(* as long as every part is "key=value": a part that is not (an empty value,  *)
(* a second '=') shifts keys and values of all that follow, but cannot touch  *)
(* what came before unless the same word comes again.                         *)
ParamsAsSent ==
    call[1] = "query" /\ output # None =>
        LET good == {i \in DOMAIN Input : \A j \in 1 .. i : Len(Input[j]) = 2}
            later(i) == UNION {ToSet(Input[j]) : j \in {j \in DOMAIN Input : j > i}}
        IN \A i \in good : Input[i][1] \notin later(i) =>
               /\ Input[i][1] \in DOMAIN output[1]
               /\ output[1][Input[i][1]] = Input[i][2]

(* An order is not given up before its time: for up to 49710 days (136       *)
(* years) the int32_t gives the time bought, or none at all - always the     *)
(* time bought from 1 to 24855 days (68 years).  Beyond, it is too short.    *)
ExpiryNotEarly ==
    call[1] = "expire" /\ output # None =>
        /\ Input \in 1 .. 24855 => output[1] = Input * DayUnits
        /\ Input <= 49710 => output[1] \in {Input * DayUnits, Forever} /\ output[1] # 0

(* All five: a conversion gives what the other side of it expects. *)
ConversionsRight == RoundTrip /\ Base64Bits /\ DecodeFits /\ ParamsAsSent /\ ExpiryNotEarly

=============================================================================
