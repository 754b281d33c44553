------------------------------- MODULE Preview -------------------------------
(***************************************************************************)
(* analyze_guarded_preview of recovery/preview.rs, the inspection of what  *)
(* it captures, and the view that is presented and validated later.        *)
(*                                                                         *)
(* The preview captures a prefix of a stream and, when that shows an image *)
(* small enough to be shown whole, captures the stream again in full.  The *)
(* caller's stream may have changed by then, and a capture may return      *)
(* another number of bytes than it was asked for.                          *)
(*                                                                         *)
(* A stream is told apart by what a prefix of it shows: an image from      *)
(* "header" bytes on (0 for never), and text where the prefix does not end *)
(* inside a character.  Some image headers are text as well.  A hex dump   *)
(* is told apart by its length.                                            *)
(***************************************************************************)
EXTENDS Integers

CONSTANTS
    Streams,         \* the contents a capture may find
    Totals,          \* the declared lengths of the stream
    Configs,         \* the RecoveryPreviewConfigs
    HexRowBytes,     \* 16 in the code
    AddressDigits,   \* the least digits of a row's address: 8 in the code
    AddressBase,     \* 16 in the code
    NoPreview

Stream == [header : Nat, text : BOOLEAN, cuts : SUBSET Nat]

Config == [max_preview_bytes : Nat, max_hex_bytes : Nat, max_image_bytes : Nat]

ASSUME ConstantsAssumption ==
    /\ Streams \subseteq Stream /\ Totals \subseteq Nat /\ Configs \subseteq Config
    /\ HexRowBytes \in Nat \ {0} /\ AddressDigits \in Nat /\ AddressBase \in Nat \ {0, 1}

VARIABLES
    config, total,   \* the call's arguments, fixed
    phase,           \* "config", "first", "second", "returned"
    asked,           \* the bytes the latest capture was asked for
    preview,         \* the latest inspection, or NoPreview
    result           \* "none", "ok" or "error"

vars == <<config, total, phase, asked, preview, result>>

Least(a, b) == IF a <= b THEN a ELSE b
Most(a, b) == IF a >= b THEN a ELSE b

ValidConfig ==
    /\ config.max_preview_bytes # 0
    /\ config.max_hex_bytes # 0
    /\ config.max_hex_bytes <= config.max_preview_bytes
    /\ config.max_preview_bytes <= config.max_image_bytes

\* preview_image_info and preview_utf8_text of the first n bytes of a stream.
ShowsImage(stream, n) == stream.header # 0 /\ stream.header <= n

ShowsText(stream, n) == n = 0 \/ (stream.text /\ n \notin stream.cuts)

\* RecoveryPreviewKind::classify
Classify(length, image, text) ==
    IF length = 0 THEN "empty"
    ELSE IF image THEN "image"
    ELSE IF text THEN "text"
    ELSE "binary"

\* How many digits each number up to an offset has, written in base AddressBase.
Digits(offset) ==
    LET digits[n \in 0..offset] ==
            IF n < AddressBase THEN 1 ELSE digits[n \div AddressBase] + 1
    IN  digits

\* append_hex_row: the address, two digits a byte and their spaces, and the bytes
\* themselves; the last row shows fewer of them, the columns stay.
Address(offset) == Most(AddressDigits, Digits(offset)[offset])

HexRow(offset, shown) == Address(offset) + 3 * HexRowBytes + 7 + shown

Rows(n) == (n + HexRowBytes - 1) \div HexRowBytes

\* The k-th row of a dump of n bytes.
RowOf(n, k) ==
    LET offset == (k - 1) * HexRowBytes
    IN  HexRow(offset, Least(HexRowBytes, n - offset))

\* preview_hex_dump of n bytes: the length behind each row, and of the whole.
Dumped(n) ==
    LET dump[k \in 0..Rows(n)] == IF k = 0 THEN 0 ELSE dump[k - 1] + RowOf(n, k)
    IN  dump

HexDump(n) == Dumped(n)[Rows(n)]

\* max_hex_characters
MaxHexCharacters == Rows(config.max_hex_bytes) * HexRow(config.max_hex_bytes - 1, HexRowBytes)

(***************************************************************************)
(* inspect_recovery_preview of n captured bytes.                           *)
(***************************************************************************)
Image(stream, n) == ShowsImage(stream, Least(n, config.max_preview_bytes))

Retained(stream, n) ==
    Least(n, IF Image(stream, n) /\ total <= config.max_image_bytes
             THEN config.max_image_bytes
             ELSE config.max_preview_bytes)

\* Slip: an image's header may be text, too.
AnyText(stream, n) ==
    ShowsText(stream, Least(Retained(stream, n), config.max_preview_bytes))

Text(stream, n) ==
    /\ ~Image(stream, n)
    /\ ShowsText(stream, Least(Retained(stream, n), config.max_preview_bytes))

Inspect(stream, n) ==
    LET truncated == Retained(stream, n) # total
    IN  [stream |-> stream,
         retained |-> Retained(stream, n),
         truncated |-> truncated,
         text |-> Text(stream, n),
         hex_dump |-> HexDump(Least(Retained(stream, n), config.max_hex_bytes)),
         image |-> Image(stream, n),
         complete |-> /\ Image(stream, n) /\ ~truncated
                      /\ total <= config.max_image_bytes
                      /\ n = total,
         kind |-> Classify(total, Image(stream, n), Text(stream, n))]

-----------------------------------------------------------------------------
Init ==
    /\ config \in Configs
    /\ total \in Totals
    /\ phase = "config"
    /\ asked = 0
    /\ preview = NoPreview
    /\ result = "none"

Return(r) == phase' = "returned" /\ result' = r

Capture(bytes, next) == asked' = bytes /\ phase' = next

Start ==
    /\ phase = "config"
    /\ IF ValidConfig
       THEN Capture(config.max_preview_bytes, "first") /\ UNCHANGED result
       ELSE Return("error") /\ UNCHANGED asked
    /\ UNCHANGED <<config, total, preview>>

\* What a capture of the declared stream may hold, whatever was asked for.
Lengths == 0..total

\* The capture fails, returns more than the declared stream has (BytesExceedTotal),
\* or its count of source bytes overflows.
CaptureFails ==
    /\ phase \in {"first", "second"}
    /\ Return("error")
    /\ UNCHANGED <<config, total, asked, preview>>

\* The image is cut short and small enough to be captured whole.
NeedsWhole(p) ==
    p.kind = "image" /\ p.truncated /\ total <= config.max_image_bytes

First ==
    /\ phase = "first"
    /\ \E stream \in Streams, n \in Lengths : preview' = Inspect(stream, n)
    /\ IF NeedsWhole(preview')
       THEN Capture(total, "second") /\ UNCHANGED result
       ELSE Return("ok") /\ UNCHANGED asked
    /\ UNCHANGED <<config, total>>

Second ==
    /\ phase = "second"
    /\ \E stream \in Streams, n \in Lengths : preview' = Inspect(stream, n)
    /\ Return("ok")
    /\ UNCHANGED <<config, total, asked>>

Returned == phase = "returned" /\ UNCHANGED vars

Next == Start \/ CaptureFails \/ First \/ Second \/ Returned

Spec == Init /\ [][Next]_vars

(***************************************************************************)
(* RecoveryPreviewView::from_preview, and validate: a view is a report of  *)
(* the preview, and an image payload only where the whole image is held.   *)
(***************************************************************************)
View(p) ==
    [stream_bytes |-> total, preview_bytes |-> p.retained, truncated |-> p.truncated,
     kind |-> p.kind, text |-> p.text,
     text_bytes |-> Least(p.retained, config.max_preview_bytes),
     hex_dump |-> p.hex_dump, image |-> p.image /\ p.complete]

PayloadValid(view, p) ==
    /\ view.preview_bytes = view.stream_bytes
    /\ view.preview_bytes <= config.max_image_bytes
    /\ ShowsImage(p.stream, Least(view.preview_bytes, config.max_preview_bytes))

Valid(view, p) ==
    LET limit == IF view.image THEN config.max_image_bytes ELSE config.max_preview_bytes
        image == view.kind = "image" \/ view.image
    IN  /\ view.preview_bytes <= view.stream_bytes
        /\ view.preview_bytes <= limit
        /\ view.truncated <=> view.preview_bytes < view.stream_bytes
        /\ view.hex_dump <= MaxHexCharacters
        /\ view.text => view.text_bytes <= config.max_preview_bytes
                        /\ view.text_bytes <= view.preview_bytes
        /\ view.kind = Classify(view.stream_bytes, image, view.text)
        /\ view.kind = "image" => ~view.text
        /\ view.image => view.stream_bytes # 0 /\ PayloadValid(view, p)

-----------------------------------------------------------------------------
(* Properties.                                                             *)

\* An image whose declared length may be shown whole, but of which less was
\* captured, is retained past the limit for what is not shown whole.
HeldInPart(p) == p.image /\ ~p.complete /\ p.retained > config.max_preview_bytes

\* The view of any preview that is returned passes the validation it will meet
\* later, even when the stream turned into another one between the two captures; the
\* one exception is an image held in part.  No capture is asked for more than an
\* image may have.
ViewValidates ==
    /\ result = "ok" => (Valid(View(preview), preview) <=> ~HeldInPart(preview))
    /\ phase \in {"first", "second"} => asked <= config.max_image_bytes
=============================================================================
