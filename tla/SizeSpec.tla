------------------------------ MODULE SizeSpec ------------------------------
(***************************************************************************)
(* size.rs: a size as a person writes it ("40G", "+1.5G", "2048s", "max"), *)
(* parsed through a binary floating-point number into whole bytes, and     *)
(* resolved against a current size.                                        *)
(*                                                                         *)
(* A written size is told apart by its sign, its number (a fraction, or a  *)
(* text that is none) and its unit.  A floating-point number is held as a  *)
(* multiple of 1/Grain; the code's has 53 bits of precision and its        *)
(* integers 64 bits.                                                       *)
(***************************************************************************)
EXTENDS Integers, Sequences, FiniteSetsExt

CONSTANTS
    Precision,       \* bits of a floating-point number: 53 in the code
    MaxBytes,        \* i64::MAX
    Kib,             \* 1024 in the code
    Grain,           \* the model's finest fraction, a power of two
    TopBits          \* the widest step of a floating-point number is 2^TopBits grains

ASSUME SizeAssumption ==
    /\ Precision \in Nat \ {0} /\ MaxBytes \in Nat \ {0} /\ Kib \in Nat \ {0}
    /\ Grain \in Nat \ {0} /\ TopBits \in Nat

Prefixes == <<"k", "m", "g", "t", "p">>

Units == {"", "k", "m", "g", "t", "p", "sectors", "other"}

\* numerator / denominator, or denominator 0 for what is not a number; "max" is a
\* word of its own and "" an empty text.
Written ==
    [word : {"", "max", "size"}, sign : {"", "+", "-"},
     numerator : Nat, denominator : Nat, unit : Units, sector_size : Nat]

-----------------------------------------------------------------------------
(* Floating point.                                                         *)

Floor(n, d) == n \div d

\* The nearest whole number to n / d, the even one of two.
Nearest(n, d) ==
    LET q == Floor(n, d)
        twice == 2 * (n - q * d)
    IN  IF twice < d \/ (twice = d /\ q % 2 = 0) THEN q ELSE q + 1

\* 2^n
Doubled[n \in 0..TopBits + Precision] == IF n = 0 THEN 1 ELSE 2 * Doubled[n - 1]

\* The exponent of the step between the floating-point numbers around n / d grains: the
\* least that leaves Precision bits.
Exponent(n, d) ==
    LET fits == {bits \in 0..TopBits : n < d * Doubled[bits + Precision]}
    IN  IF fits = {} THEN TopBits ELSE Min(fits)

\* The floating-point number nearest to n / d grains, in grains.
Float(n, d) ==
    LET step == Doubled[Exponent(n, d)]
    IN  Nearest(n, d * step) * step

-----------------------------------------------------------------------------
\* An answer without bytes: an error, or the size that is not known yet.
Without(why) == [status |-> why, bytes |-> 0, relative |-> FALSE]

\* Kib^k
Scale[k \in 0..Len(Prefixes)] == IF k = 0 THEN 1 ELSE Kib * Scale[k - 1]

Multiplier(unit) ==
    IF unit = "" THEN 1 ELSE Scale[CHOOSE k \in 1..Len(Prefixes) : Prefixes[k] = unit]

AtLeastOne(n) == IF n = 0 THEN 1 ELSE n

\* i64::MAX as f64
Limit == Float(MaxBytes * Grain, 1)

\* Slip: a limit that is reached is passed.
AtLimit(product) == product >= Limit

TooLarge(product) == product > Limit

\* bytes as i64: whole bytes, cut down, at most i64::MAX.
ToBytes(product) ==
    LET whole == Floor(product, Grain)
    IN  IF whole > MaxBytes THEN MaxBytes ELSE whole

\* parse_magnitude
Magnitude(text) ==
    LET value == Float(text.numerator * Grain, text.denominator)
        factor == IF text.unit = "sectors" THEN AtLeastOne(text.sector_size)
                  ELSE Multiplier(text.unit)
        product == Float(value * factor, 1)
    IN  IF text.word = "" THEN Without("empty")
        ELSE IF text.word = "max" \/ text.denominator = 0 THEN Without("not a number")
        ELSE IF text.unit = "other" THEN Without("unknown unit")
        ELSE IF TooLarge(product) THEN Without("too large")
        ELSE [status |-> "ok", bytes |-> ToBytes(product), relative |-> FALSE]

\* parse_size_spec
ParseSizeSpec(text) ==
    LET magnitude == Magnitude(text)
    IN  IF magnitude.status # "ok" THEN magnitude
        ELSE [magnitude EXCEPT
                 !.bytes = IF text.sign = "-" THEN -@ ELSE @,
                 !.relative = text.sign # ""]

\* parse_size
ParseSize(text) ==
    LET spec == ParseSizeSpec(text)
    IN  IF spec.status = "ok" /\ spec.relative THEN Without("negative absolute") ELSE spec

\* parse_create_size, where "max" stands for the region that is filled.
ParseCreateSize(text) ==
    IF text.word = "max" /\ text.sign = "" THEN Without("max") ELSE ParseSize(text)

Saturate(n) ==
    IF n > MaxBytes THEN MaxBytes ELSE IF n < -MaxBytes - 1 THEN -MaxBytes - 1 ELSE n

\* SizeSpec::resolve
Resolve(spec, current) ==
    IF spec.relative THEN Max({Saturate(current + spec.bytes), 0}) ELSE spec.bytes

-----------------------------------------------------------------------------
(* Properties.                                                             *)

\* The bytes a text names, as a fraction.
Exact(text) ==
    LET factor == IF text.unit = "sectors" THEN AtLeastOne(text.sector_size)
                  ELSE Multiplier(text.unit)
    IN  [n |-> text.numerator * factor, d |-> text.denominator]

\* The number and the product need no rounding.
Representable(text) ==
    LET value == Float(text.numerator * Grain, text.denominator)
        exact == Exact(text)
    IN  /\ value * text.denominator = text.numerator * Grain
        /\ Float(exact.n * Grain, exact.d) * exact.d = exact.n * Grain

\* The limit is compared in floating point, where i64::MAX is rounded up: the
\* sizes from there to the rounded limit are accepted as i64::MAX.
PastMaxInside(text) ==
    LET exact == Exact(text)
    IN  exact.n > MaxBytes * exact.d /\ exact.n * Grain <= Limit * exact.d

\* A size that floating point can hold is parsed to exactly the bytes it names, cut
\* to whole ones, and refused where it passes what i64 can hold; the exception is
\* PastMaxInside, a size past it that is accepted and becomes i64::MAX.
ParsedExactly(text) ==
    LET exact == Exact(text)
        parsed == Magnitude(text)
    IN  /\ text.word = "size" /\ text.denominator # 0 /\ text.unit # "other"
        /\ Representable(text)
        => IF PastMaxInside(text) THEN parsed.status = "ok" /\ parsed.bytes = MaxBytes
           ELSE IF exact.n > MaxBytes * exact.d THEN parsed.status = "too large"
           ELSE parsed.status = "ok" /\ parsed.bytes = Floor(exact.n, exact.d)

\* Of two sizes in the same unit the larger one is never parsed to fewer bytes, and
\* is refused as too large if the smaller one is.
Monotone(text, other) ==
    /\ text.word = "size" /\ other = [text EXCEPT !.numerator = other.numerator]
    /\ text.denominator # 0 /\ text.unit # "other"
    /\ text.numerator <= other.numerator
    => LET small == Magnitude(text)
           large == Magnitude(other)
       IN  /\ small.status = "too large" => large.status = "too large"
           /\ small.status = "ok" /\ large.status = "ok" => small.bytes <= large.bytes

\* A resolved size is one a partition can have; growing never gives less than the
\* current size, shrinking never more, and an absolute size is what was written.  Only
\* an absolute size creates a partition.
ResolvedSafely(text, current) ==
    LET spec == ParseSizeSpec(text)
        resolved == Resolve(spec, current)
    IN  spec.status = "ok" =>
            /\ resolved \in 0..MaxBytes
            /\ text.sign = "+" => resolved >= current
            /\ text.sign = "-" /\ current >= 0 => resolved <= current
            /\ text.sign = "" => resolved = Magnitude(text).bytes
            /\ ParseCreateSize(text).status = "ok" <=> text.sign = ""
=============================================================================
