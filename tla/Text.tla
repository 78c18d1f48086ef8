-------------------------------- MODULE Text --------------------------------
(***************************************************************************)
(* The text the kernel reads and writes: the options of the command line   *)
(* and the configuration of a serial port in one (common/cmdline.c), the   *)
(* frequency in the name of the processor (arch/x86/cpuid.c), and what     *)
(* vprintk formats (common/console.c), with the functions of               *)
(* include/string.h and lib/string.c they call.                            *)
(*                                                                         *)
(* Characters are their codes, a C string is the sequence of them, memory  *)
(* a longer sequence in which 0 ends a string.  Frequencies are in MHz.    *)
(***************************************************************************)
EXTENDS Integers, Sequences, FiniteSets, SequencesExt

CONSTANTS VARLEN,      \* the length of the array of a string parameter
          OPT_SIZE,    \* that of the buffer for an option
          ULONG_MAX,
          BUF_SIZE,    \* VPRINTK_BUF_SIZE
          ParamName,   \* the name of the parameter, "com1"
          Behind,      \* what lies behind its array
          Options,     \* the options that can be on a command line
          Brands,      \* names of processors
          Leftovers,   \* what the stack can hold
          Prints,      \* calls of printk, see Format
          MaxOptions   \* bound on the options of a command line

VARIABLES opt,     \* the static buffer of cmdline_parse
          var,     \* the array of the parameter and what is behind it
          given,   \* the options parsed
          answer   \* what was read or written last

textVars == <<opt, var, given, answer>>

Equals == 61
Comma == 44
Dot == 46
Percent == 37
Zero == 48
Minus == 45
X == 120

Chr(s, i) == IF i <= Len(s) THEN s[i] ELSE 0

\* The first place from i on whose character passes the test.
Find(m, i, Test(_)) ==
  CHOOSE k \in i .. Len(m) + 1 : Test(Chr(m, k)) /\ \A j \in i .. k - 1 : ~Test(Chr(m, j))

\* The string at i.
StringAt(m, i) == SubSeq(m, i, Find(m, i, LAMBDA c : c = 0) - 1)

isspace(c) == c \in {32, 9}
isdigit(c) == c \in 48 .. 57
isupper(c) == c \in 65 .. 90
islower(c) == c \in 97 .. 122

(***************************************************************************)
(* strtoul.                                                                *)
(***************************************************************************)

\* What a letter or a digit stands for; nothing else is below any base.
DigitValue(c) ==
  CASE isdigit(c) -> c - 48 [] isupper(c) -> c - 55 [] islower(c) -> c - 87 [] OTHER -> 36

TooLarge == -1

Overflows(acc, base, digit) ==
  \/ acc > ULONG_MAX \div base
  \/ acc = ULONG_MAX \div base /\ digit > ULONG_MAX % base

RECURSIVE Accumulate(_, _, _, _)
Accumulate(s, i, base, acc) ==
  LET d == DigitValue(Chr(s, i))
  IN  IF d >= base THEN acc
      ELSE Accumulate(s, i + 1, base,
             IF acc = TooLarge \/ Overflows(acc, base, d) THEN TooLarge ELSE acc * base + d)

strtoul(s, base) ==
  LET first == Find(s, 1, LAMBDA c : ~isspace(c))
      neg == Chr(s, first) = Minus
      i == IF Chr(s, first) \in {Minus, 43} THEN first + 1 ELSE first
      hex == base \in {0, 16} /\ Chr(s, i) = Zero /\ Chr(s, i + 1) \in {X, 88}
      b == IF hex THEN 16 ELSE IF base # 0 THEN base ELSE IF Chr(s, i) = Zero THEN 8 ELSE 10
      acc == Accumulate(s, IF hex THEN i + 2 ELSE i, b, 0)
  IN  IF acc = TooLarge THEN ULONG_MAX ELSE IF neg THEN (-acc) % (ULONG_MAX + 1) ELSE acc

(***************************************************************************)
(* The options.                                                            *)
(***************************************************************************)

\* strncpy of the n characters from i of s.  It looks for the end behind the
\* character it has copied, and fills up with one 0 more than there is room for.
strncpy(d, s, i, n) ==
  LET ends == {j \in 1 .. n : Chr(s, i + j) = 0}
      copied == IF ends = {} THEN n ELSE CHOOSE j \in ends : \A l \in ends : j <= l
      zeros == IF ends = {} THEN 0 ELSE n - copied + 1
  IN  [k \in DOMAIN d |-> IF k <= copied THEN Chr(s, i + k - 1)
                          ELSE IF k <= copied + zeros THEN 0 ELSE d[k]]

\* The value of an option in the buffer, where the option itself is one.
ValueStart(o) == IF \E k \in DOMAIN o : o[k] = Equals THEN Find(o, 1, LAMBDA c : c = Equals) + 1 ELSE 1

OptionKey(o) == IF ValueStart(o) = 1 THEN o ELSE SubSeq(o, 1, ValueStart(o) - 2)

\* The option copied into the buffer, over what was there before.
Buffer(o) ==
  [k \in 1 .. OPT_SIZE |->
     IF k = Len(o) + 1 \/ k = ValueStart(o) - 1 THEN 0 ELSE IF k <= Len(o) THEN o[k] ELSE opt[k]]

\* Mutant of CutAt: a value that fills the array is not cut.
CutAtLarger(d, length) == IF length > VARLEN THEN [d EXCEPT ![VARLEN] = 0] ELSE d

CutAt(d, length) == IF length >= VARLEN THEN [d EXCEPT ![VARLEN] = 0] ELSE d

\* One round of cmdline_parse.
ParseOption(o) ==
  LET start == ValueStart(o)
      length == Len(StringAt(Buffer(o), start))
  IN  /\ Len(given) < MaxOptions
      /\ opt' = Buffer(o)
      /\ var' = IF OptionKey(o) # ParamName THEN var
                ELSE CutAt(strncpy(var, Buffer(o), start, VARLEN), length)
      /\ given' = Append(given, o)
      /\ UNCHANGED answer

(***************************************************************************)
(* The configuration of a serial port.                                     *)
(***************************************************************************)

\* strtok, from s or, when that is 0, behind the last token.
strtok(t, s, delim) ==
  LET from == IF s = 0 THEN t.lasts + 1 ELSE s
      start == Find(t.mem, from, LAMBDA c : c # delim)
      end == Find(t.mem, start, LAMBDA c : c \in {0, delim})
  IN  IF Chr(t.mem, start) = 0 THEN [t EXCEPT !.token = <<>>]
      ELSE [mem |-> [t.mem EXCEPT ![end] = 0], lasts |-> end,
            token |-> SubSeq(t.mem, start, end - 1)]

Fails == -2

OneOf(value, known) == IF value \in known THEN value ELSE Fails

Ports == {1016, 760, 1000, 744}

Bauds == {300, 1200, 2400, 4800, 9600, 19200, 38400, 57600, 115200}

Widths == 5 .. 8

\* n, o, e, h and l.
Parities == {110, 111, 101, 104, 108}

StopBits == {1, 2}

ParseField(k, s) ==
  IF k = 4 THEN IF Len(s) > 1 THEN Fails ELSE OneOf(s[1], Parities)
  ELSE OneOf(strtoul(s, IF k = 1 THEN 16 ELSE 0), <<Ports, Bauds, Widths, {}, StopBits>>[k])

DefaultField == <<Fails, 115200, 8, 110, 1>>

\* The fields from the k-th on; the first that fails ends it.
RECURSIVE ParseFields(_, _, _)
ParseFields(t, k, config) ==
  LET u == strtok(t, IF k = 1 THEN 1 ELSE 0, Comma)
      value == IF u.token = <<>> THEN DefaultField[k] ELSE ParseField(k, u.token)
  IN  IF k > 5 THEN [mem |-> t.mem, config |-> config]
      ELSE IF value = Fails THEN [mem |-> u.mem, config |-> <<>>]
      ELSE ParseFields(u, k + 1, Append(config, value))

ParseComOption ==
  LET r == ParseFields([mem |-> var, lasts |-> 0, token |-> <<>>], 1, <<>>)
  IN  /\ var' = IF var[1] = 0 THEN var ELSE r.mem
      /\ answer' = [of |-> "com", in |-> var, out |-> IF var[1] = 0 THEN <<>> ELSE r.config]
      /\ UNCHANGED <<opt, given>>

(***************************************************************************)
(* The frequency of the processor.                                         *)
(***************************************************************************)

Digits(s) == SelectSeq(s, isdigit)

LastWord(s) ==
  LET space == CHOOSE k \in DOMAIN s : isspace(s[k]) /\ \A j \in k + 1 .. Len(s) : ~isspace(s[j])
  IN  SubSeq(s, space + 1, Len(s))

\* One more character of the number, from the left.  A point ends the GHz.
FreqStep(f, c) ==
  IF isdigit(c) THEN [f EXCEPT !.buf = Append(@, c)]
  ELSE IF c = Dot
    THEN [frequency |-> strtoul(f.buf, 0) * f.multiplier, buf |-> <<>>, multiplier |-> 1]
  ELSE f

Fraction(buf) == strtoul(buf, 0) * (1000 \div 10 ^ Len(buf))

\* buf2 is not terminated when the unit is MHz.
GetCpuFreq(brand, leftover) ==
  LET word == LastWord(brand)
      unit(c) == \E k \in 1 .. Len(word) - 2 : SubSeq(word, k, k + 2) = <<c, 72, 122>>
      f == FoldLeft(FreqStep, [frequency |-> 0, buf |-> <<>>, multiplier |-> 1000], word)
  IN  CASE unit(77) -> strtoul(Digits(word) \o leftover, 0)
        [] unit(71) /\ ~unit(77) ->
             IF f.multiplier = 1 THEN f.frequency + Fraction(f.buf) ELSE strtoul(f.buf, 0) * 1000
        [] OTHER -> 0

DisplayCpuInfo(brand, leftover) ==
  /\ answer' = [of |-> "freq", in |-> brand, left |-> leftover, out |-> GetCpuFreq(brand, leftover)]
  /\ UNCHANGED <<opt, var, given>>

(***************************************************************************)
(* vsnprintf.  Its output is a record of what is in the buffer, the room   *)
(* left and the characters counted.  Arguments have the type the directive *)
(* asks for, so that the length modifiers make no difference, and no       *)
(* pointer is NULL.                                                        *)
(***************************************************************************)

PCHAR(o, c) == [o EXCEPT !.str = IF o.size >= 2 THEN Append(@, c) ELSE @,
                         !.size = IF o.size >= 2 THEN @ - 1 ELSE @, !.retval = @ + 1]

Put(o, s) == FoldLeft(PCHAR, o, s)

Larger(a, b) == IF a > b THEN a ELSE b

Repeat(c, n) == [k \in 1 .. Larger(n, 0) |-> c]

\* The digits of num, the last one first.
RECURSIVE ksprintn(_, _, _)
ksprintn(num, base, upper) ==
  LET d == num % base
      c == IF d < 10 THEN 48 + d ELSE IF upper THEN 55 + d ELSE 87 + d
  IN  IF num \div base = 0 THEN <<c>> ELSE <<c>> \o ksprintn(num \div base, base, upper)

\* The flags, the width and the precision, up to the letter of the directive.
RECURSIVE Flags(_, _)
Flags(fmt, f) ==
  LET c == Chr(fmt, f.i)
      after == [f EXCEPT !.i = @ + 1]
      last == Find(fmt, f.i, LAMBDA d : ~isdigit(d)) - 1
      n == FoldLeft(LAMBDA v, d : v * 10 + d - 48, 0, SubSeq(fmt, f.i, last))
  IN  CASE c = Dot -> Flags(fmt, [after EXCEPT !.dot = TRUE])
        [] c = 35 -> Flags(fmt, [after EXCEPT !.sharp = TRUE])
        [] c = 43 -> Flags(fmt, [after EXCEPT !.sign = TRUE])
        [] c = Minus -> Flags(fmt, [after EXCEPT !.ladjust = TRUE])
        [] c = 42 /\ f.dot -> Flags(fmt, [after EXCEPT !.dwidth = Head(f.args), !.args = Tail(@)])
        [] c = 42 /\ ~f.dot ->
             LET w == Head(f.args)
             IN  Flags(fmt, [after EXCEPT !.args = Tail(@), !.width = IF w < 0 THEN -w ELSE w,
                                          !.ladjust = IF w < 0 THEN ~@ ELSE @])
        [] c = Zero /\ ~f.dot -> Flags(fmt, [after EXCEPT !.padc = Zero])
        [] isdigit(c) /\ (c # Zero \/ f.dot) ->
             Flags(fmt, IF f.dot THEN [f EXCEPT !.i = last + 1, !.dwidth = n]
                        ELSE [f EXCEPT !.i = last + 1, !.width = n])
        [] c \in {104, 106, 108, 113, 116, 122} -> Flags(fmt, after)
        [] OTHER -> f

\* Mutant of ZeroFill: the sign and the prefix are not counted.
ZeroFillWhole(f, tmp) == IF ~f.ladjust /\ f.padc = Zero THEN f.width ELSE f.dwidth

ZeroFill(f, tmp) == IF ~f.ladjust /\ f.padc = Zero THEN f.width - tmp ELSE f.dwidth

PrintNumber(o, f, num, as, upper) ==
  LET neg == as.signed /\ num < 0
      digits == ksprintn(IF neg THEN -num ELSE num, as.base, upper)
      n == Len(digits)
      prefix == IF ~as.sharp \/ num = 0 THEN <<>>
                ELSE CASE as.base = 8 -> <<Zero>> [] as.base = 16 -> <<Zero, X>> [] OTHER -> <<>>
      tmp == Len(prefix) + (IF neg THEN 1 ELSE 0)
      dwidth == ZeroFill(f, tmp)
      pad == Repeat(32, f.width - (tmp + Larger(dwidth, n)))
  IN  Put(o, (IF f.ladjust THEN <<>> ELSE pad)
               \o (IF neg THEN <<Minus>> ELSE <<>>) \o prefix \o Repeat(Zero, dwidth - n)
               \o Reverse(digits) \o (IF f.ladjust THEN pad ELSE <<>>))

PrintString(o, f, s) ==
  LET n == IF f.dot /\ f.dwidth < Len(s) THEN f.dwidth ELSE Len(s)
      pad == Repeat(f.padc, f.width - n)
  IN  Put(o, IF f.ladjust THEN SubSeq(s, 1, n) \o pad ELSE pad \o SubSeq(s, 1, n))

\* The directives that print a number: its base, whether it has a sign, and
\* whether its base is shown.
NumberOf(c, f) ==
  CASE c \in {100, 105} -> [base |-> 10, signed |-> TRUE, sharp |-> f.sharp]
    [] c = 111 -> [base |-> 8, signed |-> FALSE, sharp |-> f.sharp]
    [] c = 112 -> [base |-> 16, signed |-> FALSE, sharp |-> f.width = 0]
    [] c = 114 -> [base |-> 10, signed |-> f.sign, sharp |-> f.sharp]
    [] c = 117 -> [base |-> 10, signed |-> FALSE, sharp |-> f.sharp]
    [] c \in {X, 88} -> [base |-> 16, signed |-> FALSE, sharp |-> f.sharp]
    [] c = 121 -> [base |-> 16, signed |-> TRUE, sharp |-> f.sharp]

\* One directive.  An unknown one is copied, and so is all that follows.
Directive(o, f, fmt, percent) ==
  LET c == Chr(fmt, f.i)
      arg == Head(f.args)
  IN  CASE c = Percent -> Put(o, <<c>>)
        [] c = 99 -> Put(o, <<arg>>)
        [] c = 110 -> o
        [] c = 115 -> PrintString(o, f, arg)
        [] c \in {100, 105, 111, 112, 114, 117, X, 88, 121} ->
             PrintNumber(o, f, arg, NumberOf(c, f), c = 88)
        [] OTHER -> [Put(o, SubSeq(fmt, percent, f.i)) EXCEPT !.stop = TRUE]

TakesArgument(c) == c \in {99, 100, 105, 110, 111, 112, 114, 115, 117, X, 88, 121}

RECURSIVE PrintFrom(_, _, _, _)
PrintFrom(o, fmt, i, args) ==
  LET f == Flags(fmt, [i |-> i + 1, args |-> args, width |-> 0, dwidth |-> 0, padc |-> 32,
                       dot |-> FALSE, sharp |-> FALSE, sign |-> FALSE, ladjust |-> FALSE])
  IN  IF i > Len(fmt) THEN [o EXCEPT !.str = IF o.size >= 1 THEN Append(@, 0) ELSE @]
      ELSE IF fmt[i] # Percent \/ o.stop THEN PrintFrom(PCHAR(o, fmt[i]), fmt, i + 1, args)
      ELSE PrintFrom(Directive(o, f, fmt, i), fmt, f.i + 1,
                     IF TakesArgument(Chr(fmt, f.i)) THEN Tail(f.args) ELSE f.args)

vsnprintf(size, fmt, args) ==
  PrintFrom([str |-> <<>>, size |-> size, retval |-> 0, stop |-> FALSE], fmt, 1, args)

\* A call of printk: a format that a record describes, between two letters.
Format(p) ==
  LET decimal(n) == Reverse(ksprintn(n, 10, FALSE))
  IN  <<97, Percent>> \o (IF "left" \in p.flags THEN <<Minus>> ELSE <<>>)
        \o (IF "zero" \in p.flags THEN <<Zero>> ELSE <<>>)
        \o (IF "sharp" \in p.flags THEN <<35>> ELSE <<>>)
        \o (IF p.width = 0 THEN <<>> ELSE IF p.star THEN <<42>> ELSE decimal(p.width))
        \o (IF p.precision = 0 THEN <<>> ELSE <<Dot>> \o decimal(p.precision))
        \o p.modifier \o <<p.letter, 98>>

\* vprintk; the consoles get retval characters of the buffer.
Vprintk(p) ==
  LET r == vsnprintf(BUF_SIZE, Format(p),
                     (IF p.star /\ p.width # 0 THEN <<p.width>> ELSE <<>>) \o <<p.arg>>)
  IN  /\ answer' = [of |-> "print", in |-> p, str |-> r.str, retval |-> r.retval,
                    out |-> IF r.retval > BUF_SIZE THEN <<>> ELSE SubSeq(r.str, 1, r.retval)]
      /\ UNCHANGED <<opt, var, given>>

TextStep ==
  /\ answer.of = "none"
  /\ \/ \E o \in Options : ParseOption(o)
     \/ ParseComOption
     \/ given = <<>> /\ \E b \in Brands, l \in Leftovers : DisplayCpuInfo(b, l)
     \/ given = <<>> /\ \E p \in Prints : Vprintk(p)

TextInit ==
  /\ opt = Repeat(0, OPT_SIZE)
  /\ var = Repeat(0, VARLEN) \o Behind
  /\ given = <<>>
  /\ answer = [of |-> "none"]

(***************************************************************************)
(* Properties                                                              *)
(***************************************************************************)

Decimal(s) == FoldLeft(LAMBDA v, c : v * 10 + c - 48, 0, s)

Smaller(a, b) == IF a < b THEN a ELSE b

\* The values given for the parameter.
Values == LET mine == SelectSeq(given, LAMBDA o : OptionKey(o) = ParamName)
          IN  [k \in DOMAIN mine |-> SubSeq(mine[k], ValueStart(mine[k]), Len(mine[k]))]

\* The array holds the last value given, cut to its length.
ValueStored ==
  answer.of = "none" =>
    /\ StringAt(var, 1) = IF Values = <<>> THEN <<>>
                          ELSE SubSeq(Last(Values), 1, Smaller(Len(Last(Values)), VARLEN - 1))
    /\ var[VARLEN + 1] \in {0, Behind[1]}
    /\ SubSeq(var, VARLEN + 2, Len(var)) = Tail(Behind)

\* The longest parts of a text without commas, in their order.
Part(s, k) ==
  LET runs == {r \in (1 .. Len(s)) \X (1 .. Len(s)) :
                 /\ r[1] <= r[2] /\ \A i \in r[1] .. r[2] : s[i] # Comma
                 /\ Chr(s, r[2] + 1) \in {0, Comma} /\ (r[1] = 1 \/ s[r[1] - 1] = Comma)}
      kth == {r \in runs : Cardinality({q \in runs : q[1] < r[1]}) = k - 1}
  IN  IF kth = {} THEN <<>> ELSE LET r == CHOOSE r \in kth : TRUE IN SubSeq(s, r[1], r[2])

\* What a configuration says, its numbers written without a sign: all parts are
\* known, or missing behind the first.
Configuration(s) ==
  LET first == Part(s, 1)
      hex == IF Chr(first, 1) = Zero /\ Chr(first, 2) = X THEN SubSeq(first, 3, Len(first)) ELSE first
      port == FoldLeft(LAMBDA v, c : v * 16 + DigitValue(c), 0, hex)
      field(k) == IF Part(s, k) = <<>> THEN DefaultField[k]
                  ELSE CASE k = 1 -> port [] k = 4 -> Part(s, 4)[1] [] OTHER -> Decimal(Part(s, k))
      known == <<Ports, Bauds, Widths, Parities, StopBits>>
  IN  IF \A k \in 1 .. 5 : field(k) \in known[k] /\ (k = 4 => Len(Part(s, 4)) <= 1)
        THEN [k \in 1 .. 5 |-> field(k)] ELSE <<>>

\* strtoul takes a number that starts with 0 for an octal one.
ReadAsDecimal(s) == s = <<>> \/ s[1] # Zero \/ Decimal(s) < 8

\* The frequency in a name that ends in a number and its unit.
FrequencyRead ==
  LET w == LastWord(answer.in)
      number == SubSeq(w, 1, Len(w) - 3)
      unit == IF Len(w) < 3 THEN <<>> ELSE SubSeq(w, Len(w) - 2, Len(w))
      point == Find(number, 1, LAMBDA c : c \in {0, Dot})
      ghz == SubSeq(number, 1, point - 1)
      part == SubSeq(number, point + 1, Len(number))
  IN  answer.of = "freq" =>
        CASE unit = <<77, 72, 122>> ->
               ReadAsDecimal(number) /\ (answer.left = <<>> \/ ~isdigit(answer.left[1]))
                 => answer.out = Decimal(number)
          [] unit = <<71, 72, 122>> ->
               ReadAsDecimal(ghz) /\ ReadAsDecimal(part)
                 => answer.out = Decimal(ghz) * 1000 + (Decimal(part) * 1000) \div 10 ^ Len(part)
          [] OTHER -> answer.out = 0

\* What the kernel reads is what was written.  A string parameter holds the last
\* value the command line gives it, cut to the array of the parameter, whatever
\* was in the buffer of cmdline_parse before, and of the bytes behind the array at
\* most the first is changed, to 0; parse_com_port answers the configuration in a
\* value that was not cut, its fields found by strtok, and nothing if one of them
\* is not known; get_cpu_freq answers the frequency in the name of the processor,
\* unless strtoul takes a part of it for octal or the stack holds a digit behind
\* the MHz.
TextRead ==
  /\ ValueStored
  /\ answer.of = "com" /\ Values # <<>> /\ Len(Last(Values)) < VARLEN
       => answer.out = Configuration(Last(Values))
  /\ FrequencyRead

BaseOf(letter) == CASE letter = 111 -> 8 [] letter \in {X, 88, 112, 121} -> 16 [] OTHER -> 10

Magnitude(n) == IF n < 0 THEN -n ELSE n

NumLength(n, base) == CHOOSE k \in 1 .. 12 : base ^ k > n /\ (k = 1 \/ base ^ (k - 1) <= n)

\* What C asks of a directive: at least as many digits as the precision says,
\* zeros or spaces up to the width, sign and prefix before the zeros.  The flag #
\* puts 0x or 0X before a hexadecimal number, and gives an octal one a first digit
\* 0.  C leaves %p open: it is %#x without a width, and %x with one.
Wanted(p) ==
  LET base == BaseOf(p.letter)
      mag == Magnitude(p.arg)
      length == NumLength(mag, base)
      digit(d) == IF d < 10 THEN 48 + d ELSE (IF p.letter = 88 THEN 55 ELSE 87) + d
      digits == [k \in 1 .. length |-> digit((mag \div base ^ (length - k)) % base)]
      sharp == mag # 0 /\ IF p.letter = 112 THEN p.width = 0 ELSE "sharp" \in p.flags
      sign == IF p.arg < 0 THEN <<Minus>> ELSE <<>>
      prefix == IF sharp /\ base = 16 THEN <<Zero, IF p.letter = 88 THEN 88 ELSE X>> ELSE <<>>
      precision == IF sharp /\ base = 8 THEN Larger(p.precision, length + 1) ELSE p.precision
      text == IF p.letter = 115 THEN SubSeq(p.arg, 1, IF p.precision = 0 THEN Len(p.arg)
                                                      ELSE Smaller(p.precision, Len(p.arg)))
              ELSE sign \o prefix \o Repeat(Zero, precision - length) \o digits
      gap == p.width - Len(text)
  IN  IF "left" \in p.flags THEN text \o Repeat(32, gap)
      ELSE IF "zero" \in p.flags /\ p.letter # 115
        THEN sign \o prefix \o Repeat(Zero, gap) \o SubSeq(text, Len(sign \o prefix) + 1, Len(text))
      ELSE Repeat(32, gap) \o text

\* What vsnprintf makes of a directive: what C asks for but in two cases.  The
\* prefix of %#X is 0x, and the 0 of %#o comes before the zeros of a precision
\* larger than the number, and not in place of one of them.
Written(p) ==
  LET extra == /\ p.letter = 111 /\ "sharp" \in p.flags /\ p.arg # 0
               /\ p.precision > NumLength(p.arg, 8)
      text == Wanted(IF extra THEN [p EXCEPT !.precision = @ + 1] ELSE p)
  IN  IF p.letter = 88 THEN [k \in DOMAIN text |-> IF text[k] = 88 THEN X ELSE text[k]] ELSE text

\* What printk writes is what C asks for, but for the two cases of Written and for
\* a directive that C does not have, from which on the format is copied.  vsnprintf
\* counts the characters of the whole text, leaves as many as fit in the buffer
\* and ends them with 0; the consoles are given the text, with 0 for its last
\* character if it is as long as the buffer, and vprintk panics if it is longer.
TextPrinted ==
  answer.of = "print" =>
    LET p == answer.in
        text == IF TakesArgument(p.letter) THEN <<97>> \o Written(p) \o <<98>> ELSE Format(p)
    IN  /\ answer.retval = Len(text)
        /\ answer.str = SubSeq(text, 1, Smaller(Len(text), BUF_SIZE - 1)) \o <<0>>
        /\ answer.out = CASE Len(text) < BUF_SIZE -> text
                          [] Len(text) = BUF_SIZE -> [text EXCEPT ![BUF_SIZE] = 0]
                          [] OTHER -> <<>>
=============================================================================
