------------------------------ MODULE AltCodes ------------------------------
(***************************************************************************)
(* The synthesizer of Alt codes: the digits of the numeric pad that are    *)
(* typed while Alt is held are collected by a middleware of the engine,    *)
(* and the release of Alt types the character of that code.                *)
(*                                                                         *)
(* The middleware sees a key only when the option emulate_alt_codes of the *)
(* application in front is on and no middleware before it has taken the    *)
(* event away (discarded, or the engine disabled).  The middleware cannot  *)
(* tell which Alt key it is, nor a repeated press from a new one.          *)
(***************************************************************************)
EXTENDS Naturals, Sequences, FiniteSets

CONSTANTS
  PadDigits,       \* digits on the numeric pad, a subset of 0..9
  MaxDigits,       \* bound on the digits of a code
  MaxMissed        \* bound on the keys that the middleware does not see

ASSUME AltCodesAssumption ==
  /\ PadDigits \subseteq 0..9
  /\ MaxDigits \in 0..9      \* a longer number is no u32, or no character
  /\ MaxMissed \in Nat

VARIABLES
  altDown,         \* Alt keys held, 0..2
  buffer,          \* AltCodeSynthesizerMiddleware::code_buffer
  injected,        \* the text injected by the last step
  code,            \* digits typed since Alt went down, or NoBuffer
  steady,          \* whether the middleware has seen every key since then
  missed           \* keys not seen so far

altCodeVars == <<altDown, buffer, injected, code, steady, missed>>
NoBuffer == [is |-> "none"]
Open(digits) == [is |-> "open", digits |-> digits]
NoText == [is |-> "none"]
Text(char) == [is |-> "text", char |-> char]

----------------------------------------------------------------------------
(* The two code pages, and Unicode for what is beyond them.                 *)

Cp437Symbols ==              \* codes 1 to 31
  <<9786, 9787, 9829, 9830, 9827, 9824, 8226, 9688, 9675, 9689, 9794, 9792, 9834, 9835,
    9788, 9658, 9668, 8597, 8252, 182, 167, 9644, 8616, 8593, 8595, 8594, 8592, 8735,
    8596, 9650, 9660>>
Cp437Upper ==                \* codes 127 to 255
  <<8962, 199, 252, 233, 226, 228, 224, 229, 231, 234, 235, 232, 239, 238, 236, 196, 197,
    201, 230, 198, 244, 246, 242, 251, 249, 255, 214, 220, 162, 163, 165, 8359, 402, 225,
    237, 243, 250, 241, 209, 170, 186, 191, 8976, 172, 189, 188, 161, 171, 187, 9617,
    9618, 9619, 9474, 9508, 9569, 9570, 9558, 9557, 9571, 9553, 9559, 9565, 9564, 9563,
    9488, 9492, 9524, 9516, 9500, 9472, 9532, 9566, 9567, 9562, 9556, 9577, 9574, 9568,
    9552, 9580, 9575, 9576, 9572, 9573, 9561, 9560, 9554, 9555, 9579, 9578, 9496, 9484,
    9608, 9604, 9612, 9616, 9600, 945, 223, 915, 960, 931, 963, 181, 932, 934, 920, 937,
    948, 8734, 966, 949, 8745, 8801, 177, 8805, 8804, 8992, 8993, 247, 8776, 176, 8729,
    183, 8730, 8319, 178, 9632, 160>>
Cp437(c) == CASE c = 0 -> 0
              [] c \in 1..31 -> Cp437Symbols[c]
              [] c \in 32..126 -> c
              [] c \in 127..255 -> Cp437Upper[c - 126]

Cp1252Upper ==               \* codes 128 to 159; 0 stands for no character
  <<8364, 0, 8218, 402, 8222, 8230, 8224, 8225, 710, 8240, 352, 8249, 338, 0, 381, 0, 0,
    8216, 8217, 8220, 8221, 8226, 8211, 8212, 732, 8482, 353, 8250, 339, 0, 382, 376>>
Cp1252(c) == IF c \in 128..159 THEN Cp1252Upper[c - 127] ELSE c
Cp1252Missing == {c \in 128..159 : Cp1252Upper[c - 127] = 0}

ASSUME CodePagesDistinct ==
  /\ Cardinality({Cp437(c) : c \in 0..255}) = 256
  /\ Cardinality({Cp1252(c) : c \in (0..255) \ Cp1252Missing}) = 251

NumberOf(digits) ==
  LET sum[i \in 0..Len(digits)] == IF i = 0 THEN 0 ELSE 10 * sum[i - 1] + digits[i]
  IN sum[Len(digits)]
\* char::from_u32
IsChar(u) == u =< 55295 \/ (57344 =< u /\ u =< 1114111)

ConvertBuffer(digits) ==
  LET n == NumberOf(digits) IN
  IF digits = <<>> THEN NoText
  ELSE IF n >= 256 THEN IF IsChar(n) THEN Text(n) ELSE NoText
  ELSE IF Head(digits) = 0 THEN IF n \in Cp1252Missing THEN NoText ELSE Text(Cp1252(n))
  ELSE Text(Cp437(n))

----------------------------------------------------------------------------
(* Keys.  "sees" is whether the event gets to the middleware with the       *)
(* option on.                                                               *)

Seen(sees) ==
  /\ sees \/ missed < MaxMissed
  /\ missed' = IF sees THEN missed ELSE missed + 1

AltPressed(sees) ==
  /\ altDown < 2 /\ Seen(sees)
  /\ altDown' = altDown + 1
  /\ code' = Open(<<>>) /\ steady' = sees
  /\ buffer' = IF sees THEN Open(<<>>) ELSE buffer
  /\ injected' = NoText
Collected(b, d) == IF b = NoBuffer THEN b ELSE Open(Append(b.digits, d))
DigitPressed(d, sees) ==
  /\ Seen(sees)
  /\ \A b \in {buffer, code} : b # NoBuffer => Len(b.digits) < MaxDigits
  /\ code' = Collected(code, d)
  /\ steady' = (steady /\ sees)
  /\ buffer' = IF sees THEN Collected(buffer, d) ELSE buffer
  /\ injected' = NoText
  /\ UNCHANGED altDown
AltReleasedKeeps(sees) ==     \* the buffer is left as it is
  /\ altDown > 0 /\ Seen(sees)
  /\ altDown' = altDown - 1
  /\ injected' = IF sees /\ buffer # NoBuffer THEN ConvertBuffer(buffer.digits) ELSE NoText
  /\ code' = NoBuffer
  /\ steady' = sees
  /\ UNCHANGED buffer
AltReleased(sees) ==
  /\ altDown > 0 /\ Seen(sees)
  /\ altDown' = altDown - 1
  /\ injected' = IF sees /\ buffer # NoBuffer THEN ConvertBuffer(buffer.digits) ELSE NoText
  /\ buffer' = IF sees THEN NoBuffer ELSE buffer
  /\ code' = NoBuffer
  /\ steady' = sees

AltCodesInit ==
  /\ altDown = 0 /\ buffer = NoBuffer /\ injected = NoText
  /\ code = NoBuffer /\ steady = TRUE /\ missed = 0
AltCodesNext ==
  \E sees \in BOOLEAN :
    AltPressed(sees) \/ AltReleased(sees) \/ \E d \in PadDigits : DigitPressed(d, sees)
AltCodesSpec == AltCodesInit /\ [][AltCodesNext]_altCodeVars

----------------------------------------------------------------------------
(* Properties.                                                              *)

\* The characters of a number that need no code page.
PlainCode(digits, n) ==
  n >= 256 \/ n \in 32..126 \/ (Head(digits) = 0 /\ n \in 160..255)
Promised(digits) ==
  LET n == NumberOf(digits) IN IF IsChar(n) THEN Text(n) ELSE NoText
(* When Alt is released and the middleware has seen every key since an Alt   *)
(* key was pressed, or since the last was released, the character of exactly *)
(* the digits typed in between is injected, whatever was collected before    *)
(* them; without digits nothing is.                                          *)
AltCodesAsTyped ==
  [][altDown' < altDown /\ steady /\ missed' = missed =>
       IF code = NoBuffer \/ code = Open(<<>>) THEN injected' = NoText
       ELSE PlainCode(code.digits, NumberOf(code.digits))
              => injected' = Promised(code.digits)]_altCodeVars
=============================================================================
