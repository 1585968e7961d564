------------------------------ MODULE CallData ------------------------------
(* internal/functions: Decode, which shows a call's data as that of a        *)
(* well-known function, and of the call that this makes, and so on; with the *)
(* ABI decoder and encoder of internal/solabi. The code reads ranges of      *)
(* bytes that the data itself gives, which may overlap, or not be there.     *)
(*                                                                           *)
(* Sizes are scaled down: a word has two bytes and not 32, a number that     *)
(* must fit in 64 bits is less than Numbers, and a selector has one byte.    *)
EXTENDS Integers, Sequences

CONSTANTS
  Calls,      \* well-known calls: [fn, args], with args as Encode takes them
  Bytes,      \* values that a byte of their data may be changed to
  Numbers,    \* the number of values of a byte, and so of a uint64
  MaxUint8,
  MaxDepth    \* how many levels of calls are decoded

VARIABLES
  data,       \* the data that is decoded
  frames,     \* the calls of decode that have started and not returned
  status,     \* "start", "decoding", "done", or "panic"
  function    \* the decoded function, if any

vars == <<data, frames, status, function>>

WordSize == 2

SelectorSize == 1

\* Two of the functions, by selector: transfer, and execTransaction without the
\* parameters that are like others of its own.
Definitions == <<<<"address", "uint256">>, <<"call", "uint8", "bytes">>>>

-----------------------------------------------------------------------------
(* solabi.Encode *)

Zeros(n) == [k \in 1..n |-> 0]

Encoding(value) ==
  IF value.dynamic
  THEN <<0, Len(value.bytes)>> \o value.bytes \o Zeros(Len(value.bytes) % WordSize)
  ELSE value.bytes

\* The head has a static value, or the offset of a dynamic one, in the tail.
AddValue(e, value, size) ==
  [head |-> e.head \o (IF value.dynamic THEN <<0, WordSize * size + Len(e.tail)>> ELSE Encoding(value)),
   tail |-> e.tail \o (IF value.dynamic THEN Encoding(value) ELSE <<>>)]

Encode(values) ==
  LET encoded[n \in 0 .. Len(values)] ==
        IF n = 0 THEN [head |-> <<>>, tail |-> <<>>]
        ELSE AddValue(encoded[n - 1], values[n], Len(values))
      e == encoded[Len(values)]
  IN e.head \o e.tail

EncodeCall(c) == <<c.fn>> \o Encode(c.args)

\* Arguments that a function takes: a word, or bytes.
Fits(type, value) ==
  /\ value.dynamic = (type \in {"call", "bytes"}) /\ value.bytes \in Seq(Nat)
  /\ ~value.dynamic => Len(value.bytes) = WordSize
  /\ type = "uint8" => value.bytes[1] = 0 /\ value.bytes[2] <= MaxUint8

IsCall(c) ==
  /\ c.fn \in DOMAIN Definitions /\ Len(c.args) = Len(Definitions[c.fn])
  /\ \A k \in DOMAIN Definitions[c.fn] : Fits(Definitions[c.fn][k], c.args[k])

-----------------------------------------------------------------------------
(* solabi.Decoder, of the arguments of a frame *)

Ok(value) == [status |-> "ok", value |-> value]
Error     == [status |-> "error", value |-> <<>>]
Panic     == [status |-> "panic", value |-> <<>>]

Length(f) == f.end - f.start

\* Mutant: the end of the word is computed as a uint64.
HasWordEnd(f, offset) == (offset + WordSize) % Numbers <= Length(f)

HasWord(f, offset) == offset <= Length(f) /\ Length(f) - offset >= WordSize

\* A slice that ends after its array panics.
Word(f, offset) ==
  IF ~HasWord(f, offset) THEN Error
  ELSE IF offset + WordSize > Length(f) THEN Panic
  ELSE Ok(SubSeq(data, f.start + offset + 1, f.start + offset + WordSize))

Uint64(word) ==
  IF word.status # "ok" THEN word
  ELSE IF word.value[1] # 0 THEN Error ELSE Ok(word.value[2])

\* The range of dynamic bytes, which is copied.
BytesAt(f, i) ==
  LET offset == Uint64(Word(f, WordSize * i))
      length == IF offset.status = "ok" THEN Uint64(Word(f, offset.value)) ELSE offset
      start  == offset.value + WordSize
  IN IF length.status # "ok" THEN length
     ELSE IF length.value > Length(f) - start THEN Error
     ELSE Ok([from |-> f.start + start, to |-> f.start + start + length.value])

\* An address is taken from the low bytes of its word, whatever the others are.
Value(f, i, type) ==
  LET word == Word(f, WordSize * i)
  IN CASE type = "address" -> IF word.status = "ok" THEN Ok(<<word.value[2]>>) ELSE word
       [] type = "uint256" -> word
       [] type = "uint8"   -> LET v == Uint64(word)
                              IN IF v.status = "ok" /\ v.value > MaxUint8 THEN Error ELSE v
       [] OTHER            -> BytesAt(f, i)

-----------------------------------------------------------------------------
(* functions.Decode *)

\* The data is that of a call, of which one byte may have been changed, and which
\* may have been cut, or continued.
Init ==
  /\ \E c \in Calls, b \in Bytes :
       LET d == Append(EncodeCall(c), b)
       IN \E k, n \in DOMAIN d : data = SubSeq([d EXCEPT ![k] = b], 1, n)
  /\ frames = <<>> /\ status = "start" /\ function = <<>>

Known(from, to, depth) ==
  /\ to - from >= SelectorSize /\ depth < MaxDepth
  /\ data[from + 1] \in DOMAIN Definitions

Frame(from, to) == [fn |-> data[from + 1], start |-> from + SelectorSize, end |-> to, args |-> <<>>]

Top == frames[Len(frames)]

Params == Definitions[Top.fn]

Arg(value, call) == [value |-> value, call |-> call]

\* The last of the calls gets one more argument.
AddArg(calls, arg) == [calls EXCEPT ![Len(calls)].args = Append(@, arg)]

Decode ==
  /\ status = "start"
  /\ IF Known(0, Len(data), 0)
     THEN status' = "decoding" /\ frames' = <<Frame(0, Len(data))>>
     ELSE status' = "done" /\ UNCHANGED frames
  /\ UNCHANGED <<data, function>>

\* decode returns to the one that called it, for an argument, or to Decode.
Returns(result) ==
  LET callers == SubSeq(frames, 1, Len(frames) - 1)
      bytes   == [from |-> Top.start - SelectorSize, to |-> Top.end]
  IN IF callers = <<>>
     THEN frames' = <<>> /\ status' = "done" /\ function' = result
     ELSE /\ frames' = AddArg(callers, Arg(bytes, result))
          /\ UNCHANGED <<status, function>>

\* Reads the next argument, and decodes it if it is the data of a call.
ReadArg ==
  /\ status = "decoding" /\ Len(Top.args) < Len(Params)
  /\ LET type == Params[Len(Top.args) + 1]
         arg  == Value(Top, Len(Top.args), type)
     IN \/ arg.status = "panic" /\ status' = "panic" /\ UNCHANGED <<frames, function>>
        \/ arg.status = "error" /\ Returns(<<>>)
        \/ /\ arg.status = "ok" /\ UNCHANGED <<status, function>>
           /\ frames' = IF type = "call" /\ Known(arg.value.from, arg.value.to, Len(frames))
                        THEN Append(frames, Frame(arg.value.from, arg.value.to))
                        ELSE AddArg(frames, Arg(arg.value, <<>>))
  /\ UNCHANGED data

Return ==
  /\ status = "decoding" /\ Len(Top.args) = Len(Params)
  /\ Returns(<<[fn |-> Top.fn, args |-> Top.args]>>)
  /\ UNCHANGED data

Next == Decode \/ ReadArg \/ Return

Spec == Init /\ [][Next]_vars

-----------------------------------------------------------------------------

\* The bytes of the data that are between two offsets start with those of c.
StartsWith(from, to, c) ==
  LET d == EncodeCall(c)
  IN Len(d) <= to - from /\ SubSeq(data, from + 1, from + Len(d)) = d

\* Whether the arguments in f are those that c was encoded with, and decoded at
\* the given depth if they are calls.
Shows(f, c, depth) ==
  \A k \in DOMAIN f.args :
    LET shown == f.args[k]
        bytes == c.args[k].bytes
    IN CASE Definitions[f.fn][k] = "address" -> shown.value[1] = bytes[2]
         [] Definitions[f.fn][k] = "uint256" -> shown.value = bytes
         [] Definitions[f.fn][k] = "uint8"   -> shown.value = bytes[2]
         [] OTHER -> /\ SubSeq(data, shown.value.from + 1, shown.value.to) = bytes
                     /\ Definitions[f.fn][k] = "call" /\ depth < MaxDepth =>
                          \A d \in Calls : bytes = EncodeCall(d) => shown.call # <<>>

\* Decoding doesn't panic, whatever the offsets and lengths in the data are, and
\* only takes bytes from the call that they are an argument of. A well-known call
\* is shown with the arguments that it was encoded with, whatever follows it, and
\* with the calls in it, down to MaxDepth levels (Decode, Decoder.word,
\* Decoder.Bytes, Encode).
DecodesCalls ==
  /\ status # "panic"
  /\ \A k \in DOMAIN frames :
       LET f == frames[k]
           read == Len(f.args) = Len(Definitions[f.fn])
       IN /\ \A j \in DOMAIN f.args : Definitions[f.fn][j] \in {"call", "bytes"} =>
               f.start <= f.args[j].value.from /\ f.args[j].value.to <= f.end
          /\ read => \A c \in Calls :
               StartsWith(f.start - SelectorSize, f.end, c) => Shows(f, c, k)
  /\ status = "done" /\ function = <<>> => \A c \in Calls : ~StartsWith(0, Len(data), c)
=============================================================================
