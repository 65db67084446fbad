----------------------------- MODULE Compression -----------------------------
(***************************************************************************)
(* Values as JSON, and compressed.  JSON is known by the value it is read  *)
(* back as, of which encoding/json decides: module Json has the package in *)
(* detail.  A compressor halves what it is given and adds Overhead; a gzip *)
(* or zlib writer refuses an unknown level, and a reader what another one  *)
(* wrote.                                                                  *)
(***************************************************************************)
EXTENDS GoValues

CONSTANTS
  Serialisable(_),   \* whether a value has a JSON encoding
  Image(_),          \* what the JSON of a value is read back as, into an any
  SizeOf(_),         \* the length of the JSON of an image
  Overhead

ASSUME OverheadType == Overhead \in Nat

\* compression.Config and its builders
DefaultCompression == [enabled |-> FALSE, algorithm |-> "gzip", minSize |-> 1024, level |-> -1]
WithEnabled(config, on) == [config EXCEPT !.enabled = on]
WithAlgorithm(config, algorithm) == [config EXCEPT !.algorithm = algorithm]
WithMinSize(config, n) == [config EXCEPT !.minSize = n]
WithLevel(config, level) == [config EXCEPT !.level = level]

-----------------------------------------------------------------------------
(* Compressors.  Data has its size, what it is the JSON of, and by whom it *)
(* is compressed.                                                          *)

NoOpCompressor == [name |-> "none", level |-> 0]
GzipCompressor(level) == [name |-> "gzip", level |-> level]
DeflateCompressor(level) == [name |-> "deflate", level |-> level]

Marshal(v) == [of |-> Image(v), by |-> "none", size |-> SizeOf(Image(v))]

\* The levels of gzip.NewWriterLevel and zlib.NewWriterLevel
Compresses(c) == c.name = "none" \/ c.level \in -2..9
Compress(c, data) ==
  IF c.name = "none" THEN data
  ELSE [data EXCEPT !.by = c.name, !.size = Overhead + @ \div 2]

Decompresses(c, data) == c.name = "none" \/ c.name = data.by
Decompress(c, data) == IF c.name = "none" THEN data ELSE [data EXCEPT !.by = "none"]

\* NewCompressor, which knows three algorithms
Supported(config) == config.enabled => config.algorithm \in {"none", "gzip", "deflate"}
NewCompressor(config) ==
  IF ~config.enabled THEN NoOpCompressor
  ELSE CASE config.algorithm = "none" -> NoOpCompressor
         [] config.algorithm = "gzip" -> GzipCompressor(config.level)
         [] config.algorithm = "deflate" -> DeflateCompressor(config.level)

\* compresses also what does not shrink
Bug_SerializeAndCompress(v, c, minSize) ==
  LET raw == Marshal(v)  small == raw.size < minSize  out == Compress(c, raw)
  IN IF ~Serialisable(v) \/ (~small /\ ~Compresses(c)) THEN [ok |-> FALSE]
     ELSE [ok |-> TRUE, data |-> IF small THEN raw ELSE out, compressed |-> ~small]

\* What is small is not compressed, nor what does not shrink
SerializeAndCompress(v, c, minSize) ==
  LET raw == Marshal(v)  small == raw.size < minSize  out == Compress(c, raw)
  IN IF ~Serialisable(v) \/ (~small /\ ~Compresses(c)) THEN [ok |-> FALSE]
     ELSE IF small \/ out.size >= raw.size THEN [ok |-> TRUE, data |-> raw, compressed |-> FALSE]
     ELSE [ok |-> TRUE, data |-> out, compressed |-> TRUE]

DecompressAndDeserialize(data, compressed, c) ==
  LET raw == IF compressed THEN Decompress(c, data) ELSE data
  IN IF (compressed /\ ~Decompresses(c, data)) \/ raw.by # "none" THEN [ok |-> FALSE]
     ELSE [ok |-> TRUE, value |-> raw.of]

\* What the documentation of encoding/json says of a value and of what its JSON
\* is read back as: of an any come back strings, Booleans, float64s, []any and
\* map[string]any; Booleans and float64s are themselves, and so is a string that
\* is valid UTF-8; an []any comes back element by element, a struct as a map
\* unless it has a MarshalJSON, bytes as a string.
JsonTypes == {"string", "bool", "float64", "[]any", "map[string]any"}
JsonContract(v) ==
  Serialisable(v) =>
    /\ SizeOf(Image(v)) \in Nat
    /\ Image(v) = Nil \/ TypeOf(Image(v)) \in JsonTypes
    /\ TypeOf(v) \in {"bool", "float64"} => Image(v) = v
    /\ TypeOf(v) = "string" => Image(v).kind = "string" /\ (ValidUTF8(v) => Image(v) = v)
    /\ v.kind = "bytes" => Image(v).kind = "string"
    /\ v.kind = "struct" /\ v.type \notin Marshalers =>
         Image(v).kind = "map" /\ TypeOf(Image(v)) = "map[string]any"
    /\ v.kind = "slice" /\ v.type = "[]any" /\ ~v.isNil =>
         /\ \A i \in DOMAIN v.elems : Serialisable(v.elems[i])
         /\ Image(v) = Slice("[]any", [i \in DOMAIN v.elems |-> Image(v.elems[i])])
=============================================================================
