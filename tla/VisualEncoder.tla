---------------------------- MODULE VisualEncoder ----------------------------
(***************************************************************************)
(* SigLIP2Encoder: the batches of images and of texts that the ingestion   *)
(* and the search have embedded, on the device that was resolved.  On a    *)
(* GPU a batch of images may not fit; its size is halved if the encoder    *)
(* chose it.  A text that is longer than the model's window is truncated,  *)
(* or cut into pieces that overlap, and its embedding is the mean of       *)
(* theirs; a piece is tokenised again, and that may cost it its end.       *)
(*                                                                         *)
(* An image is a number, a text its number of tokens.                      *)
(***************************************************************************)
EXTENDS DevicePolicy, Sequences, FiniteSets

CONSTANTS
    GpuBatch,    \* 16: the automatic batch size on a GPU
    CpuBatch,    \* 8
    Window,      \* tokens of a piece: text_max_length less the special tokens
    Stride,      \* text_chunk_stride: tokens that neighbours share
    MaxPieces    \* text_max_chunks

\* What the constructor and _split_text_batch insist on.
ASSUME EncoderAssumption ==
    /\ {GpuBatch, CpuBatch, MaxPieces} \subseteq Nat \ {0}
    /\ Window \in Nat /\ Stride \in Nat /\ Stride < Window
    /\ \A s \in Sites : \A b \in s.calls :
           /\ b.items \in Seq(Nat) /\ (b.asked = Unset \/ b.asked \in Nat \ {0})
           /\ b.kind = "text" => \A n \in DOMAIN b.items : \A m \in 0..b.items[n] : s.lost[b.items[n]][m] \in Nat

VARIABLES
    loaded,   \* _initialized: the weights are in memory
    batch     \* the call in progress: [kind, items, size, automatic, rows, step]; size and rows
              \* are its batch size and the embeddings so far, each [of, pieces]

encoderVars == <<site, hosted, loaded, batch>>

Encoder == IF Made("ingest_encoder") THEN hosted["ingest_encoder"] ELSE hosted["search_encoder"]
Ready == Encoder # Unset /\ ~Raises(Encoder.device)

NoBatch == [kind |-> "none", items |-> <<>>, size |-> 1, automatic |-> FALSE, rows |-> <<>>, step |-> "idle"]

EncoderInit ==
    /\ DeviceInit
    /\ loaded = FALSE
    /\ batch = NoBatch

AutoBatchSize == IF OnGpu(Encoder.runs) THEN GpuBatch ELSE CpuBatch

\* encode_image, encode_text: asked is a number of items, or Unset.
StartBatch(kind, items, asked) ==
    /\ Ready /\ batch.step # "encode"
    /\ batch' = [kind |-> kind, items |-> items, automatic |-> asked = Unset, rows |-> <<>>, step |-> "encode",
                 size |-> IF asked = Unset THEN AutoBatchSize ELSE asked]
    /\ UNCHANGED <<site, hosted, loaded>>

-----------------------------------------------------------------------------
(* The pieces of a text *)

Shift == Window - Stride
Least(m, n) == IF m < n THEN m ELSE n

\* The tokens of the n-th piece, which starts n shifts into the text,
Piece(n, length) == [first |-> n * Shift + 1, last |-> Least(n * Shift + Window, length)]

\* and the pieces, up to the first that reaches the end.
Cuts(length) == {n \in 0..length : n = 0 \/ (n - 1) * Shift + Window < length}

\* linspace with whole numbers: MaxPieces of them, spread over the text.
Spread(length) ==
    LET last == Cardinality(Cuts(length)) - 1
    IN  IF MaxPieces = 1 THEN {0} ELSE {(i * last) \div (MaxPieces - 1) : i \in 0..(MaxPieces - 1)}

\* _split_text_batch for one text: the numbers of the pieces it goes on with.
Chosen(length) == IF Cardinality(Cuts(length)) <= MaxPieces THEN Cuts(length) ELSE Spread(length)

\* The n-th piece after it was decoded, tokenised again and truncated to the window.
Retokenised(n, length) == [Piece(n, length) EXCEPT !.last = @ - site.lost[length][n]]

\* What the model reads of a text.  One that fits is passed on as it is; in the mode
\* "truncate" every text is, and the processor keeps its first window.
PiecesOf(length) ==
    IF site.truncates \/ length <= Window THEN {Piece(0, length)}
    ELSE {Retokenised(n, length) : n \in Chosen(length)}

-----------------------------------------------------------------------------
(* The batches *)

Here == Len(batch.rows)
Taken == IF batch.size < Len(batch.items) - Here THEN batch.size ELSE Len(batch.items) - Here
Row(n) == [of |-> n, pieces |-> IF batch.kind = "text" THEN PiecesOf(batch.items[n]) ELSE {}]

\* _load_model, before the first batch, raises without the weights; so does an image that
\* cannot be read, a text the processor refuses: the embeddings of the call are lost.
FailBatch ==
    /\ batch.step = "encode"
    /\ loaded' \in {loaded, TRUE}
    /\ batch' = [batch EXCEPT !.rows = <<>>, !.step = "failed"]
    /\ UNCHANGED deviceVars

\* One batch: its embeddings follow those of the batches before.
EncodeBatch ==
    /\ batch.step = "encode" /\ Here < Len(batch.items)
    /\ loaded' = TRUE
    /\ batch' = [batch EXCEPT !.rows = @ \o [k \in 1..Taken |-> Row(Here + k)]]
    /\ UNCHANGED deviceVars

\* Mutant of HalveBatch: goes on with the second half of what did not fit.
HalveAndSkip ==
    /\ batch.automatic /\ batch.size # 1
    /\ LET half == Taken \div 2 IN
       batch' = [batch EXCEPT !.size = @ \div 2, !.rows = @ \o [k \in 1..half |-> Row(Here + half + k)]]

\* OutOfMemoryError: half of an automatic batch, from the same image on.
HalveBatch ==
    /\ batch.automatic /\ batch.size # 1
    /\ batch' = [batch EXCEPT !.size = @ \div 2]

GiveUpBatch ==
    /\ ~batch.automatic \/ batch.size = 1
    /\ batch' = [batch EXCEPT !.rows = <<>>, !.step = "failed"]

OutOfMemory ==
    /\ batch.step = "encode" /\ batch.kind = "image" /\ Here < Len(batch.items) /\ OnGpu(Encoder.runs)
    /\ loaded' = TRUE
    /\ HalveBatch \/ GiveUpBatch
    /\ UNCHANGED deviceVars

EndBatch ==
    /\ batch.step = "encode" /\ Here = Len(batch.items)
    /\ loaded' = TRUE
    /\ batch' = [batch EXCEPT !.step = "done"]
    /\ UNCHANGED deviceVars

\* clear_cache, at the end of an ingestion.
ClearCache ==
    /\ loaded /\ batch.step # "encode"
    /\ loaded' = FALSE /\ batch' = NoBatch
    /\ UNCHANGED deviceVars

EncodeStep == FailBatch \/ EncodeBatch \/ OutOfMemory \/ EndBatch

EncoderNext ==
    \/ \E c \in PartsOf(site.process) : Make(c) /\ UNCHANGED <<loaded, batch>>
    \/ \E b \in site.calls : StartBatch(b.kind, b.items, b.asked)
    \/ EncodeStep
    \/ ClearCache

-----------------------------------------------------------------------------
(* Properties *)

Covers(pieces, token) == \E p \in pieces : token \in p.first..p.last

\* The tokens of a text that are to be read.  A text in pieces loses at its end what its
\* last piece does.
Readable(length) ==
    CASE length <= Window -> length
      [] length > Window /\ site.truncates -> Window
      [] OTHER -> length - site.lost[length][Cardinality(Cuts(length)) - 1]

\* Tokenising again costs no piece more than it shares with the next.
OverlapSuffices(length) == \A n \in 0..length : site.lost[length][n] <= Stride

\* No item is skipped, repeated or displaced, however often memory runs out: the n-th
\* embedding is that of the n-th item.  A call that fails keeps nothing, and one that
\* does not has them all.  Of a text the model reads at most a window at a time, and as long
\* as the overlap makes up for what the pieces lose, all of it up to the end of its last
\* piece: in the mode "truncate" that is the first window, and if there are too many pieces
\* it is at least the beginning and the end.
EncodingIsComplete ==
    /\ \A n \in DOMAIN batch.rows : batch.rows[n].of = n
    /\ batch.step = "done" => Len(batch.rows) = Len(batch.items)
    /\ batch.step = "failed" => batch.rows = <<>>
    /\ batch.kind = "text" => \A n \in DOMAIN batch.rows :
           LET length == batch.items[n]
               pieces == batch.rows[n].pieces
           IN  /\ pieces # {}
               /\ \A p \in pieces : p.last - p.first < Window
               /\ OverlapSuffices(length) =>
                      \A t \in 1..Readable(length) :
                          (\/ site.truncates
                           \/ Cardinality(Cuts(length)) <= MaxPieces
                           \/ MaxPieces > 1 /\ t \in {1, Readable(length)}) => Covers(pieces, t)
=============================================================================
