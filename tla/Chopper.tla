------------------------------ MODULE Chopper ------------------------------
(***************************************************************************)
(* The choppers cut an input stream into blocks: fixed-size (with and      *)
(* without padding), whole-stream, and anchor-based, which ends a block    *)
(* where the fingerprint of the last WindowSize bytes is "magic", so that  *)
(* equal contents are cut alike wherever they occur.  The indexer calls    *)
(* read_block until it fails or returns CHOP_STREAM_END.                   *)
(*                                                                         *)
(* An action is one chop_stream_read, or one round of the loop that looks  *)
(* for an anchor.                                                          *)
(***************************************************************************)
EXTENDS InputStream, SlidingWindow, Integers

CONSTANTS
    BlockSize,      \* block_size of the fixed-size chopper
    ReadSize,       \* local_buffer of the whole-stream chopper
    MagicMask,      \* magic_fpr_mask, 2^n - 1
    Modulus,        \* ANCHOR_MODULO_MASK + 1, a power of two
    Word,           \* 2^32, the range of fpr_t, a multiple of Modulus
    Pad             \* the byte the padding consists of

ASSUME ChopperAssumption ==
    /\ BlockSize \in Nat \ {0} /\ ReadSize \in Nat \ {0}
    /\ Modulus \in Nat \ {0} /\ Word \in Nat \ {0}
    /\ Word % Modulus = 0 /\ 3 * Modulus <= Word
    /\ MagicMask \in Nat /\ Modulus % (MagicMask + 1) = 0
    /\ Inputs \subseteq Seq(Nat)

VARIABLES
    kind,       \* "fixed", "padded", "whole" or "anchor"
    buffer,     \* the block being put together
    window, start, fpr, prevFirstChar, first,   \* of the anchor-based one
    half, got,  \* the half window being filled, and what it got so far
    blocks,     \* history: the blocks returned
    status,     \* what the last read_block returned
    pc

chopVars == <<kind, buffer, window, start, fpr, prevFirstChar, first,
              half, got, blocks, status, pc>>
vars == <<inputVars, chopVars>>

Kind == {"fixed", "padded", "whole", "anchor"}
Prime == 3                              \* ANCHOR_PRIME_NUMBER

Init ==
    /\ InputInit
    /\ kind \in Kind
    /\ buffer = <<>> /\ window = EmptyWindow /\ start = 0 /\ fpr = 0
    /\ prevFirstChar = 0 /\ first = TRUE /\ half = "first" /\ got = <<>>
    /\ blocks = <<>> /\ status = "ok" /\ pc = "idle"

windowVars == <<window, start, fpr, prevFirstChar, first, half, got>>

(* chop_chopper_read_block, as long as the calls before succeeded. *)
ReadBlock ==
    /\ pc = "idle" /\ status = "ok"
    /\ buffer' = <<>>
    /\ start' = window.offset /\ first' = TRUE
    /\ pc' = IF kind = "anchor" THEN "scan" ELSE "read"
    /\ UNCHANGED <<inputVars, kind, window, fpr, prevFirstChar, half, got,
                   blocks, status>>

(* read_block returns block b, or an error, or the end of the stream. *)
Returns(b, err) ==
    /\ blocks' = IF err = "ok" THEN Append(blocks, b) ELSE blocks
    /\ status' = err
    /\ pc' = "idle"

-----------------------------------------------------------------------------
(* The fixed-size and the whole-stream chopper: one chop_stream_read, and  *)
(* what is done with its outcome.                                          *)
Padded(b) ==
    IF kind = "padded" THEN b \o [i \in 1..(BlockSize - Len(b)) |-> Pad] ELSE b

ReadFixed ==
    /\ pc = "read" /\ kind \in {"fixed", "padded"}
    /\ \E r \in Reads(BlockSize - Len(buffer)) :
          /\ Consume(r)
          /\ LET b == buffer \o r.data
             IN  /\ buffer' = b
                 /\ IF r.err \notin {"ok", "end"} THEN Returns(b, r.err)
                    ELSE IF r.err = "end"
                    THEN IF b = <<>> THEN Returns(b, "end") ELSE Returns(Padded(b), "ok")
                    ELSE IF Len(b) = BlockSize THEN Returns(b, "ok")
                    ELSE UNCHANGED <<blocks, status, pc>>
    /\ UNCHANGED <<kind, windowVars>>

ReadWhole ==
    /\ pc = "read" /\ kind = "whole"
    /\ \E r \in Reads(ReadSize) :
          /\ Consume(r)
          /\ buffer' = buffer \o r.data
          /\ IF r.err = "ok" THEN UNCHANGED <<blocks, status, pc>>
             ELSE IF r.err = "end" /\ buffer' # <<>> THEN Returns(buffer', "ok")
             ELSE Returns(buffer', r.err)
    /\ UNCHANGED <<kind, windowVars>>

-----------------------------------------------------------------------------
(* The fingerprint of WindowSize bytes, from scratch: a polynomial in the  *)
(* prime, the last byte with power 0, in arithmetic modulo Word.           *)
Power(n) == LET p[i \in 0..n] == IF i = 0 THEN 1 ELSE (p[i - 1] * Prime) % Word
            IN  p[n]

Fingerprint(s) ==
    LET f[i \in 0..Len(s)] ==
            IF i = 0 THEN 0
            ELSE (f[i - 1] + s[Len(s) - i + 1] * Power(i - 1)) % Modulus
    IN  f[Len(s)]

(* compute_window_fingerprint: backwards through the second half from the  *)
(* offset, then through the first half down to the offset.                 *)
WindowBytes(w) ==
    LET o == StartOffset(w)
    IN  SubSeq(w.first, o + 1, Len(w.first))
        \o IF o > 0 THEN SubSeq(w.second, 1, o) ELSE <<>>

(* compute_next_window_fingerprint: one byte leaves, one comes in.         *)
FaultyNextFingerprint(f, out, in) ==
    ((f * Prime - out * Power(WindowSize - 1) + in) % Word) % Modulus

UnmaskedNextFingerprint(f, out, in) == (f * Prime - out * Power(WindowSize) + in) % Word

NextFingerprint(f, out, in) ==
    ((f * Prime - out * Power(WindowSize) + in) % Word) % Modulus

Magic(f) == f % (MagicMask + 1) = 0

(* The window runs dry: pick the half to reload; what its other half held  *)
(* of the current block is saved first.                                    *)
Reload ==
    /\ pc = "scan" /\ Unfull(window)
    /\ LET d == DestBuffer(window)
       IN  /\ window' = d.win /\ half' = d.half /\ got' = <<>>
           /\ IF d.discarded = <<>> THEN UNCHANGED <<buffer, start>>
              ELSE /\ buffer' = buffer \o SubSeq(d.discarded, start + 1, Len(d.discarded))
                   /\ start' = 0
           /\ pc' = IF d.discarded # <<>> /\ Len(d.discarded) < start
                    THEN "aborted" ELSE "load"
    /\ UNCHANGED <<inputVars, kind, fpr, prevFirstChar, first, blocks, status>>

WithHalf(data) ==
    [window EXCEPT !.first  = IF half = "first" THEN data ELSE @,
                   !.second = IF half = "second" THEN data ELSE @]

(* read_sliding_window, one chop_stream_read at a time. *)
ReadSlidingWindow ==
    /\ pc = "load"
    /\ \E r \in Reads(WindowSize - Len(got)) :
          LET data == got \o r.data
              done == r.err # "ok" \/ Len(data) = WindowSize
          IN  /\ Consume(r)
              /\ got' = IF done THEN <<>> ELSE data
              /\ window' = IF done THEN WithHalf(data) ELSE window
              /\ IF r.err \notin {"ok", "end"} THEN Returns(buffer, r.err)
                 ELSE /\ UNCHANGED <<blocks, status>>
                      /\ pc' = IF ~done THEN "load"
                               ELSE IF data = <<>> THEN "flush" ELSE "scan"
    /\ UNCHANGED <<kind, buffer, start, fpr, prevFirstChar, first, half>>

(* One fingerprint.  At an anchor the block ends with the window, and the  *)
(* next block starts behind it; otherwise the window moves by one byte.    *)
Scan ==
    /\ pc = "scan" /\ ~Unfull(window)
    /\ LET f == IF first THEN Fingerprint(WindowBytes(window))
                ELSE NextFingerprint(fpr, prevFirstChar, LastChar(window))
           amount == EndOffset(window) - start
       IN  /\ fpr' = f /\ first' = FALSE
           /\ prevFirstChar' = FirstChar(window)
           /\ IF amount < 0 \/ (first /\ Len(WindowBytes(window)) # WindowSize)
              THEN pc' = "aborted" /\ UNCHANGED <<buffer, window, blocks, status>>
              ELSE IF Magic(f) /\ amount > 0
              THEN /\ buffer' = buffer \o Slice(window, start, amount)
                   /\ window' = Skip(window, WindowSize)
                   /\ Returns(buffer', "ok")
              ELSE /\ window' = [window EXCEPT !.offset = @ + 1]
                   /\ UNCHANGED <<buffer, blocks, status, pc>>
    /\ UNCHANGED <<inputVars, kind, start, half, got>>

(* The end of the stream: what is left is the last block. *)
Flush ==
    /\ pc = "flush"
    /\ buffer' = buffer \o Slice(window, start, EndOffset(window) - start)
    /\ window' = EmptyWindow
    /\ Returns(buffer', IF buffer' = <<>> THEN "end" ELSE "ok")
    /\ UNCHANGED <<inputVars, kind, start, fpr, prevFirstChar, first, half, got>>

Step == ReadFixed \/ ReadWhole \/ Reload \/ ReadSlidingWindow \/ Scan \/ Flush

Next == ReadBlock \/ Step

Spec == Init /\ [][Next]_vars

(* A chopper that was called runs on, and the indexer calls it again. *)
FairSpec == Spec /\ WF_vars(Next)

-----------------------------------------------------------------------------
(***************************************************************************)
(* The variables have their types: the fingerprint stays below the modulus *)
(* although it is computed by a subtraction of unsigned numbers, and the   *)
(* offsets stay within the two halves of the window.                       *)
(***************************************************************************)
TypeOK ==
    /\ position \in 0..Len(input) /\ failures \in 0..1
    /\ fpr \in 0..(Modulus - 1)
    /\ Len(window.first) <= WindowSize /\ Len(window.second) <= WindowSize
    /\ window.offset \in 0..(2 * WindowSize) /\ start \in 0..(2 * WindowSize)
    /\ Len(got) < WindowSize
    /\ status \in {"ok", "end", "read_error"}
    /\ pc \in {"idle", "read", "scan", "load", "flush", "aborted"}

Concat(s) ==
    LET c[i \in 0..Len(s)] == IF i = 0 THEN <<>> ELSE c[i - 1] \o s[i] IN c[Len(s)]

(***************************************************************************)
(* No assertion of the anchor-based chopper fails, and between two calls   *)
(* it accounts for every byte of the stream: the blocks returned, what the *)
(* two halves of its window hold from the offset on, and what was not read *)
(* yet are the input, once each and in order.                              *)
(***************************************************************************)
NothingLost ==
    /\ pc # "aborted"
    /\ pc = "idle" /\ status # "read_error" /\ kind \in {"fixed", "whole", "anchor"} =>
          Concat(blocks)
          \o SubSeq(window.first \o window.second, window.offset + 1, Bytes(window))
          \o Remaining = input

(***************************************************************************)
(* AUTO_TEST of chop_anchor_chopper_read_block: the fingerprint carried    *)
(* from window to window, across reloads of the halves, is the fingerprint *)
(* of the current window computed from scratch, and prev_first_char is the *)
(* byte that leaves next.                                                  *)
(***************************************************************************)
FingerprintExact ==
    pc = "scan" /\ ~first /\ ~Unfull(window) =>
        LET previous == SubSeq(input, position - Bytes(window) + window.offset,
                               position - Bytes(window) + window.offset + WindowSize - 1)
        IN  fpr = Fingerprint(previous) /\ prevFirstChar = previous[1]

Smallest(S) == CHOOSE x \in S : \A y \in S : x <= y

(* Where a block of content s that starts behind byte p ends, for a        *)
(* chopper of kind k.                                                      *)
NextCut(s, k, p) ==
    CASE k \in {"fixed", "padded"} -> Least(p + BlockSize, Len(s))
      [] k = "whole" -> Len(s)
      [] k = "anchor" ->
           Smallest({e \in (p + WindowSize)..Len(s) :
                     Magic(Fingerprint(SubSeq(s, e - WindowSize + 1, e)))}
                  \cup {Len(s)})

Cut(s, k, i) == LET c[j \in 0..i] == IF j = 0 THEN 0 ELSE NextCut(s, k, c[j - 1]) IN c[i]

BlockAt(s, k, i) ==
    LET b == SubSeq(s, Cut(s, k, i - 1) + 1, Cut(s, k, i))
    IN  IF k = "padded" THEN [j \in 1..BlockSize |-> IF j <= Len(b) THEN b[j] ELSE Pad]
        ELSE b

(***************************************************************************)
(* The blocks depend on nothing but the content, however the stream hands  *)
(* it out: each block starts where the last one ended and goes up to the   *)
(* first anchor at least WindowSize bytes away (up to BlockSize bytes, up  *)
(* to the end), only the last one may end without an anchor, and none of   *)
(* the input is missing when the end is announced.                         *)
(***************************************************************************)
ContentDefined ==
    /\ \A i \in 1..Len(blocks) :
          blocks[i] # <<>> /\ blocks[i] = BlockAt(input, kind, i)
    /\ status = "end" => Cut(input, kind, Len(blocks)) = Len(input)

(***************************************************************************)
(* The whole input is cut, or read_block returns an error, in the end,     *)
(* unless reads of the medium fail for ever: the loops of the choppers     *)
(* have no bound of their own, and no chopper goes round them, waiting for *)
(* bytes that do not come, while the stream answers.                       *)
(***************************************************************************)
ChoppingEnds == <>(status # "ok") \/ []<><<failures' # failures>>_vars
=============================================================================
