--------------------------- MODULE SlidingWindow ---------------------------
(***************************************************************************)
(* The sliding window of the anchor-based chopper: two half windows of     *)
(* WindowSize bytes that take turns as first and second, and the offset of *)
(* the current window, counted from the start of the first half.           *)
(***************************************************************************)
EXTENDS Naturals, Sequences

CONSTANT WindowSize

ASSUME WindowAssumption == WindowSize \in Nat \ {0}

EmptyWindow == [first |-> <<>>, second |-> <<>>, offset |-> 0]

Bytes(w) == Len(w.first) + Len(w.second)

(* Fewer than WindowSize bytes are available from the offset. *)
Unfull(w) ==
    IF w.second # <<>> THEN w.offset > Len(w.second)
    ELSE w.first = <<>> \/ w.offset > 0 \/ Len(w.first) < WindowSize

(* sliding_window_ref *)
Ref(w, i) == IF i < WindowSize THEN w.first[i + 1] ELSE w.second[i - WindowSize + 1]

FirstChar(w) == Ref(w, w.offset)
LastChar(w)  == Ref(w, w.offset + WindowSize - 1)

StartOffset(w) ==
    IF w.offset < Bytes(w) THEN w.offset
    ELSE IF Bytes(w) > 0 THEN Bytes(w) - 1 ELSE 0

EndOffset(w) ==
    IF w.offset + WindowSize < Bytes(w) THEN w.offset + WindowSize ELSE Bytes(w)

FaultyDestBuffer(w) ==
    IF w.first = <<>> \/ w.second = <<>>
    THEN [win |-> w, half |-> IF w.first = <<>> THEN "first" ELSE "second",
          discarded |-> <<>>]
    ELSE [win |-> [first |-> w.second, second |-> <<>>, offset |-> 0],
          half |-> "second", discarded |-> w.first]

(* sliding_window_dest_buffer: the half to read into.  When both are in    *)
(* use the first one is given up, and what it held is returned.            *)
DestBuffer(w) ==
    IF w.first = <<>> \/ w.second = <<>>
    THEN [win |-> w, half |-> IF w.first = <<>> THEN "first" ELSE "second",
          discarded |-> <<>>]
    ELSE [win |-> [first |-> w.second, second |-> <<>>,
                   offset |-> w.offset % WindowSize],
          half |-> "second", discarded |-> w.first]

FaultySkip(w, amount) ==
    IF w.offset + amount >= Len(w.first)
    THEN [first |-> w.second, second |-> <<>>, offset |-> 0]
    ELSE [w EXCEPT !.offset = @ + amount]

(* sliding_window_skip *)
Skip(w, amount) ==
    IF w.offset + amount >= Len(w.first)
    THEN [first |-> w.second, second |-> <<>>,
          offset |-> w.offset + amount - Len(w.first)]
    ELSE [w EXCEPT !.offset = @ + amount]

(* sliding_window_append_to_buffer: what it appends. *)
Slice(w, start, size) ==
    IF start < WindowSize
    THEN LET head == SubSeq(w.first, start + 1,
                            IF start + size < Len(w.first) THEN start + size
                            ELSE Len(w.first))
             rest == size - Len(head)
         IN  head \o SubSeq(w.second, 1, IF rest < Len(w.second) THEN rest
                                         ELSE Len(w.second))
    ELSE SubSeq(w.second, start - WindowSize + 1, start - WindowSize + size)
=============================================================================
