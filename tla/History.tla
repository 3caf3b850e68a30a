------------------------------ MODULE History ------------------------------
(***************************************************************************)
(* The texts the user has committed (src/src/history.cc): their bytes in   *)
(* one string, and for each text the widths of its characters.  Reads      *)
(* count from the end.  When 2 * Size texts are there, the older half is   *)
(* dropped.  A text is a sequence of characters, a character a sequence    *)
(* of bytes; pop() has no caller.                                          *)
(***************************************************************************)
EXTENDS Naturals, Sequences, SequencesExt

CONSTANTS
    Bytes, Texts,
    Throws,     \* what a read that raises out_of_range is said to return
    Size,       \* size_
    MaxInput    \* bound: nothing is committed while input_ is this long

ASSUME HistoryAssumption ==
    /\ Size \in Nat \ {0} /\ MaxInput \in Nat
    /\ Texts \subseteq Seq(Seq(Bytes)) /\ <<>> \notin Texts
    /\ Throws \notin Seq(Bytes)

VARIABLES
    input,      \* input_
    pos,        \* pos_
    committed,  \* history: the last texts since clear()
    cleaned     \* history: some were dropped since clear()

historyVars == <<input, pos, committed, cleaned>>

HistoryInit ==
    input = <<>> /\ pos = <<>> /\ committed = <<>> /\ cleaned = FALSE

\* SplitU8
Widths(text) == [i \in DOMAIN text |-> Len(text[i])]

Total(widths) ==
    LET sum[i \in 0 .. Len(widths)] ==
            IF i = 0 THEN 0 ELSE sum[i - 1] + widths[i]
    IN  sum[Len(widths)]

\* The last n elements, or all
LastOf(n, s) == SubSeq(s, IF n < Len(s) THEN Len(s) - n + 1 ELSE 1, Len(s))

(***************************************************************************)
(* Writing                                                                 *)
(***************************************************************************)
\* The totals are read while the deque shrinks: they are those of every second
\* text, not of the texts that are dropped.
Dropped(texts) == Total([i \in 1 .. Size |-> Total(texts[2 * i - 1])])

Cleanup(bytes, texts) ==
    /\ input' = SubSeq(bytes, Dropped(texts) + 1, Len(bytes))
    /\ pos' = SubSeq(texts, Size + 1, Len(texts))
    /\ cleaned' = TRUE

\* Mutant: the characters of a text are not told apart.
AddUnsplit(text) ==
    LET bytes == input \o FlattenSeq(text)
        texts == Append(pos, <<Len(FlattenSeq(text))>>)
    IN  /\ Len(input) < MaxInput
        /\ IF Len(texts) >= 2 * Size
           THEN Cleanup(bytes, texts)
           ELSE input' = bytes /\ pos' = texts /\ UNCHANGED cleaned
        /\ committed' = LastOf(2 * Size - 1, Append(committed, text))

Add(text) ==
    LET bytes == input \o FlattenSeq(text)
        texts == Append(pos, Widths(text))
    IN  /\ Len(input) < MaxInput
        /\ IF Len(texts) >= 2 * Size
           THEN Cleanup(bytes, texts)
           ELSE input' = bytes /\ pos' = texts /\ UNCHANGED cleaned
        /\ committed' = LastOf(2 * Size - 1, Append(committed, text))

\* Mutant: the widths are kept.
ClearInput ==
    input' = <<>> /\ committed' = <<>> /\ cleaned' = FALSE /\ UNCHANGED pos

Clear ==
    input' = <<>> /\ pos' = <<>> /\ committed' = <<>> /\ cleaned' = FALSE

(***************************************************************************)
(* Reading                                                                 *)
(***************************************************************************)
\* input_.substr(input_.size() - n)
Suffix(n) == IF n <= Len(input) THEN LastOf(n, input) ELSE Throws

Gets(n) == Suffix(Total(FlattenSeq(LastOf(n, pos))))

GetChars(n) == Suffix(Total(LastOf(n, FlattenSeq(pos))))

\* back() and last()
BackChar == GetChars(1)
LastText == Gets(1)

-----------------------------------------------------------------------------
BytesOf(texts) == FlattenSeq(FlattenSeq(texts))

\* Whatever has been dropped, cut or cleared before, a read that returns gives
\* the last texts, or the last characters, of what was committed, whole
\* (history.cc:233, :287, :298).
ReadsAreRecent ==
    /\ \A n \in 1 .. Len(pos) :
         Gets(n) \in {BytesOf(LastOf(n, committed)), Throws}
    /\ \A n \in 1 .. Len(FlattenSeq(pos)) :
         GetChars(n) \in {FlattenSeq(LastOf(n, FlattenSeq(committed))), Throws}
=============================================================================
