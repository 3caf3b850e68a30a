-------------------------- MODULE AutoSpacerProofs --------------------------
(***************************************************************************)
(* Theorems of AutoSpacer, for any classes a caret may find around it and  *)
(* with the right space enabled or not.  What makes the spaces of a        *)
(* commit right is the boundary kept since its composition began, if the   *)
(* text around it was known, and else the spaces put at its head, if the   *)
(* last record told what stood before it.                                  *)
(***************************************************************************)
EXTENDS AutoSpacer, TLAPS

Inputs ==
    [on : BOOLEAN, spaces : 0..1, plain : BOOLEAN, fresh : BOOLEAN, unseen : BOOLEAN]

Records == [text : Classes, direct : BOOLEAN]

\* A text that is sent with a single space at most.
SentTexts ==
    [ text : Classes, lead : 0..1, trail : BOOLEAN, english : BOOLEAN,
      by : {"nobody", "rime", "surrounding", "history"} ]

SpacerTypes ==
    /\ doc \in Boundaries
    /\ surrounding \in Boundaries \cup {NoSurrounding}
    /\ client_state \in Boundaries
    /\ input \in Inputs
    /\ latest \in Records
    /\ ascii_mode \in BOOLEAN
    /\ sent \in SentTexts

\* The boundary of the composition is kept, and what the client reports while it
\* lasts agrees with it on the right, where no marked text is.
BoundaryKept ==
    BeganKnown =>
        /\ client_state = doc
        /\ Surrounded => surrounding.after = doc.after

\* The classes that no key can record while the composition lasts.
Told == {"cjk", "alnum", "space"}

\* One space is at the head of what follows English, unless that went straight
\* out, and none of what follows Chinese or a space.
HeadSpaced(head, before, record) ==
    record.text = before /\ before \in Told =>
        head.spaces = IF before = "alnum" /\ ~record.direct THEN 1 ELSE 0

\* As long as the record is what stands before the composition, its head has the
\* spaces that this record calls for.
RecordKept == BeganUnseen => HeadSpaced(input, doc.before, latest)

SpacerInv == SpacerTypes /\ BoundaryKept /\ RecordKept

-----------------------------------------------------------------------------
(***************************************************************************)
(* Types                                                                   *)
(***************************************************************************)
LEMMA SurroundedType ==
    SpacerTypes /\ Surrounded => surrounding \in Boundaries
BY DEF SpacerTypes, Surrounded

LEMMA NotBoundary == NoSurrounding \notin Boundaries
BY DEF NoSurrounding, Boundaries, Classes, Punctuation

LEMMA NoneOK ==
    /\ NoInput \in Inputs /\ NoRecord \in Records /\ NoText \in SentTexts
    /\ NoBoundary \in Boundaries
BY DEF NoInput, NoRecord, NoText, NoBoundary, Inputs, Records, SentTexts,
       Boundaries, Classes, Punctuation

LEMMA RawOK ==
    ASSUME NEW text \in Classes, NEW n \in 0..1,
           NEW by \in {"rime", "surrounding", "history"}
    PROVE  Raw(text, n, by) \in SentTexts
BY DEF Raw, SentTexts

LEMMA CandidateOK ==
    ASSUME NEW text \in Classes, NEW n \in 0..1
    PROVE  [Raw(text, n, "rime") EXCEPT !.english = FALSE] \in SentTexts
BY DEF Raw, SentTexts

LEMMA DecoratedOK ==
    ASSUME NEW text \in Classes, NEW before, NEW after, NEW ascii \in BOOLEAN
    PROVE  DecorateCommitText(text, before, after, ascii) \in SentTexts
<1> DEFINE bare  == text = "zhpunct"
           lead  == IF ~bare /\ NeedSpaceBefore(before, ascii) THEN 1 ELSE 0
           trail == ~bare /\ enable_right_space /\ NeedSpaceAfter(after, ascii)
<1>1. DecorateCommitText(text, before, after, ascii)
        = [text |-> text, lead |-> lead, trail |-> trail, english |-> ascii,
           by |-> "surrounding"]
  BY DEF DecorateCommitText
<1>2. lead \in 0..1 /\ trail \in BOOLEAN OBVIOUS
<1> HIDE DEF lead, trail
<1> QED BY <1>1, <1>2 DEF SentTexts

\* What a key changes is of its type.
KeyTypes ==
    doc' \in Boundaries /\ input' \in Inputs /\ latest' \in Records
    /\ sent' \in SentTexts

LEMMA SendOK ==
    ASSUME SpacerTypes, NEW t \in SentTexts, NEW direct \in BOOLEAN,
           Send(t, direct)
    PROVE  doc' \in Boundaries /\ latest' \in Records /\ sent' \in SentTexts
<1>1. t.text \in Classes /\ t.trail \in BOOLEAN BY DEF SentTexts
<1>2. "space" \in Classes /\ "padded" \in Classes BY DEF Classes, Punctuation
<1>3. doc' \in Boundaries BY <1>1, <1>2 DEF Send, SpacerTypes, Boundaries
<1>4. latest' \in Records BY <1>1, <1>2 DEF Send, Records
<1> QED BY <1>3, <1>4 DEF Send

LEMMA QuietOK ==
    SpacerTypes /\ Quiet => doc' \in Boundaries /\ sent' \in SentTexts
BY NoneOK DEF Quiet, SpacerTypes

LEMMA BeginOK ==
    ASSUME NEW mod, NEW n \in 0..1, Begin(mod, n)
    PROVE  input' \in Inputs
BY DEF Begin, Inputs

LEMMA ExtendOK ==
    ASSUME SpacerTypes, NEW mod, Extend(mod)
    PROVE  input' \in Inputs
BY BeginOK DEF Extend, SpacerTypes

LEMMA MoveToOK ==
    MoveTo => doc' \in Boundaries /\ sent' \in SentTexts
BY NoneOK, SpacerAssumption DEF MoveTo, Boundaries

-----------------------------------------------------------------------------
(***************************************************************************)
(* Keys left to rime                                                       *)
(***************************************************************************)
LEMMA RimeLetterOK ==
    ASSUME SpacerTypes, NEW mod, RimeLetter(mod)
    PROVE  KeyTypes
<1>1. CASE mod = "ctrl"
  BY <1>1, QuietOK DEF RimeLetter, KeyTypes, SpacerTypes
<1>2. CASE mod # "ctrl" /\ (~ascii_mode \/ input.on)
  BY <1>2, QuietOK, ExtendOK DEF RimeLetter, KeyTypes, SpacerTypes
<1>3. CASE mod # "ctrl" /\ ~(~ascii_mode \/ input.on)
  <2>1. "alnum" \in Classes BY DEF Classes, Punctuation
  <2>2. sent' \in SentTexts BY <1>3, <2>1, RawOK DEF RimeLetter
  <2>3. doc' \in Boundaries
    BY <1>3, <2>1 DEF RimeLetter, SpacerTypes, Boundaries
  <2>4. latest' \in Records /\ UNCHANGED input
    <3>1. [text |-> "alnum", direct |-> TRUE] \in Records BY <2>1 DEF Records
    <3>2. latest \in Records BY DEF SpacerTypes
    <3> QED BY <1>3, <3>1, <3>2 DEF RimeLetter
  <2> QED BY <2>2, <2>3, <2>4 DEF KeyTypes, SpacerTypes
<1> QED BY <1>1, <1>2, <1>3

LEMMA CandidatesOK == Candidates \subseteq Classes
BY DEF Candidates, Classes

LEMMA RimeCommitsOK ==
    ASSUME SpacerTypes, NEW texts \in SUBSET Classes, RimeCommits(texts)
    PROVE  KeyTypes
<1>1. PICK text \in texts :
        Send([Raw(text, input.spaces, "rime") EXCEPT !.english = FALSE], FALSE)
  BY DEF RimeCommits
<1>2. [Raw(text, input.spaces, "rime") EXCEPT !.english = FALSE] \in SentTexts
  BY CandidateOK DEF SpacerTypes, Inputs
<1>3. input' = NoInput BY DEF RimeCommits
<1> QED BY <1>1, <1>2, <1>3, SendOK, NoneOK DEF KeyTypes

LEMMA RimeKeyOK ==
    ASSUME SpacerTypes, NEW class \in Classes, RimeKey(class)
    PROVE  KeyTypes
<1>1. CASE input.on BY <1>1, CandidatesOK, RimeCommitsOK DEF RimeKey
<1>2. CASE ~input.on
  <2>1. Raw(class, 0, "rime") \in SentTexts BY RawOK
  <2> QED BY <1>2, <2>1, SendOK DEF RimeKey, KeyTypes, SpacerTypes
<1> QED BY <1>1, <1>2

LEMMA RimePunctOK ==
    ASSUME SpacerTypes, NEW class \in Punctuation, NEW record \in Records,
           RimePunct(class, record)
    PROVE  KeyTypes
<1> DEFINE typed == IF ascii_mode THEN {class} ELSE {class, "zhpunct"}
<1>1. typed \subseteq Classes /\ class \in Classes BY DEF Classes
<1>2. \/ /\ ~input.on /\ UNCHANGED input
         /\ \E text \in typed : Send(Raw(text, 0, "rime"), TRUE)
      \/ /\ sent' = Raw(class, 0, "rime") /\ doc' = [doc EXCEPT !.before = class]
         /\ latest' = record /\ UNCHANGED input
      \/ RimeCommits(Candidates \cup typed)
      \/ Quiet /\ latest' = record /\ UNCHANGED input
  BY DEF RimePunct
<1> HIDE DEF typed
<1>3. ASSUME NEW text \in typed, Send(Raw(text, 0, "rime"), TRUE), UNCHANGED input
      PROVE  KeyTypes
  <2>1. Raw(text, 0, "rime") \in SentTexts BY <1>1, RawOK
  <2> QED BY <1>3, <2>1, SendOK DEF KeyTypes, SpacerTypes
<1>4. CASE /\ sent' = Raw(class, 0, "rime") /\ doc' = [doc EXCEPT !.before = class]
           /\ latest' = record /\ UNCHANGED input
  <2>1. doc' \in Boundaries BY <1>1, <1>4 DEF SpacerTypes, Boundaries
  <2> QED BY <1>1, <1>4, <2>1, RawOK DEF KeyTypes, SpacerTypes
<1>5. CASE RimeCommits(Candidates \cup typed)
  BY <1>1, <1>5, CandidatesOK, RimeCommitsOK
<1>6. CASE Quiet /\ latest' = record /\ UNCHANGED input
  BY <1>6, QuietOK DEF KeyTypes, SpacerTypes
<1> QED BY <1>2, <1>3, <1>4, <1>5, <1>6

LEMMA RimeEnterOK ==
    ASSUME SpacerTypes, NEW n \in 0..1, NEW record \in Records,
           RimeEnter(n, record)
    PROVE  KeyTypes
<1>1. CASE input.on
  <2>1. Raw("alnum", n, "rime") \in SentTexts BY RawOK DEF Classes, Punctuation
  <2> QED BY <1>1, <2>1, SendOK, NoneOK DEF RimeEnter, KeyTypes
<1>2. CASE ~input.on
  <2>1. doc' \in Boundaries
    BY <1>2 DEF RimeEnter, SpacerTypes, Boundaries, Classes, Punctuation
  <2> QED BY <1>2, <2>1, NoneOK DEF RimeEnter, KeyTypes, SpacerTypes
<1> QED BY <1>1, <1>2

LEMMA RimeDeleteOK ==
    ASSUME SpacerTypes, RimeDelete
    PROVE  KeyTypes
BY QuietOK, MoveToOK, NoneOK DEF RimeDelete, KeyTypes, SpacerTypes

LEMMA RimeNavigateOK ==
    ASSUME SpacerTypes, NEW record \in Records, RimeNavigate(record)
    PROVE  KeyTypes
BY QuietOK, MoveToOK DEF RimeNavigate, KeyTypes, SpacerTypes

-----------------------------------------------------------------------------
(***************************************************************************)
(* Keys of AutoSpacer                                                      *)
(***************************************************************************)
LEMMA SendSpacedOK ==
    ASSUME SpacerTypes, NEW by \in {"surrounding", "history"}, SendSpaced(by)
    PROVE  KeyTypes
<1>1. Raw("alnum", 1, by) \in SentTexts BY RawOK DEF Classes, Punctuation
<1> QED BY <1>1, SendOK DEF SendSpaced, KeyTypes, SpacerTypes

LEMMA CommitDecoratedOK ==
    ASSUME SpacerTypes, NEW text \in Classes, NEW ascii \in BOOLEAN,
           CommitDecorated(text, ascii)
    PROVE  KeyTypes /\ client_state' \in Boundaries
<1> DEFINE t == DecorateCommitText(text, Boundary.before, Boundary.after, ascii)
<1>1. t \in SentTexts BY DecoratedOK
<1>2. Send(t, TRUE) /\ input' = NoInput /\ client_state' = NoBoundary
  BY DEF CommitDecorated
<1> HIDE DEF t
<1> QED BY <1>1, <1>2, SendOK, NoneOK DEF KeyTypes

LEMMA LeftToRimeOK ==
    ASSUME SpacerTypes, Surrounded, NEW mod, LeftToRime(mod)
    PROVE  client_state' \in Boundaries
BY SurroundedType DEF LeftToRime, SpacerTypes

LEMMA WithContextOK ==
    ASSUME SpacerTypes, WithContext
    PROVE  KeyTypes /\ client_state' \in Boundaries
<1>1. ASSUME NEW mod \in {"none", "shift", "ctrl"}, LetterWithContext(mod)
      PROVE  KeyTypes /\ client_state' \in Boundaries
  <2>1. CASE SendSpaced("surrounding") /\ UNCHANGED client_state
    BY <2>1, SendSpacedOK DEF SpacerTypes
  <2>2. CASE Quiet /\ UNCHANGED <<input, latest, client_state>>
    BY <2>2, QuietOK DEF SpacerTypes, KeyTypes
  <2>3. CASE RimeLetter(mod) /\ LeftToRime(mod)
    BY <1>1, <2>3, RimeLetterOK, LeftToRimeOK DEF LetterWithContext
  <2> QED BY <1>1, <2>1, <2>2, <2>3 DEF LetterWithContext
<1>2. CASE EnterWithContext
  <2>1. CASE CommitDecorated("alnum", TRUE)
    BY <2>1, CommitDecoratedOK DEF Classes, Punctuation
  <2>2. CASE RimeEnter(input.spaces, latest) /\ LeftToRime("none")
    <3>1. input.spaces \in 0..1 /\ latest \in Records BY DEF SpacerTypes, Inputs
    <3> QED BY <1>2, <2>2, <3>1, RimeEnterOK, LeftToRimeOK DEF EnterWithContext
  <2> QED BY <1>2, <2>1, <2>2 DEF EnterWithContext
<1>3. CASE SpaceWithContext
  <2>1. ASSUME NEW cand \in Classes, NEW ascii \in BOOLEAN,
               CommitDecorated(cand, ascii)
        PROVE  KeyTypes /\ client_state' \in Boundaries
    BY <2>1, CommitDecoratedOK
  <2>2. CASE RimeKey("space") /\ LeftToRime("none")
    <3>1. "space" \in Classes BY DEF Classes, Punctuation
    <3> QED BY <1>3, <2>2, <3>1, RimeKeyOK, LeftToRimeOK DEF SpaceWithContext
  <2>3. "alnum" \in Classes BY DEF Classes, Punctuation
  <2> QED BY <1>3, <2>1, <2>2, <2>3, CandidatesOK DEF SpaceWithContext
<1>4. CASE DigitWithContext
  <2>1. ASSUME NEW cand \in Candidates, CommitDecorated(cand, cand = "alnum")
        PROVE  KeyTypes /\ client_state' \in Boundaries
    <3>1. (cand = "alnum") \in BOOLEAN /\ cand \in Classes BY CandidatesOK
    <3> QED BY <2>1, <3>1, CommitDecoratedOK
  <2>2. CASE SendSpaced("surrounding") /\ UNCHANGED client_state
    BY <2>2, SendSpacedOK DEF SpacerTypes
  <2>3. CASE RimeKey("alnum") /\ LeftToRime("none")
    <3>1. "alnum" \in Classes BY DEF Classes, Punctuation
    <3> QED BY <1>4, <2>3, <3>1, RimeKeyOK, LeftToRimeOK DEF DigitWithContext
  <2> QED BY <1>4, <2>1, <2>2, <2>3 DEF DigitWithContext
<1>5. ASSUME NEW class \in PunctKeys, PunctWithContext(class)
      PROVE  KeyTypes /\ client_state' \in Boundaries
  <2>1. class \in Punctuation /\ latest \in Records
    BY SpacerAssumption DEF SpacerTypes
  <2> QED BY <1>5, <2>1, RimePunctOK, LeftToRimeOK DEF PunctWithContext
<1>6. CASE DeleteWithContext
  BY <1>6, RimeDeleteOK, LeftToRimeOK DEF DeleteWithContext
<1>7. CASE NavigateWithContext
  BY <1>7, RimeNavigateOK, LeftToRimeOK DEF NavigateWithContext, SpacerTypes
<1> QED BY <1>1, <1>2, <1>3, <1>4, <1>5, <1>6, <1>7 DEF WithContext

\* What Enter makes of the spaces at the head of the input is one space at most:
\* one is added only where there is none.
LEMMA SpacesForEnterOK == SpacerTypes => SpacesForEnter \in 0..1
BY DEF SpacerTypes, Inputs, SpacesForEnter, NeedAddSpace

LEMMA ByHistoryOK ==
    ASSUME SpacerTypes, ByHistory
    PROVE  KeyTypes
<1>1. ASSUME NEW mod \in {"none", "shift", "ctrl"}, LetterByHistory(mod)
      PROVE  KeyTypes
  <2>1. CASE Extend(mod) /\ Quiet /\ UNCHANGED latest
    BY <2>1, ExtendOK, QuietOK DEF KeyTypes, SpacerTypes
  <2>2. CASE Begin(mod, 1) /\ Quiet /\ UNCHANGED latest
    BY <2>2, BeginOK, QuietOK DEF KeyTypes, SpacerTypes
  <2>3. CASE SendSpaced("history") BY <2>3, SendSpacedOK
  <2>4. CASE RimeLetter(mod) BY <2>4, RimeLetterOK
  <2> QED BY <1>1, <2>1, <2>2, <2>3, <2>4 DEF LetterByHistory
<1>2. CASE EnterByHistory
  <2>1. EnterRecord \in Records
    BY DEF EnterRecord, SpacerTypes, Records, Classes
  <2> QED BY <1>2, <2>1, RimeEnterOK, SpacesForEnterOK DEF EnterByHistory
<1>3. CASE SpaceByHistory
  <2>1. "space" \in Classes BY DEF Classes, Punctuation
  <2> QED BY <1>3, <2>1, RimeKeyOK DEF SpaceByHistory
<1>4. CASE DigitByHistory
  <2>1. "alnum" \in Classes BY DEF Classes, Punctuation
  <2> DEFINE n == input.spaces + (IF NeedAddSpace THEN 1 ELSE 0)
  <2>2. n \in 0..1 BY DEF SpacerTypes, Inputs, NeedAddSpace
  <2> HIDE DEF n
  <2>3. CASE Send(Raw("alnum", n, "history"), TRUE) /\ input' = NoInput
    BY <2>1, <2>2, <2>3, RawOK, SendOK, NoneOK DEF KeyTypes
  <2>4. CASE RimeKey("alnum") BY <2>1, <2>4, RimeKeyOK
  <2> QED BY <1>4, <2>3, <2>4 DEF DigitByHistory, n
<1>5. ASSUME NEW class \in PunctKeys, PunctByHistory(class)
      PROVE  KeyTypes
  <2>1. class \in Punctuation BY SpacerAssumption
  <2>2. PICK record \in {latest, [text |-> class, direct |-> TRUE]} :
          RimePunct(class, record)
    BY <1>5 DEF PunctByHistory
  <2>3. [text |-> class, direct |-> TRUE] \in Records
    BY <2>1 DEF Records, Classes
  <2>4. record \in Records BY <2>3 DEF SpacerTypes
  <2> QED BY <2>1, <2>2, <2>4, RimePunctOK
<1>6. CASE DeleteByHistory BY <1>6, RimeDeleteOK DEF DeleteByHistory
<1>7. CASE NavigateByHistory
  BY <1>7, RimeNavigateOK, NoneOK DEF NavigateByHistory, SpacerTypes
<1> QED BY <1>1, <1>2, <1>3, <1>4, <1>5, <1>6, <1>7 DEF ByHistory

-----------------------------------------------------------------------------
(***************************************************************************)
(* The boundary kept                                                       *)
(***************************************************************************)
\* A key either ends the composition, or leaves it, its document and its
\* boundary alone, or begins one and keeps the boundary it begins with.
Continues == UNCHANGED input /\ (input.on => UNCHANGED <<doc, client_state>>)

Starts ==
    /\ ~input.on
    /\ BeganKnown' => client_state' = doc' /\ surrounding = doc'

KeepsBoundary == input' = NoInput \/ Continues \/ Starts

\* Whatever a key leaves to rime keeps the boundary cached when the composition
\* began.
LEMMA LeftContinues ==
    ASSUME UNCHANGED input, input.on => Quiet, NEW mod,
           LeftToRime(mod) \/ UNCHANGED client_state
    PROVE  Continues
BY DEF Continues, Quiet, LeftToRime

LEMMA RimeKeyEnds ==
    ASSUME NEW class, RimeKey(class), LeftToRime("none") \/ UNCHANGED client_state
    PROVE  input' = NoInput \/ Continues
BY DEF RimeKey, RimeCommits, Continues

LEMMA RimePunctEnds ==
    ASSUME NEW class, NEW record, RimePunct(class, record),
           LeftToRime("none") \/ UNCHANGED client_state
    PROVE  input' = NoInput \/ Continues
<1>1. input' = NoInput \/ (UNCHANGED input /\ (input.on => Quiet))
  BY DEF RimePunct, RimeCommits
<1> QED BY <1>1, LeftContinues

LEMMA RimeEnterEnds ==
    ASSUME NEW n, NEW record, RimeEnter(n, record),
           LeftToRime("none") \/ UNCHANGED client_state
    PROVE  input' = NoInput \/ Continues
BY DEF RimeEnter, Continues

LEMMA WithContextKeeps ==
    ASSUME SpacerTypes, WithContext
    PROVE  KeepsBoundary
<1>1. ASSUME NEW mod \in {"none", "shift", "ctrl"}, LetterWithContext(mod)
      PROVE  KeepsBoundary
  <2>1. CASE SpacedByContext(mod) /\ SendSpaced("surrounding")
             /\ UNCHANGED client_state
    BY <2>1 DEF SpacedByContext, SendSpaced, Continues, KeepsBoundary
  <2>2. CASE Quiet /\ UNCHANGED <<input, latest, client_state>>
    BY <2>2 DEF Quiet, Continues, KeepsBoundary
  <2>3. CASE RimeLetter(mod) /\ LeftToRime(mod)
    <3>1. CASE UNCHANGED input
      <4>1. input.on => Quiet BY <2>3 DEF RimeLetter
      <4> QED BY <2>3, <3>1, <4>1, LeftContinues DEF KeepsBoundary
    <3>2. CASE ~UNCHANGED input
      <4>1. mod # "ctrl" /\ (~ascii_mode \/ input.on) /\ Extend(mod) /\ Quiet
        BY <2>3, <3>2 DEF RimeLetter
      <4>2. ~input.on /\ ~ascii_mode /\ Begin(mod, 0)
        BY <3>2, <4>1 DEF Extend
      <4>3. BeganKnown' => mod = "none" /\ surrounding = doc
        BY <4>2 DEF BeganKnown, Begin
      <4>4. mod = "none" => client_state' = surrounding
        BY <2>3, <4>2 DEF LeftToRime
      <4> QED BY <4>1, <4>2, <4>3, <4>4 DEF Quiet, Starts, KeepsBoundary
    <3> QED BY <3>1, <3>2
  <2> QED BY <1>1, <2>1, <2>2, <2>3 DEF LetterWithContext
<1>2. CASE EnterWithContext
  BY <1>2, RimeEnterEnds DEF EnterWithContext, CommitDecorated, KeepsBoundary
<1>3. CASE SpaceWithContext
  BY <1>3, RimeKeyEnds DEF SpaceWithContext, CommitDecorated, KeepsBoundary
<1>4. CASE DigitWithContext
  <2>1. CASE SpacedByContext("none") /\ SendSpaced("surrounding")
             /\ UNCHANGED client_state
    BY <2>1 DEF SpacedByContext, SendSpaced, Continues, KeepsBoundary
  <2> QED BY <1>4, <2>1, RimeKeyEnds
          DEF DigitWithContext, CommitDecorated, KeepsBoundary
<1>5. ASSUME NEW class, PunctWithContext(class)
      PROVE  KeepsBoundary
  BY <1>5, RimePunctEnds DEF PunctWithContext, KeepsBoundary
<1>6. CASE DeleteWithContext
  <2>1. input' = NoInput \/ (UNCHANGED input /\ (input.on => Quiet))
    BY <1>6 DEF DeleteWithContext, RimeDelete
  <2> QED BY <1>6, <2>1, LeftContinues DEF DeleteWithContext, KeepsBoundary
<1>7. CASE NavigateWithContext
  <2>1. UNCHANGED input /\ (input.on => Quiet)
    BY <1>7 DEF NavigateWithContext, RimeNavigate
  <2> QED BY <1>7, <2>1, LeftContinues DEF NavigateWithContext, KeepsBoundary
<1> QED BY <1>1, <1>2, <1>3, <1>4, <1>5, <1>6, <1>7 DEF WithContext

\* A composition that begins without surrounding text is not fresh: the
\* document is always some text or none.
LEMMA BeginUnsurrounded ==
    ASSUME SpacerTypes, ~Surrounded, ~input.on, NEW mod, NEW n, Begin(mod, n)
    PROVE  Starts
<1>1. surrounding # doc
  BY NotBoundary DEF Surrounded, SpacerTypes
<1> QED BY <1>1 DEF Begin, Starts, BeganKnown

LEMMA ByHistoryKeeps ==
    ASSUME SpacerTypes, ByHistory
    PROVE  KeepsBoundary
<1>0. UNCHANGED client_state BY DEF ByHistory
<1>1. ASSUME NEW mod \in {"none", "shift", "ctrl"}, LetterByHistory(mod)
      PROVE  KeepsBoundary
  <2>0. ~Surrounded BY <1>1 DEF LetterByHistory
  <2>1. ASSUME Extend(mod), Quiet PROVE KeepsBoundary
    <3>1. CASE input.on
      BY <1>0, <2>1, <3>1, LeftContinues DEF Extend, KeepsBoundary
    <3>2. CASE ~input.on
      BY <2>0, <2>1, <3>2, BeginUnsurrounded DEF Extend, KeepsBoundary
    <3> QED BY <3>1, <3>2
  <2>2. CASE SpacesInput(mod) /\ Begin(mod, 1)
    BY <2>0, <2>2, BeginUnsurrounded DEF SpacesInput, KeepsBoundary
  <2>3. CASE SpacedByHistory(mod) /\ SendSpaced("history")
    BY <1>0, <2>3 DEF SpacedByHistory, SendSpaced, Continues, KeepsBoundary
  <2>4. CASE RimeLetter(mod)
    <3>1. CASE UNCHANGED input
      <4>1. input.on => Quiet BY <2>4 DEF RimeLetter
      <4> QED BY <1>0, <3>1, <4>1, LeftContinues DEF KeepsBoundary
    <3>2. CASE Extend(mod) /\ Quiet BY <2>1, <3>2
    <3> QED BY <2>4, <3>1, <3>2 DEF RimeLetter
  <2> QED BY <1>1, <2>1, <2>2, <2>3, <2>4 DEF LetterByHistory
<1>2. CASE EnterByHistory
  BY <1>0, <1>2, RimeEnterEnds DEF EnterByHistory, KeepsBoundary
<1>3. CASE SpaceByHistory
  BY <1>0, <1>3, RimeKeyEnds DEF SpaceByHistory, KeepsBoundary
<1>4. CASE DigitByHistory
  BY <1>0, <1>4, RimeKeyEnds DEF DigitByHistory, KeepsBoundary
<1>5. ASSUME NEW class, PunctByHistory(class)
      PROVE  KeepsBoundary
  <2>1. PICK record : RimePunct(class, record) BY <1>5 DEF PunctByHistory
  <2> QED BY <1>0, <2>1, RimePunctEnds DEF KeepsBoundary
<1>6. CASE DeleteByHistory
  <2>1. input' = NoInput \/ (UNCHANGED input /\ (input.on => Quiet))
    BY <1>6 DEF DeleteByHistory, RimeDelete
  <2> QED BY <1>0, <2>1, LeftContinues DEF KeepsBoundary
<1>7. CASE NavigateByHistory
  <2>1. UNCHANGED input /\ (input.on => Quiet)
    BY <1>7 DEF NavigateByHistory, RimeNavigate
  <2> QED BY <1>0, <2>1, LeftContinues DEF KeepsBoundary
<1> QED BY <1>1, <1>2, <1>3, <1>4, <1>5, <1>6, <1>7 DEF ByHistory

-----------------------------------------------------------------------------
(***************************************************************************)
(* The record and the spaces at the head                                   *)
(***************************************************************************)
\* A key either ends the composition, or leaves it and its document alone and
\* records at most what tells nothing, or begins one with the spaces that the
\* record calls for.
Remembers ==
    /\ UNCHANGED input
    /\ input.on => UNCHANGED doc /\ (UNCHANGED latest \/ latest'.text \notin Told)

Heads ==
    /\ ~input.on
    /\ BeganUnseen' =>
          UNCHANGED <<doc, latest>> /\ HeadSpaced(input', doc.before, latest)

KeepsRecord == input' = NoInput \/ Remembers \/ Heads

LEMMA NotTold ==
    /\ NoRecord.text \notin Told
    /\ \A class \in Punctuation : class \notin Told
BY DEF NoRecord, Told, Punctuation

LEMMA RimeRecords ==
    /\ \A class : RimeKey(class) => KeepsRecord
    /\ \A n, record : RimeEnter(n, record) => KeepsRecord
    /\ RimeDelete => KeepsRecord
    /\ \A record :
         RimeNavigate(record) /\ (record = latest \/ record.text \notin Told)
           => KeepsRecord
BY DEF RimeKey, RimeCommits, RimeEnter, RimeDelete, RimeNavigate, Quiet,
       Remembers, KeepsRecord

LEMMA RimePunctRecords ==
    ASSUME NEW class, NEW record, RimePunct(class, record),
           record = latest \/ record.text \notin Told
    PROVE  KeepsRecord
<1>1. \/ input' = NoInput
      \/ UNCHANGED input /\ (input.on => Quiet /\ latest' = record)
  BY DEF RimePunct, RimeCommits
<1> QED BY <1>1 DEF Quiet, Remembers, KeepsRecord

\* A composition that begins where the surrounding text is known is not of the
\* history path.
LEMMA BeginSeen ==
    ASSUME Surrounded, ~input.on, NEW mod, NEW n, Begin(mod, n)
    PROVE  Heads
BY DEF Begin, Heads, BeganUnseen

LEMMA RimeLetterRecords ==
    ASSUME NEW mod, RimeLetter(mod)
    PROVE  \/ KeepsRecord
           \/ ~input.on /\ ~ascii_mode /\ Begin(mod, 0) /\ Quiet /\ UNCHANGED latest
BY DEF RimeLetter, Extend, Quiet, Remembers, KeepsRecord

LEMMA WithContextRecords ==
    ASSUME WithContext
    PROVE  KeepsRecord
<1>1. ASSUME NEW mod, LetterWithContext(mod)
      PROVE  KeepsRecord
  <2>1. CASE SpacedByContext(mod) /\ SendSpaced("surrounding")
    BY <2>1 DEF SpacedByContext, SendSpaced, Remembers, KeepsRecord
  <2>2. CASE Quiet /\ UNCHANGED <<input, latest, client_state>>
    BY <2>2 DEF Quiet, Remembers, KeepsRecord
  <2>3. CASE RimeLetter(mod)
    BY <1>1, <2>3, RimeLetterRecords, BeginSeen DEF LetterWithContext, KeepsRecord
  <2> QED BY <1>1, <2>1, <2>2, <2>3 DEF LetterWithContext
<1>2. CASE EnterWithContext
  BY <1>2, RimeRecords DEF EnterWithContext, CommitDecorated, KeepsRecord
<1>3. CASE SpaceWithContext
  BY <1>3, RimeRecords DEF SpaceWithContext, CommitDecorated, KeepsRecord
<1>4. CASE DigitWithContext
  <2>1. CASE SpacedByContext("none") /\ SendSpaced("surrounding")
    BY <2>1 DEF SpacedByContext, SendSpaced, Remembers, KeepsRecord
  <2> QED BY <1>4, <2>1, RimeRecords DEF DigitWithContext, CommitDecorated, KeepsRecord
<1>5. ASSUME NEW class, PunctWithContext(class)
      PROVE  KeepsRecord
  BY <1>5, RimePunctRecords DEF PunctWithContext
<1>6. CASE DeleteWithContext \/ NavigateWithContext
  BY <1>6, RimeRecords DEF DeleteWithContext, NavigateWithContext
<1> QED BY <1>1, <1>2, <1>3, <1>4, <1>5, <1>6 DEF WithContext

LEMMA BeginHeaded ==
    ASSUME ~input.on, NEW mod, NEW n, Begin(mod, n), Quiet, UNCHANGED latest,
           mod = "none" /\ latest.text \in Told =>
             n = IF latest.text = "alnum" /\ ~latest.direct THEN 1 ELSE 0
    PROVE  Heads
<1>1. input'.spaces = n /\ (BeganUnseen' => mod = "none")
  BY DEF Begin, BeganUnseen
<1> QED BY <1>1 DEF Quiet, Heads, HeadSpaced

LEMMA ByHistoryRecords ==
    ASSUME ByHistory
    PROVE  KeepsRecord
<1>1. ASSUME NEW mod, LetterByHistory(mod)
      PROVE  KeepsRecord
  <2>1. CASE MayForceLetter /\ Extend(mod) /\ Quiet /\ UNCHANGED latest
    <3>1. CASE input.on
      BY <2>1, <3>1 DEF Extend, Quiet, Remembers, KeepsRecord
    <3>2. CASE ~input.on
      <4>1. latest.text \notin Told
        BY <2>1, <3>2 DEF MayForceLetter, ForcesLetter, Told
      <4> QED BY <2>1, <3>2, <4>1, BeginHeaded DEF Extend, KeepsRecord
    <3> QED BY <3>1, <3>2
  <2>2. CASE SpacesInput(mod) /\ Begin(mod, 1) /\ Quiet /\ UNCHANGED latest
    <3>1. ~input.on BY <2>2 DEF SpacesInput
    <3>2. latest.text \in Told => latest.text = "alnum" /\ ~latest.direct
      BY <2>2, NotTold DEF SpacesInput, EnglishRun
    <3> QED BY <2>2, <3>1, <3>2, BeginHeaded DEF KeepsRecord
  <2>3. CASE SpacedByHistory(mod) /\ SendSpaced("history")
    BY <2>3 DEF SpacedByHistory, SendSpaced, Remembers, KeepsRecord
  <2>4. CASE ~SpacesInput(mod) /\ RimeLetter(mod)
    <3>1. CASE KeepsRecord BY <3>1
    <3>2. CASE ~input.on /\ ~ascii_mode /\ Begin(mod, 0) /\ Quiet /\ UNCHANGED latest
      <4>1. mod = "none" /\ latest.text = "alnum" => latest.direct
        BY <2>4, <3>2 DEF SpacesInput, EnglishRun
      <4> QED BY <3>2, <4>1, BeginHeaded DEF KeepsRecord
    <3> QED BY <2>4, <3>1, <3>2, RimeLetterRecords
  <2> QED BY <1>1, <2>1, <2>2, <2>3, <2>4 DEF LetterByHistory
<1>2. CASE EnterByHistory \/ SpaceByHistory
  BY <1>2, RimeRecords DEF EnterByHistory, SpaceByHistory
<1>3. CASE DigitByHistory
  BY <1>3, RimeRecords DEF DigitByHistory, KeepsRecord
<1>4. ASSUME NEW class \in PunctKeys, PunctByHistory(class)
      PROVE  KeepsRecord
  <2>1. class \in Punctuation BY SpacerAssumption
  <2>2. PICK record \in {latest, [text |-> class, direct |-> TRUE]} :
          RimePunct(class, record)
    BY <1>4 DEF PunctByHistory
  <2>3. record = latest \/ record.text \notin Told BY <2>1, NotTold
  <2> QED BY <2>2, <2>3, RimePunctRecords
<1>5. CASE DeleteByHistory \/ NavigateByHistory
  BY <1>5, RimeRecords, NotTold DEF DeleteByHistory, NavigateByHistory
<1> QED BY <1>1, <1>2, <1>3, <1>4, <1>5 DEF ByHistory

-----------------------------------------------------------------------------
LEMMA SpacerInitially == SpacerInit => SpacerInv
<1> SUFFICES ASSUME SpacerInit PROVE SpacerInv
  OBVIOUS
<1>1. SpacerTypes BY NoneOK DEF SpacerInit, SpacerTypes
<1>2. ~input.on BY DEF SpacerInit, NoInput
<1> QED BY <1>1, <1>2 DEF SpacerInv, BoundaryKept, RecordKept, BeganKnown, BeganUnseen

LEMMA SpacerInductive == SpacerInv /\ [SpacerNext]_spacerVars => SpacerInv'
<1> SUFFICES ASSUME SpacerInv, [SpacerNext]_spacerVars PROVE SpacerInv'
  OBVIOUS
<1>0. SpacerTypes /\ BoundaryKept /\ RecordKept BY DEF SpacerInv
<1>a. UNCHANGED <<doc, input, latest>> => RecordKept'
  BY <1>0 DEF RecordKept, BeganUnseen
<1>1. CASE Process
  <2>1. KeyTypes /\ client_state' \in Boundaries
    BY <1>0, <1>1, WithContextOK, ByHistoryOK DEF Process, ByHistory, SpacerTypes
  <2>2. UNCHANGED <<surrounding, ascii_mode>> BY <1>1 DEF Process
  <2>3. KeepsBoundary BY <1>0, <1>1, WithContextKeeps, ByHistoryKeeps DEF Process
  <2>4. BoundaryKept'
    <3>1. CASE input' = NoInput BY <3>1 DEF BoundaryKept, BeganKnown, NoInput
    <3>2. CASE Continues
      BY <1>0, <2>2, <3>2 DEF BoundaryKept, BeganKnown, Continues, Surrounded
    <3>3. CASE Starts BY <2>2, <3>3 DEF BoundaryKept, Starts
    <3> QED BY <2>3, <3>1, <3>2, <3>3 DEF KeepsBoundary
  <2>5. KeepsRecord BY <1>1, WithContextRecords, ByHistoryRecords DEF Process
  <2>6. RecordKept'
    <3>1. CASE input' = NoInput BY <3>1 DEF RecordKept, BeganUnseen, NoInput
    <3>2. CASE Remembers
      BY <1>0, <3>2 DEF RecordKept, BeganUnseen, Remembers, HeadSpaced
    <3>3. CASE Heads BY <3>3 DEF RecordKept, Heads
    <3> QED BY <2>5, <3>1, <3>2, <3>3 DEF KeepsRecord
  <2> QED BY <1>0, <2>1, <2>2, <2>4, <2>6 DEF SpacerInv, SpacerTypes, KeyTypes
<1>2. CASE Report
  <2>1. surrounding' \in Boundaries /\ surrounding'.after = doc.after
    BY <1>0, <1>2 DEF Report, SpacerTypes, Boundaries, Classes, Punctuation
  <2> QED BY <1>0, <1>a, <1>2, <2>1, NoneOK
          DEF Report, SpacerInv, SpacerTypes, BoundaryKept, BeganKnown
<1>3. CASE Withdraw
  BY <1>0, <1>a, <1>3, NoneOK
     DEF Withdraw, SpacerInv, SpacerTypes, BoundaryKept, BeganKnown, Surrounded
<1>4. CASE MoveCaret
  <2>1. BoundaryKept' /\ RecordKept'
    BY <1>4 DEF MoveCaret, BoundaryKept, BeganKnown, RecordKept, BeganUnseen
  <2>2. doc' \in Boundaries /\ sent' \in SentTexts
    BY <1>4, MoveToOK DEF MoveCaret
  <2> QED BY <1>0, <1>4, <2>1, <2>2 DEF MoveCaret, SpacerInv, SpacerTypes
<1>5. CASE Escape
  BY <1>0, <1>5, NoneOK
     DEF Escape, Quiet, SpacerInv, SpacerTypes, BoundaryKept, BeganKnown, NoInput,
         RecordKept, BeganUnseen
<1>6. CASE UserToggle
  BY <1>0, <1>a, <1>6, NoneOK
     DEF UserToggle, Quiet, SpacerInv, SpacerTypes, BoundaryKept, BeganKnown,
         Surrounded
<1>7. CASE UNCHANGED spacerVars
  BY <1>0, <1>a, <1>7
     DEF spacerVars, SpacerInv, SpacerTypes, BoundaryKept, BeganKnown, Surrounded
<1> QED BY <1>1, <1>2, <1>3, <1>4, <1>5, <1>6, <1>7 DEF SpacerNext

LEMMA SpacerInvariant == SpacerSpec => []SpacerInv
BY SpacerInitially, SpacerInductive, PTL DEF SpacerSpec

\* The state is of its type: no key strips a space the input does not begin with.
THEOREM SpacerTypeCorrect == SpacerSpec => []SpacerTypeOK
<1>1. SpacerInv => SpacerTypeOK
  BY DEF SpacerInv, SpacerTypes, SpacerTypeOK, Inputs, Records, SentTexts
<1> QED BY <1>1, SpacerInvariant, PTL

-----------------------------------------------------------------------------
(***************************************************************************)
(* Junctions                                                               *)
(***************************************************************************)
\* What a decorated text gets of the boundary it is given, taken for what it is:
\* Chinese or English.
LEMMA DecoratedRight ==
    ASSUME NEW text \in Candidates, NEW ascii \in BOOLEAN,
           NEW before \in Classes, NEW after \in Classes,
           ascii <=> text = "alnum"
    PROVE  LET t == DecorateCommitText(text, before, after, ascii)
           IN  /\ t.text = text
               /\ Mixed(before, text) => t.lead = 1
               /\ Alike(before, text) \/ before \in {"space", "zhpunct"}
                    => t.lead = 0
               /\ t.trail <=> enable_right_space /\ Mixed(text, after)
<1> USE DEF DecorateCommitText, NeedSpaceBefore, NeedSpaceAfter, Mixed, Alike
<1>1. CASE text = "alnum"
  BY <1>1 DEF Classes, Punctuation
<1>2. CASE text = "cjk"
  BY <1>2 DEF Classes, Punctuation
<1>3. CASE text = "zhpunct"
  BY <1>3 DEF Classes, Punctuation
<1> QED BY <1>1, <1>2, <1>3 DEF Candidates

\* While a composition is on, only what AutoSpacer decorates is sent by the
\* surrounding text.
NotDecorated == sent'.by # "surrounding"

LEMMA ByRime ==
    ASSUME NEW text, NEW n, NEW by \in {"rime", "history"}, NEW direct,
           Send(Raw(text, n, by), direct)
    PROVE  NotDecorated
BY DEF Send, Raw, NotDecorated

LEMMA ByNobody == sent' = NoText => NotDecorated
BY DEF NoText, NotDecorated

LEMMA RimeNotDecorated ==
    /\ \A mod : RimeLetter(mod) => NotDecorated
    /\ \A class : RimeKey(class) => NotDecorated
    /\ \A class, record : RimePunct(class, record) => NotDecorated
    /\ \A n, record : RimeEnter(n, record) => NotDecorated
    /\ RimeDelete => NotDecorated
    /\ \A record : RimeNavigate(record) => NotDecorated
<1>1. ASSUME NEW mod, RimeLetter(mod) PROVE NotDecorated
  <2>1. sent' = NoText \/ sent' = Raw("alnum", 0, "rime")
    BY <1>1 DEF RimeLetter, Quiet
  <2>2. CASE sent' = Raw("alnum", 0, "rime") BY <2>2 DEF Raw, NotDecorated
  <2> QED BY <2>1, <2>2, ByNobody
<1>a. ASSUME NEW texts, RimeCommits(texts) PROVE NotDecorated
  BY <1>a DEF RimeCommits, Send, Raw, NotDecorated
<1>2. ASSUME NEW class, RimeKey(class) PROVE NotDecorated
  BY <1>a, <1>2, ByRime DEF RimeKey
<1>b. ASSUME NEW class, NEW record, RimePunct(class, record) PROVE NotDecorated
  BY <1>a, <1>b, ByNobody DEF RimePunct, Send, Raw, Quiet, NotDecorated
<1>3. ASSUME NEW n, NEW record, RimeEnter(n, record) PROVE NotDecorated
  BY <1>3, ByRime, ByNobody DEF RimeEnter
<1>4. RimeDelete => NotDecorated BY ByNobody DEF RimeDelete, Quiet, MoveTo
<1>5. ASSUME NEW record, RimeNavigate(record) PROVE NotDecorated
  BY <1>5, ByNobody DEF RimeNavigate, Quiet, MoveTo
<1> QED BY <1>1, <1>2, <1>b, <1>3, <1>4, <1>5

Decorates ==
    /\ Surrounded
    /\ \E text \in Candidates, ascii \in BOOLEAN :
         /\ CommitDecorated(text, ascii)
         /\ ascii => text = "alnum"

LEMMA DecoratesOrNot ==
    ASSUME input.on, SpacerNext
    PROVE  Decorates \/ NotDecorated
<1>1. CASE WithContext
  <2>1. "alnum" \in Candidates BY DEF Candidates
  <2>2. ASSUME NEW mod, LetterWithContext(mod)
        PROVE  NotDecorated
    BY <2>2, RimeNotDecorated, ByNobody
       DEF LetterWithContext, SpacedByContext, Quiet
  <2>3. CASE EnterWithContext
    BY <2>1, <2>3, RimeNotDecorated DEF EnterWithContext, Decorates
  <2>4. CASE SpaceWithContext
    BY <2>1, <2>4, RimeNotDecorated DEF SpaceWithContext, Decorates
  <2>5. CASE DigitWithContext
    <3>1. ASSUME NEW cand \in Candidates, CommitDecorated(cand, cand = "alnum"),
                 Surrounded
          PROVE  Decorates
      <4>1. PICK ascii \in BOOLEAN : ascii = (cand = "alnum") OBVIOUS
      <4>2. CommitDecorated(cand, ascii) BY <3>1, <4>1
      <4> QED BY <3>1, <4>1, <4>2 DEF Decorates
    <3> QED BY <2>5, <3>1, RimeNotDecorated
            DEF DigitWithContext, SpacedByContext
  <2>6. ASSUME NEW class, PunctWithContext(class) PROVE NotDecorated
    BY <2>6, RimeNotDecorated DEF PunctWithContext
  <2>7. DeleteWithContext \/ NavigateWithContext => NotDecorated
    BY RimeNotDecorated DEF DeleteWithContext, NavigateWithContext
  <2> QED BY <1>1, <2>2, <2>3, <2>4, <2>5, <2>6, <2>7 DEF WithContext
<1>2. CASE ByHistory
  <2>1. ASSUME NEW mod, LetterByHistory(mod)
        PROVE  NotDecorated
    BY <2>1, RimeNotDecorated, ByNobody
       DEF LetterByHistory, SpacedByHistory, Quiet
  <2>2. EnterByHistory \/ SpaceByHistory => NotDecorated
    BY RimeNotDecorated DEF EnterByHistory, SpaceByHistory
  <2>3. DigitByHistory => NotDecorated
    BY ByRime, RimeNotDecorated DEF DigitByHistory
  <2>4. ASSUME NEW class, PunctByHistory(class) PROVE NotDecorated
    BY <2>4, RimeNotDecorated DEF PunctByHistory
  <2>5. DeleteByHistory \/ NavigateByHistory => NotDecorated
    BY RimeNotDecorated DEF DeleteByHistory, NavigateByHistory
  <2> QED BY <1>2, <2>1, <2>2, <2>3, <2>4, <2>5 DEF ByHistory
<1>3. CASE Report \/ Withdraw \/ MoveCaret \/ Escape \/ UserToggle
  BY <1>3, ByNobody
     DEF Report, Withdraw, MoveCaret, Escape, UserToggle, Quiet, MoveTo
<1> QED BY <1>1, <1>2, <1>3 DEF SpacerNext, Process

JunctionSpaced(t) ==
    /\ Mixed(doc.before, t.text) => t.lead = 1
    /\ Alike(doc.before, t.text) \/ doc.before \in {"space", "zhpunct"}
         => t.lead = 0
    /\ t.trail <=> enable_right_space /\ Mixed(t.text, doc.after)

LEMMA CommitSpaced ==
    ASSUME SpacerInv, BeganKnown, Decorates, Recognised(sent')
    PROVE  JunctionSpaced(sent')
<1>1. PICK text \in Candidates, ascii \in BOOLEAN :
        CommitDecorated(text, ascii) /\ (ascii => text = "alnum")
  BY DEF Decorates
<1>2. /\ client_state = doc /\ surrounding.after = doc.after
      /\ doc.before \in Classes /\ doc.after \in Classes
  BY DEF SpacerInv, SpacerTypes, BoundaryKept, Decorates, Boundaries
<1>3. Boundary.before = doc.before /\ Boundary.after = doc.after
  BY <1>2 DEF Boundary
<1> DEFINE t == DecorateCommitText(text, doc.before, doc.after, ascii)
<1>4. sent' = t BY <1>1, <1>3 DEF CommitDecorated, Send
<1>5. text = "alnum" => ascii
  <2>1. t.text = text /\ t.english = ascii BY DEF DecorateCommitText
  <2> HIDE DEF t
  <2> QED BY <1>4, <2>1 DEF Recognised
<1>6. /\ t.text = text
      /\ Mixed(doc.before, text) => t.lead = 1
      /\ Alike(doc.before, text) \/ doc.before \in {"space", "zhpunct"}
           => t.lead = 0
      /\ t.trail <=> enable_right_space /\ Mixed(text, doc.after)
  BY <1>1, <1>2, <1>5, DecoratedRight
<1> HIDE DEF t
<1> QED BY <1>4, <1>6 DEF JunctionSpaced

\* Chinese and English are kept apart by a space, and nothing else is, where a
\* composition began with the text around it known, whatever the client reports
\* and whatever keys come until it is committed.
THEOREM JunctionsSpaced == SpacerSpec => JunctionsAreSpaced
<1>1. SpacerInv /\ [SpacerNext]_spacerVars
        => [BeganKnown /\ sent'.by = "surrounding" /\ Recognised(sent')
              => JunctionSpaced(sent')]_spacerVars
  BY DecoratesOrNot, CommitSpaced DEF BeganKnown, NotDecorated
<1> QED BY <1>1, SpacerInvariant, PTL
        DEF SpacerSpec, JunctionsAreSpaced, JunctionSpaced

-----------------------------------------------------------------------------
(***************************************************************************)
(* Junctions by the record                                                 *)
(***************************************************************************)
\* What goes out while a composition is on and no surrounding text is known is a
\* candidate behind the spaces at the head of the input, or the input itself,
\* with a space more where NeedAddSpace asks for one.
CandidateSent ==
    /\ sent'.lead = input.spaces
    /\ ~sent'.english

InputSent ==
    /\ sent'.text = "alnum"
    /\ sent'.lead \in {input.spaces + (IF NeedAddSpace THEN 1 ELSE 0), SpacesForEnter}

SentByHistory == sent'.by = "nobody" \/ CandidateSent \/ InputSent

LEMMA SentNothing == sent' = NoText => SentByHistory
BY DEF NoText, SentByHistory

LEMMA SentByRime ==
    ASSUME NEW texts, RimeCommits(texts)
    PROVE  SentByHistory
BY DEF RimeCommits, Send, Raw, CandidateSent, SentByHistory

LEMMA HistorySends ==
    ASSUME input.on, ~Surrounded, SpacerNext
    PROVE  SentByHistory
<1>1. CASE WithContext
  BY <1>1 DEF WithContext, LetterWithContext, EnterWithContext, SpaceWithContext,
              DigitWithContext, PunctWithContext, DeleteWithContext,
              NavigateWithContext
<1>2. CASE ByHistory
  <2>1. ASSUME NEW mod, LetterByHistory(mod)
        PROVE  SentByHistory
    BY <2>1, SentNothing
       DEF LetterByHistory, SpacesInput, SpacedByHistory, RimeLetter, Quiet
  <2>2. CASE EnterByHistory
    BY <2>2 DEF EnterByHistory, RimeEnter, Send, Raw, InputSent, SentByHistory
  <2>3. CASE SpaceByHistory
    BY <2>3, SentByRime DEF SpaceByHistory, RimeKey
  <2>4. CASE DigitByHistory
    <3> DEFINE n == input.spaces + (IF NeedAddSpace THEN 1 ELSE 0)
    <3>1. CASE Send(Raw("alnum", n, "history"), TRUE)
      BY <3>1 DEF Send, Raw, InputSent, SentByHistory
    <3> QED BY <2>4, <3>1, SentByRime DEF DigitByHistory, RimeKey
  <2>5. ASSUME NEW class, PunctByHistory(class) PROVE SentByHistory
    BY <2>5, SentNothing, SentByRime DEF PunctByHistory, RimePunct, Quiet
  <2>6. CASE DeleteByHistory \/ NavigateByHistory
    BY <2>6, SentNothing
       DEF DeleteByHistory, NavigateByHistory, RimeDelete, RimeNavigate, Quiet
  <2> QED BY <1>2, <2>1, <2>2, <2>3, <2>4, <2>5, <2>6 DEF ByHistory
<1>3. CASE Report \/ Withdraw \/ MoveCaret \/ Escape \/ UserToggle
  BY <1>3, SentNothing
     DEF Report, Withdraw, MoveCaret, Escape, UserToggle, Quiet
<1> QED BY <1>1, <1>2, <1>3 DEF SpacerNext, Process

RecordSpaced(t) ==
    LET straight == doc.before = "alnum" /\ latest.direct
    IN  /\ Mixed(doc.before, t.text) /\ ~straight => t.lead = 1
        /\ {doc.before, t.text} = {"cjk"} \/ doc.before = "space" \/ straight
             => t.lead = 0
        /\ t.lead <= 1

\* English input behind Chinese gets its space from NeedAddSpace, Chinese behind
\* English one from the head; the head has one already where NeedAddSpace would
\* add another.
LEMMA SentSpaced ==
    ASSUME SpacerInv, BeganUnseen, latest.text = doc.before, SentByHistory,
           sent'.by # "nobody", Recognised(sent')
    PROVE  RecordSpaced(sent')
<1>1. /\ input.on /\ input.spaces \in 0..1 /\ latest.direct \in BOOLEAN
      /\ HeadSpaced(input, doc.before, latest)
  BY DEF SpacerInv, SpacerTypes, RecordKept, BeganUnseen, Inputs, Records
<1>2. CASE CandidateSent
  <2>1. sent'.text # "alnum" BY <1>2 DEF CandidateSent, Recognised
  <2> QED BY <1>1, <1>2, <2>1
          DEF CandidateSent, RecordSpaced, HeadSpaced, Told, Mixed
<1>3. CASE InputSent
  BY <1>1, <1>3
     DEF InputSent, NeedAddSpace, SpacesForEnter, IsPunctString, EnglishRun,
         RecordSpaced, HeadSpaced, Told, Mixed
<1> QED BY <1>2, <1>3 DEF SentByHistory

\* Without surrounding text, Chinese and English are kept apart by a space, and
\* nothing else is, where the last record tells what stands before a composition
\* that began with a plain key, whatever keys come until it is committed.
THEOREM RecordedJunctionsSpaced == SpacerSpec => JunctionsByHistory
<1>1. SpacerInv /\ [SpacerNext]_spacerVars
        => [BeganUnseen /\ ~Surrounded /\ latest.text = doc.before
            /\ sent'.by # "nobody" /\ Recognised(sent')
              => RecordSpaced(sent')]_spacerVars
  BY HistorySends, SentSpaced DEF BeganUnseen
<1> QED BY <1>1, SpacerInvariant, PTL
        DEF SpacerSpec, JunctionsByHistory, RecordSpaced
=============================================================================
