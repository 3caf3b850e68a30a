----------------------------- MODULE AutoSpacer -----------------------------
(***************************************************************************)
(* AutoSpacer (src/src/auto_spacer.cc) between a client that reports the   *)
(* text around its caret, rime, and the document the text goes to.  Of a   *)
(* text only the class of the character at its boundary is kept.  A key is *)
(* one action: what AutoSpacer does with it and, when it returns kNoop,    *)
(* what rime and the client then do.                                       *)
(*                                                                         *)
(* rime, the client and the user are external.  One client: client_states_ *)
(* has an entry of its own for each.                                       *)
(***************************************************************************)
EXTENDS Naturals

CONSTANTS
    Lefts, Rights,      \* bound: the classes a caret may find around it
    PunctKeys,          \* bound: the punctuation that is typed
    enable_right_space

\* ASCII punctuation, by what the code asks of it: rpunct is , ] ) ! and rbrace
\* > } ?, lpunct is ( [ - / " ' and the like, lbrace { < : ; = and the like.
Punctuation == {"rpunct", "rbrace", "period", "lpunct", "lbrace", "backquote"}

\* alnum is ASCII, zhpunct Chinese punctuation, cjk any other text that is not
\* ASCII; padded is a text that ends in a space but is more than that, "none" is
\* no text.
Classes ==
    Punctuation \cup {"none", "space", "padded", "alnum", "cjk", "zhpunct"}

ASSUME SpacerAssumption ==
    /\ Lefts \cup Rights \subseteq Classes \ {"padded"}
    /\ PunctKeys \subseteq Punctuation
    /\ "none" \in Lefts \cap Rights
    /\ enable_right_space \in BOOLEAN

VARIABLES
    doc,            \* what stands around the caret: before, after
    surrounding,    \* what GetSurroundingText returns
    client_state,   \* the client's entry of client_states_
    input,          \* rime's input: composing or not, its leading spaces
    latest,         \* the last record of rime's commit history
    ascii_mode,
    sent            \* the text the last step sent to the document

spacerVars ==
    <<doc, surrounding, client_state, input, latest, ascii_mode, sent>>

NoBoundary == [before |-> "none", after |-> "none"]

NoSurrounding == [before |-> "absent", after |-> "absent"]

Surrounded == surrounding # NoSurrounding

\* plain, fresh and unseen are history: the composition began with a key without
\* a modifier, with the surrounding text known, without any.
NoInput ==
    [on |-> FALSE, spaces |-> 0, plain |-> FALSE, fresh |-> FALSE, unseen |-> FALSE]

\* direct: the record is of type raw or thru
NoRecord == [text |-> "none", direct |-> FALSE]

\* english: the text is taken for English.
NoText == [text |-> "none", lead |-> 0, trail |-> FALSE, english |-> FALSE, by |-> "nobody"]

SpacerInit ==
    /\ doc = NoBoundary /\ surrounding = NoSurrounding
    /\ client_state = NoBoundary
    /\ input = NoInput /\ latest = NoRecord
    /\ ascii_mode = FALSE
    /\ sent = NoText

(***************************************************************************)
(* Boundaries                                                              *)
(***************************************************************************)
NeedSpaceBefore(before, ascii) ==
    before \in {"rpunct", "rbrace"} \cup IF ascii THEN {"cjk"} ELSE {"alnum", "period"}

NeedSpaceAfter(after, ascii) == after = IF ascii THEN "cjk" ELSE "alnum"

\* The text is trimmed first, so it begins and ends with itself.
DecorateCommitText(text, before, after, ascii) ==
    LET bare == text = "zhpunct"
    IN  [ text    |-> text,
          lead    |-> IF ~bare /\ NeedSpaceBefore(before, ascii) THEN 1 ELSE 0,
          trail   |-> ~bare /\ enable_right_space /\ NeedSpaceAfter(after, ascii),
          english |-> ascii,
          by      |-> "surrounding" ]

Raw(text, spaces, by) ==
    [text |-> text, lead |-> spaces, trail |-> FALSE, english |-> TRUE, by |-> by]

(***************************************************************************)
(* What a key may do                                                       *)
(***************************************************************************)
\* CommitText, and the client that inserts the text
Send(t, direct) ==
    /\ sent' = t
    /\ doc' = [doc EXCEPT !.before = IF t.trail THEN "space" ELSE t.text]
    /\ latest' = [text |-> IF t.trail THEN "padded" ELSE t.text, direct |-> direct]

Quiet == sent' = NoText /\ UNCHANGED doc

Begin(mod, spaces) ==
    input' = [ on |-> TRUE, spaces |-> spaces, plain |-> mod = "none",
               fresh |-> surrounding = doc, unseen |-> ~Surrounded ]

Extend(mod) == IF input.on THEN UNCHANGED input ELSE Begin(mod, 0)

Candidates == {"cjk", "alnum", "zhpunct"}

(***************************************************************************)
(* What rime and the client do with a key AutoSpacer leaves to them        *)
(***************************************************************************)
\* In ascii mode a letter types itself; rime records it if it has no modifier.
RimeLetter(mod) ==
    IF mod = "ctrl" THEN Quiet /\ UNCHANGED <<input, latest>>
    ELSE IF ~ascii_mode \/ input.on
         THEN Extend(mod) /\ Quiet /\ UNCHANGED latest
         ELSE /\ sent' = Raw("alnum", 0, "rime")
              /\ doc' = [doc EXCEPT !.before = "alnum"]
              /\ latest' = IF mod = "none" THEN [text |-> "alnum", direct |-> TRUE]
                                           ELSE latest
              /\ UNCHANGED input

\* A candidate goes out behind the spaces the input begins with, maybe with the
\* punctuation of the key.
RimeCommits(texts) ==
    /\ \E text \in texts :
         Send([Raw(text, input.spaces, "rime") EXCEPT !.english = FALSE], FALSE)
    /\ input' = NoInput

\* Space or a digit
RimeKey(class) ==
    IF input.on THEN RimeCommits(Candidates)
    ELSE Send(Raw(class, 0, "rime"), TRUE) /\ UNCHANGED input

\* In Chinese a punctuation key types Chinese punctuation, by and large.  In ascii
\* mode rime does not record one typed with Shift.  A key may turn a page.
RimePunct(class, record) ==
    LET typed == IF ascii_mode THEN {class} ELSE {class, "zhpunct"}
    IN  \/ /\ ~input.on
           /\ \E text \in typed : Send(Raw(text, 0, "rime"), TRUE)
           /\ UNCHANGED input
        \/ /\ ~input.on /\ ascii_mode
           /\ sent' = Raw(class, 0, "rime") /\ doc' = [doc EXCEPT !.before = class]
           /\ latest' = record
           /\ UNCHANGED input
        \/ input.on /\ RimeCommits(Candidates \cup typed)
        \/ input.on /\ Quiet /\ latest' = record /\ UNCHANGED input

MoveTo == doc' \in [before : Lefts, after : Rights] /\ sent' = NoText

\* With nothing typed rime clears its history, but not for Enter of the keypad.
RimeEnter(spaces, record) ==
    IF input.on
    THEN Send(Raw("alnum", spaces, "rime"), TRUE) /\ input' = NoInput
    ELSE /\ doc' = [doc EXCEPT !.before = "none"] /\ sent' = NoText
         /\ latest' \in {NoRecord, record}
         /\ UNCHANGED input

\* A deletion empties the input or leaves some of it; without one it is the
\* document's, and rime clears its history.
RimeDelete ==
    IF input.on
    THEN Quiet /\ UNCHANGED latest /\ input' \in {NoInput, input}
    ELSE MoveTo /\ latest' = NoRecord /\ UNCHANGED input

RimeNavigate(record) ==
    /\ IF input.on THEN Quiet ELSE MoveTo
    /\ latest' = record
    /\ UNCHANGED input

-----------------------------------------------------------------------------
(***************************************************************************)
(* ProcessWithSurroundingContext                                           *)
(***************************************************************************)
\* Mutant: the boundary is the one the client reports when the text is committed.
BoundaryNow == surrounding

Boundary ==
    [ before |-> client_state.before,
      after  |-> IF client_state.after = "none" THEN surrounding.after
                                                ELSE client_state.after ]

\* What is cached when the key is left to rime: a key with a modifier returns
\* before it gets there.
LeftToRime(mod) ==
    client_state' = IF mod = "none" /\ ~ascii_mode /\ ~input.on
                    THEN surrounding ELSE client_state

CommitDecorated(text, ascii) ==
    /\ Send(DecorateCommitText(text, Boundary.before, Boundary.after, ascii), TRUE)
    /\ input' = NoInput
    /\ client_state' = NoBoundary

Composes == input.on /\ ~ascii_mode

\* In ascii mode a letter or a digit is sent with a space before it.
SpacedByContext(mod) ==
    mod = "none" /\ ascii_mode /\ ~input.on /\ NeedSpaceBefore(surrounding.before, TRUE)

SendSpaced(by) == Send(Raw("alnum", 1, by), TRUE) /\ UNCHANGED input

LetterWithContext(mod) ==
    /\ Surrounded
    /\ \/ SpacedByContext(mod) /\ SendSpaced("surrounding") /\ UNCHANGED client_state
       \/ Composes /\ mod = "none" /\ Quiet /\ UNCHANGED <<input, latest, client_state>>
       \/ /\ ~SpacedByContext(mod) /\ ~(Composes /\ mod = "none")
          /\ RimeLetter(mod) /\ LeftToRime(mod)

EnterWithContext ==
    /\ Surrounded
    /\ IF Composes THEN CommitDecorated("alnum", TRUE)
                   ELSE RimeEnter(input.spaces, latest) /\ LeftToRime("none")

\* A candidate is taken for Chinese; without one the input goes out.
SpaceWithContext ==
    /\ Surrounded
    /\ IF Composes
       THEN \/ \E cand \in Candidates : CommitDecorated(cand, FALSE)
            \/ CommitDecorated("alnum", TRUE)
       ELSE RimeKey("space") /\ LeftToRime("none")

\* A candidate, or the input with the digit
DigitWithContext ==
    /\ Surrounded
    /\ \/ Composes /\ \E cand \in Candidates : CommitDecorated(cand, cand = "alnum")
       \/ SpacedByContext("none") /\ SendSpaced("surrounding") /\ UNCHANGED client_state
       \/ /\ ~Composes /\ ~SpacedByContext("none")
          /\ RimeKey("alnum") /\ LeftToRime("none")

PunctWithContext(class) ==
    Surrounded /\ RimePunct(class, latest) /\ LeftToRime("none")

DeleteWithContext == Surrounded /\ RimeDelete /\ LeftToRime("none")

NavigateWithContext == Surrounded /\ RimeNavigate(latest) /\ LeftToRime("none")

-----------------------------------------------------------------------------
(***************************************************************************)
(* ProcessWithCommitHistory                                                *)
(***************************************************************************)
IsPunctString ==
    latest.text \in {"space", "rpunct", "period", "lpunct", "backquote"}

EnglishRun == latest.direct /\ latest.text = "alnum"

\* Mutant: a space the input begins with is not looked at.
NeedAddSpaceAlways ==
    /\ input.on /\ latest.text # "none"
    /\ ~IsPunctString /\ ~EnglishRun

NeedAddSpace ==
    /\ input.on /\ latest.text # "none"
    /\ input.spaces = 0 /\ ~IsPunctString /\ ~EnglishRun

\* Mutant: behind punctuation the first character is stripped, whatever it is; a
\* letter lost counts as a space less than none.
StripsForEnter ==
    IF latest.text \in {"none", "zhpunct"} THEN input.spaces
    ELSE IF NeedAddSpace THEN input.spaces + 1
    ELSE IF IsPunctString THEN input.spaces - 1
    ELSE input.spaces

\* The spaces at the head of the input once Enter has asked NeedAddSpace, which
\* may strip one
SpacesForEnter ==
    IF latest.text \in {"none", "zhpunct"} THEN input.spaces
    ELSE IF NeedAddSpace THEN input.spaces + 1
    ELSE IF input.spaces > 0 /\ IsPunctString THEN input.spaces - 1
    ELSE input.spaces

\* The letter is put into the input here: one that begins with a space, or one
\* behind a full stop, of which a Chinese one is Chinese punctuation.  Modifiers
\* are not looked at.
ForcesLetter ==
    \/ input.on /\ input.spaces > 0
    \/ ~ascii_mode /\ latest.text = "period"

MayForceLetter == ForcesLetter \/ (~ascii_mode /\ latest.text = "zhpunct")

\* Chinese behind English, or behind any ASCII punctuation but the backquote
SpacesInput(mod) ==
    /\ mod = "none" /\ ~input.on /\ ~ascii_mode
    /\ latest.text \in {"alnum"} \cup (Punctuation \ {"backquote"}) /\ ~EnglishRun

\* English behind Chinese
SpacedByHistory(mod) ==
    mod = "none" /\ ~input.on /\ ascii_mode /\ latest.text = "cjk"

LetterByHistory(mod) ==
    /\ ~Surrounded
    /\ \/ MayForceLetter /\ Extend(mod) /\ Quiet /\ UNCHANGED latest
       \/ /\ ~ForcesLetter /\ SpacesInput(mod)
          /\ Begin(mod, 1) /\ Quiet /\ UNCHANGED latest
       \/ ~ForcesLetter /\ SpacedByHistory(mod) /\ SendSpaced("history")
       \/ ~ForcesLetter /\ ~SpacesInput(mod) /\ ~SpacedByHistory(mod) /\ RimeLetter(mod)

\* Enter of the keypad is recorded as a byte that is not ASCII.
EnterRecord ==
    IF latest.text \in {"none", "zhpunct"} THEN latest
    ELSE [text |-> "cjk", direct |-> TRUE]

EnterByHistory == ~Surrounded /\ RimeEnter(SpacesForEnter, EnterRecord)

SpaceByHistory == ~Surrounded /\ RimeKey("space")

\* HandleNumberKey: a number without a candidate goes out with the input, as it
\* was before NeedAddSpace stripped it.
DigitByHistory ==
    /\ ~Surrounded
    /\ \/ /\ input.on
          /\ Send(Raw("alnum", input.spaces + (IF NeedAddSpace THEN 1 ELSE 0), "history"),
                  TRUE)
          /\ input' = NoInput
       \/ RimeKey("alnum")

\* The key is recorded before rime has it if it is one of { [ ( < ` } ] ) > ' ! ? :
\* which are some of every class but the period.
IsModifierPunctKey(class) ==
    CASE class = "period"                  -> {FALSE}
      [] class \in {"rbrace", "backquote"} -> {TRUE}
      [] OTHER                             -> BOOLEAN

PunctByHistory(class) ==
    /\ ~Surrounded
    /\ \E recorded \in IsModifierPunctKey(class) :
         RimePunct(class, IF recorded /\ latest.text \notin {"none", "zhpunct"}
                          THEN [text |-> class, direct |-> TRUE] ELSE latest)

DeleteByHistory == ~Surrounded /\ RimeDelete

\* Only a menu keeps the history from being cleared.
NavigateByHistory ==
    /\ ~Surrounded
    /\ \/ RimeNavigate(NoRecord)
       \/ input.on /\ RimeNavigate(latest)

-----------------------------------------------------------------------------
(***************************************************************************)
(* Process                                                                 *)
(***************************************************************************)
WithContext ==
    \/ \E mod \in {"none", "shift", "ctrl"} : LetterWithContext(mod)
    \/ EnterWithContext
    \/ SpaceWithContext
    \/ DigitWithContext
    \/ \E class \in PunctKeys : PunctWithContext(class)
    \/ DeleteWithContext
    \/ NavigateWithContext

ByHistory ==
    /\ \/ \E mod \in {"none", "shift", "ctrl"} : LetterByHistory(mod)
       \/ EnterByHistory
       \/ SpaceByHistory
       \/ DigitByHistory
       \/ \E class \in PunctKeys : PunctByHistory(class)
       \/ DeleteByHistory
       \/ NavigateByHistory
    /\ UNCHANGED client_state

Process == (WithContext \/ ByHistory) /\ UNCHANGED <<surrounding, ascii_mode>>

-----------------------------------------------------------------------------
(***************************************************************************)
(* The client and the user                                                 *)
(***************************************************************************)
\* While composing, a client may report the caret behind the marked text.
Report ==
    /\ surrounding' \in
         {doc} \cup (IF input.on THEN {[doc EXCEPT !.before = "alnum"]} ELSE {})
    /\ sent' = NoText
    /\ UNCHANGED <<doc, client_state, input, latest, ascii_mode>>

Withdraw ==
    /\ surrounding' = NoSurrounding
    /\ sent' = NoText
    /\ UNCHANGED <<doc, client_state, input, latest, ascii_mode>>

MoveCaret ==
    /\ ~input.on /\ MoveTo
    /\ UNCHANGED <<surrounding, client_state, input, latest, ascii_mode>>

Escape ==
    /\ input' = NoInput /\ Quiet
    /\ UNCHANGED <<surrounding, client_state, latest, ascii_mode>>

UserToggle ==
    /\ ascii_mode' = ~ascii_mode /\ Quiet
    /\ UNCHANGED <<surrounding, client_state, input, latest>>

SpacerNext == Process \/ Report \/ Withdraw \/ MoveCaret \/ Escape \/ UserToggle

SpacerSpec == SpacerInit /\ [][SpacerNext]_spacerVars

-----------------------------------------------------------------------------
Boundaries == [before : Classes, after : Classes]

SpacerTypeOK ==
    /\ doc \in Boundaries
    /\ surrounding \in Boundaries \cup {NoSurrounding}
    /\ client_state \in Boundaries
    /\ input \in [ on : BOOLEAN, spaces : 0..1, plain : BOOLEAN, fresh : BOOLEAN,
                   unseen : BOOLEAN ]
    /\ latest \in [text : Classes, direct : BOOLEAN]
    /\ ascii_mode \in BOOLEAN
    /\ sent \in [ text : Classes, lead : Nat, trail : BOOLEAN, english : BOOLEAN,
                  by : {"nobody", "rime", "surrounding", "history"} ]

Mixed(left, right) == {left, right} = {"cjk", "alnum"}

Alike(left, right) == left = right /\ left \in {"cjk", "alnum"}

\* An English candidate is taken for Chinese when Space chooses it
\* (auto_spacer.cc:443), and when rime does.
Recognised(t) == t.text = "alnum" => t.english

BeganKnown == input.on /\ input.plain /\ input.fresh

BeganUnseen == input.on /\ input.plain /\ input.unseen

\* A composition that began with a plain key while the text around it was known
\* is committed with a space exactly where Chinese meets English in the
\* document, whatever the client reports and whatever keys come meanwhile; the
\* one on the right if it is enabled.
JunctionsAreSpaced ==
    [][ BeganKnown /\ sent'.by = "surrounding" /\ Recognised(sent') =>
          /\ Mixed(doc.before, sent'.text) => sent'.lead = 1
          /\ Alike(doc.before, sent'.text) \/ doc.before \in {"space", "zhpunct"}
               => sent'.lead = 0
          /\ sent'.trail <=> enable_right_space /\ Mixed(sent'.text, doc.after) ]_spacerVars

\* A composition that began with a plain key and without surrounding text: what
\* is committed without any too, while the last record is what stands before the
\* caret, has a space where Chinese meets English, and none behind Chinese of its
\* kind, behind a space or behind English that went straight out; and nowhere two
\* (auto_spacer.cc:147, :575).
JunctionsByHistory ==
    [][ LET text     == sent'.text
            straight == doc.before = "alnum" /\ latest.direct
        IN  BeganUnseen /\ ~Surrounded /\ latest.text = doc.before
            /\ sent'.by # "nobody" /\ Recognised(sent') =>
              /\ Mixed(doc.before, text) /\ ~straight => sent'.lead = 1
              /\ {doc.before, text} = {"cjk"} \/ doc.before = "space" \/ straight
                   => sent'.lead = 0
              /\ sent'.lead <= 1 ]_spacerVars

\* auto_spacer.h:36: "Stores boundary when composition starts, used at commit
\* time."  Where the surrounding text is known when a composition starts, the
\* boundary kept is that one while the composition lasts.
BoundaryOfItsStart == input.on /\ input.fresh => client_state = doc
=============================================================================
