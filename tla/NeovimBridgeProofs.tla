------------------------- MODULE NeovimBridgeProofs -------------------------
(***************************************************************************)
(* Theorems of NeovimBridge, for any limit of queued and unread messages:  *)
(* in which modes rime is in ascii mode, and what becomes of the user's    *)
(* mode and of the text.                                                   *)
(*                                                                         *)
(* What Neovim has sent and the bridge has not applied is one sequence:    *)
(* the actions queued, then the messages on the wire, then those pending   *)
(* in Neovim.  The mode says how deeply Neovim nests its sets (Nesting),   *)
(* and the depth that this sequence leads to is as great (Least, Most).    *)
(* Callbacks change the mode and the end of the sequence, the bridge moves *)
(* its front into the depth; neither changes where it leads.               *)
(***************************************************************************)
EXTENDS NeovimBridge, ImeBridgeProofs

-----------------------------------------------------------------------------
(***************************************************************************)
(* The depths of longer queues                                             *)
(***************************************************************************)
LEMMA DepthOfNothing ==
    ASSUME NEW c, NEW d PROVE DepthAfterAll(c, d, <<>>) = d
<1> DEFINE s == <<>>
<1>1. Len(s) \in Nat OBVIOUS
<1>2. Len(s) = 0 OBVIOUS
<1> HIDE DEF s
<1>3. \E f : /\ DepthAfterAll(c, d, s) = f[Len(s)] /\ f[0] = d
             /\ \A i \in 1 .. Len(s) : f[i] = DepthAfter(c, f[i - 1], s[i])
  BY ONLY <1>1, DepthsExist
<1>4. DepthAfterAll(c, d, s) = d BY <1>2, <1>3
<1> QED BY <1>4 DEF s

\* What is queued behind counts from the depth before it.
LEMMA DepthOfBoth ==
    ASSUME NEW S, NEW s \in Seq(S), NEW t \in Seq(S), NEW c, NEW d
    PROVE  DepthAfterAll(c, d, s \o t)
           = DepthAfterAll(c, DepthAfterAll(c, d, s), t)
<1> DEFINE e == DepthAfterAll(c, d, s)
           T == {u \in Seq(S) :
                   DepthAfterAll(c, d, s \o u) = DepthAfterAll(c, e, u)}
<1>1. <<>> \in T
  <2>1. <<>> \in Seq(S) /\ s \o <<>> = s BY EmptySeq, ConcatEmptySeq
  <2>2. DepthAfterAll(c, d, s \o <<>>) = DepthAfterAll(c, e, <<>>)
    BY <2>1, DepthOfNothing, Zenon
  <2> QED BY <2>1, <2>2, Zenon
<1>2. ASSUME NEW u \in Seq(S), NEW a \in S, u \in T PROVE Append(u, a) \in T
  <2> HIDE DEF e
  <2>1. Append(u, a) \in Seq(S) /\ s \o u \in Seq(S)
    BY AppendProperties, ConcatProperties
  <2>2. s \o Append(u, a) = Append(s \o u, a) BY ConcatThenAppend
  <2>3. DepthAfterAll(c, d, Append(s \o u, a))
          = DepthAfter(c, DepthAfterAll(c, d, s \o u), a)
    BY <2>1, DepthOfPushed
  <2>4. DepthAfterAll(c, e, Append(u, a))
          = DepthAfter(c, DepthAfterAll(c, e, u), a)
    BY DepthOfPushed
  <2>5. DepthAfterAll(c, d, s \o u) = DepthAfterAll(c, e, u) BY <1>2
  <2>6. DepthAfterAll(c, d, s \o Append(u, a))
          = DepthAfterAll(c, e, Append(u, a))
    BY <2>2, <2>3, <2>4, <2>5
  <2> QED BY <2>1, <2>6
<1>3. t \in T
  <2> HIDE DEF T
  <2> QED BY <1>1, <1>2, EverySequence
<1> QED BY <1>3

\* From a greater depth it never comes to a smaller one.
LEMMA DepthMonotone ==
    ASSUME NEW s \in Seq(PendingAction), NEW c, NEW d \in Nat, NEW e \in Nat,
           d <= e
    PROVE  DepthAfterAll(c, d, s) <= DepthAfterAll(c, e, s)
<1> DEFINE T == {u \in Seq(PendingAction) :
                   DepthAfterAll(c, d, u) <= DepthAfterAll(c, e, u)}
<1>1. <<>> \in T
  <2>1. <<>> \in Seq(PendingAction) BY EmptySeq
  <2>2. DepthAfterAll(c, d, <<>>) <= DepthAfterAll(c, e, <<>>)
    BY DepthOfNothing
  <2> QED BY <2>1, <2>2, Zenon
<1>2. ASSUME NEW u \in Seq(PendingAction), NEW a \in PendingAction, u \in T
      PROVE  Append(u, a) \in T
  <2> DEFINE m == DepthAfterAll(c, d, u)
             n == DepthAfterAll(c, e, u)
  <2>1. Append(u, a) \in Seq(PendingAction) BY AppendProperties
  <2>2. /\ DepthAfterAll(c, d, Append(u, a)) = DepthAfter(c, m, a)
        /\ DepthAfterAll(c, e, Append(u, a)) = DepthAfter(c, n, a)
    BY DepthOfPushed
  <2>3. m \in Nat /\ n \in Nat /\ m <= n BY <1>2, DepthAfterAllNat
  <2> HIDE DEF m, n
  <2>4. a.type \in ActionTypes BY DEF PendingAction
  <2>5. DepthAfter(c, m, a) <= DepthAfter(c, n, a)
    BY <2>3, <2>4 DEF DepthAfter, ActionTypes
  <2> QED BY <2>1, <2>2, <2>5
<1>3. s \in T
  <2> HIDE DEF T
  <2> QED BY <1>1, <1>2, EverySequence
<1> QED BY <1>3

\* Without a set that nests there is no depth.
Unnested == {a \in PendingAction : ~(a.type = "kSet" /\ a.stack)}

LEMMA NoDepth ==
    ASSUME NEW s \in Seq(Unnested), NEW c
    PROVE  DepthAfterAll(c, 0, s) = 0
<1> DEFINE T == {u \in Seq(Unnested) : DepthAfterAll(c, 0, u) = 0}
<1>1. <<>> \in T
  <2>1. <<>> \in Seq(Unnested) BY EmptySeq
  <2>2. DepthAfterAll(c, 0, <<>>) = 0 BY DepthOfNothing
  <2> QED BY <2>1, <2>2, Zenon
<1>2. ASSUME NEW u \in Seq(Unnested), NEW a \in Unnested, u \in T
      PROVE  Append(u, a) \in T
  <2>1. Append(u, a) \in Seq(Unnested) BY AppendProperties
  <2>2. DepthAfterAll(c, 0, Append(u, a)) = DepthAfter(c, 0, a)
    BY <1>2, DepthOfPushed
  <2>3. DepthAfter(c, 0, a) = 0
    BY DEF Unnested, PendingAction, ActionTypes, DepthAfter
  <2> QED BY <2>1, <2>2, <2>3
<1>3. s \in T
  <2> HIDE DEF T
  <2> QED BY <1>1, <1>2, EverySequence
<1> QED BY <1>3

-----------------------------------------------------------------------------
(***************************************************************************)
(* Neovim's modes and the depth ahead                                      *)
(***************************************************************************)
\* What a message asks of the depth of Neovim; most ask nothing.
AskOf(m) ==
    CASE m = "set"        -> PlainAction("kSet", Nvim)
      [] m = "restore"    -> PlainAction("kRestore", Nvim)
      [] m = "reset"      -> PlainAction("kReset", Nvim)
      [] m = "unregister" -> PlainAction("kUnregister", Nvim)
      [] OTHER            -> [PlainAction("kSet", Nvim) EXCEPT !.stack = FALSE]

Asked(msgs) == [i \in DOMAIN msgs |-> AskOf(msgs[i])]

\* What the bridge has not read, in the order it will.
Coming == wire \o pending_messages

Added(d, msgs) == DepthAfterAll(Nvim, d, Asked(msgs))

DepthAhead(d) == Added(DepthAfterAll(Nvim, d, Todo), Coming)

\* The depth that is sure to stand for ascii mode.
Sure == IF ascii_mode[Session] THEN DepthNow(Nvim) ELSE 0

Least == DepthAhead(Sure)

Most == DepthAhead(DepthNow(Nvim))

\* How deeply the modes nest sets: one is for normal mode, unless its timer has
\* not sent it, and one for what is entered from there.
AtNormal == IF startup_timer \/ leave_timer \/ leave_due THEN 0 ELSE 1

FromInsert == mode = "c" /\ return_mode = "i"

Nesting ==
    CASE mode = "i"  -> 0
      [] FromInsert  -> 1
      [] mode = "n"  -> AtNormal
      [] OTHER       -> AtNormal + 1

NvimTypeOK ==
    /\ mode \in Modes /\ return_mode \in {"n", "i"}
    /\ wire \in Seq(Messages) /\ pending_messages \in Seq(Messages)
    /\ leave_timer \in BOOLEAN /\ leave_due \in BOOLEAN
    /\ startup_timer \in BOOLEAN /\ disturbed \in BOOLEAN
    /\ untimely \in BOOLEAN

\* No other editor and no other session.
Alone ==
    /\ active_client \in {NoClient, Nvim}
    /\ current \in {NoSession, Session}

OffAt(j) == IF j = 0 THEN active_client = NoClient ELSE Coming[j] = "deactivate"

SwitchedOff ==
    \E j \in 0 .. Len(Coming) :
        OffAt(j) /\ \A i \in j + 1 .. Len(Coming) : Coming[i] # "activate"

OffOutsideInsert ==
    ~disturbed /\ mode # "i" /\ ~leave_timer /\ ~leave_due => SwitchedOff

Live == ~disturbed /\ mode # "gone"

OnlyAscii ==
    {a \in PendingAction :
        a.client = Nvim /\ a.ascii /\ a.type \in {"kSet", "kRestore"}}

OnlyModes == Messages \ {"reset", "unregister"}

\* The user's mode is there, or is the base to go back to.
Home ==
    IF DepthNow(Nvim) = 0 THEN ascii_mode[Session] = chosen
                          ELSE client_states[Nvim].base = chosen

TimelyTimers ==
    startup_timer =>
        ~leave_timer /\ ~leave_due /\ mode # "i" /\ ~FromInsert

ModesOK ==
    Live => /\ Todo \in Seq(OnlyAscii) /\ Coming \in Seq(OnlyModes)
            /\ Nesting <= Least
            /\ ~untimely => Most <= Nesting /\ Home /\ TimelyTimers

NInv == IInv /\ NvimTypeOK /\ Alone /\ OffOutsideInsert /\ ModesOK

-----------------------------------------------------------------------------
LEMMA AskOfOK ==
    ASSUME NEW m \in Messages
    PROVE  /\ AskOf(m) \in PendingAction
           /\ m \in OnlyModes => AskOf(m) \in OnlyAscii
<1>1. Nvim \in Clients BY NvimAssumption
<1>2. \A type \in ActionTypes :
        /\ PlainAction(type, Nvim) \in PendingAction
        /\ [PlainAction(type, Nvim) EXCEPT !.stack = FALSE] \in PendingAction
  BY <1>1 DEF PlainAction, PendingAction
<1>3. \A type \in {"kSet", "kRestore"} :
        /\ PlainAction(type, Nvim) \in OnlyAscii
        /\ [PlainAction(type, Nvim) EXCEPT !.stack = FALSE] \in OnlyAscii
  BY <1>2 DEF PlainAction, OnlyAscii, ActionTypes
<1> QED
  BY <1>2, <1>3 DEF AskOf, ActionTypes, Messages, OnlyModes

Effect(d, m) == DepthAfter(Nvim, d, AskOf(m))

LEMMA EffectOf ==
    ASSUME NEW m \in OnlyModes, NEW d \in Nat
    PROVE  /\ m = "set" => Effect(d, m) = d + 1
           /\ m = "restore" => Effect(d, m) = IF d = 0 THEN 0 ELSE d - 1
           /\ m \notin {"set", "restore"} => Effect(d, m) = d
BY DEF Effect, DepthAfter, AskOf, PlainAction, OnlyModes, Messages

LEMMA AskedType ==
    ASSUME NEW msgs \in Seq(Messages)
    PROVE  /\ Asked(msgs) \in Seq(PendingAction)
           /\ Len(Asked(msgs)) = Len(msgs)
           /\ \A i \in 1 .. Len(msgs) : Asked(msgs)[i] = AskOf(msgs[i])
<1> DEFINE n == Len(msgs)
           f == [i \in 1 .. n |-> AskOf(msgs[i])]
<1>1. n \in Nat /\ DOMAIN msgs = 1 .. n BY LenProperties
<1>2. \A i \in 1 .. n : msgs[i] \in Messages BY ElementOfSeq
<1>3. Asked(msgs) = f BY <1>1 DEF Asked
<1> HIDE DEF n
<1>4. f \in [1 .. n -> PendingAction] BY <1>2, AskOfOK
<1>5. f \in Seq(PendingAction) /\ Len(f) = n BY <1>1, <1>4, SeqDef, LenProperties
<1>6. \A i \in 1 .. n : f[i] = AskOf(msgs[i]) OBVIOUS
<1> HIDE DEF f
<1> QED BY <1>3, <1>5, <1>6 DEF n

LEMMA AskedConcat ==
    ASSUME NEW s \in Seq(Messages), NEW t \in Seq(Messages)
    PROVE  Asked(s \o t) = Asked(s) \o Asked(t)
<1> DEFINE x == Asked(s \o t)
           y == Asked(s) \o Asked(t)
           m == Len(s)
           n == Len(t)
<1>1. /\ s \o t \in Seq(Messages) /\ Len(s \o t) = m + n
      /\ \A i \in 1 .. m + n :
            (s \o t)[i] = IF i <= m THEN s[i] ELSE t[i - m]
  BY ConcatProperties
<1>2. m \in Nat /\ n \in Nat BY LenProperties
<1>3. /\ Asked(s) \in Seq(PendingAction) /\ Len(Asked(s)) = m
      /\ \A i \in 1 .. m : Asked(s)[i] = AskOf(s[i])
  BY AskedType
<1>4. /\ Asked(t) \in Seq(PendingAction) /\ Len(Asked(t)) = n
      /\ \A i \in 1 .. n : Asked(t)[i] = AskOf(t[i])
  BY AskedType
<1>5. /\ x \in Seq(PendingAction) /\ Len(x) = m + n
      /\ \A i \in 1 .. m + n : x[i] = AskOf((s \o t)[i])
  BY <1>1, AskedType
<1>6. /\ y \in Seq(PendingAction) /\ Len(y) = m + n
      /\ \A i \in 1 .. m + n :
            y[i] = IF i <= m THEN Asked(s)[i] ELSE Asked(t)[i - m]
  <2> HIDE DEF m, n
  <2> QED BY <1>3, <1>4, ConcatProperties
<1> HIDE DEF x, y, m, n
<1>7. ASSUME NEW i \in 1 .. m + n PROVE x[i] = y[i]
  <2>1. CASE i <= m
    <3>1. i \in 1 .. m BY <1>2, <2>1
    <3>2. (s \o t)[i] = s[i] /\ y[i] = Asked(s)[i] BY <1>1, <1>6, <2>1
    <3> QED BY <1>3, <1>5, <3>1, <3>2
  <2>2. CASE ~(i <= m)
    <3>1. i - m \in 1 .. n BY <1>2, <2>2
    <3>2. (s \o t)[i] = t[i - m] /\ y[i] = Asked(t)[i - m] BY <1>1, <1>6, <2>2
    <3> QED BY <1>4, <1>5, <3>1, <3>2
  <2> QED BY <2>1, <2>2
<1>8. x = y BY <1>5, <1>6, <1>7, SeqEqual
<1> QED BY <1>8 DEF x, y

\* Messages sent later count later.
LEMMA AddedConcat ==
    ASSUME NEW s \in Seq(Messages), NEW t \in Seq(Messages), NEW d
    PROVE  Added(d, s \o t) = Added(Added(d, s), t)
<1>1. PICK x, y : x = Asked(s) /\ y = Asked(t) OBVIOUS
<1>2. x \in Seq(PendingAction) /\ y \in Seq(PendingAction) BY <1>1, AskedType
<1>3. DepthAfterAll(Nvim, d, x \o y)
        = DepthAfterAll(Nvim, DepthAfterAll(Nvim, d, x), y)
  BY <1>2, DepthOfBoth
<1>4. Asked(s \o t) = x \o y BY <1>1, AskedConcat
<1> QED BY <1>1, <1>3, <1>4 DEF Added

LEMMA AddedFirst ==
    ASSUME NEW s \in Seq(Messages), s # <<>>, NEW d
    PROVE  Added(d, s) = Added(Effect(d, Head(s)), Tail(s))
<1> DEFINE a == Asked(s)
           n == Len(s)
<1>1. /\ n \in Nat /\ n # 0 /\ Tail(s) \in Seq(Messages) /\ Len(Tail(s)) = n - 1
      /\ Head(s) = s[1] /\ \A i \in 1 .. n - 1 : Tail(s)[i] = s[i + 1]
  BY HeadTailProperties, LenProperties, EmptySeq
<1>2. /\ a \in Seq(PendingAction) /\ Len(a) = n
      /\ \A i \in 1 .. n : a[i] = AskOf(s[i])
  BY AskedType, SMTT(60)
<1>3. /\ Asked(Tail(s)) \in Seq(PendingAction) /\ Len(Asked(Tail(s))) = n - 1
      /\ \A i \in 1 .. n - 1 : Asked(Tail(s))[i] = AskOf(Tail(s)[i])
  BY <1>1, AskedType
<1> HIDE DEF a, n
<1>4. a # <<>> BY <1>1, <1>2, EmptySeq
<1>5. /\ Head(a) = a[1] /\ Tail(a) \in Seq(PendingAction) /\ Len(Tail(a)) = n - 1
      /\ \A i \in 1 .. n - 1 : Tail(a)[i] = a[i + 1]
  BY <1>2, <1>4, HeadTailProperties
<1>6. Head(a) = AskOf(Head(s)) BY <1>1, <1>2, <1>5
<1>7. Tail(a) = Asked(Tail(s))
  <2>1. ASSUME NEW i \in 1 .. n - 1 PROVE Tail(a)[i] = Asked(Tail(s))[i]
    <3>1. i + 1 \in 1 .. n BY <1>1
    <3> QED BY <1>1, <1>2, <1>3, <1>5, <3>1
  <2> QED BY <1>3, <1>5, <2>1, SeqEqual
<1>8. DepthAfterAll(Nvim, d, a)
        = DepthAfterAll(Nvim, DepthAfter(Nvim, d, Head(a)), Tail(a))
  BY <1>2, <1>4, DepthOfServed
<1> QED BY <1>6, <1>7, <1>8 DEF Added, Effect, a

LEMMA AddedNothing == \A d : Added(d, <<>>) = d
<1>1. Asked(<<>>) = <<>> BY DEF Asked
<1> QED BY <1>1, DepthOfNothing DEF Added

LEMMA AddedNat ==
    ASSUME NEW s \in Seq(Messages), NEW d \in Nat
    PROVE  Added(d, s) \in Nat
BY AskedType, DepthAfterAllNat DEF Added

LEMMA AddedMonotone ==
    ASSUME NEW s \in Seq(Messages), NEW d \in Nat, NEW e \in Nat, d <= e
    PROVE  Added(d, s) <= Added(e, s)
BY AskedType, DepthMonotone DEF Added

\* What the sends of the callbacks add.
LEMMA AddedOne ==
    ASSUME NEW x \in Messages, NEW d
    PROVE  <<x>> \in Seq(Messages) /\ Added(d, <<x>>) = Effect(d, x)
<1> DEFINE s == <<x>>
<1>1. /\ s \in Seq(Messages) /\ s # <<>> /\ Head(s) = x /\ Tail(s) = <<>>
  OBVIOUS
<1> HIDE DEF s
<1>2. Added(d, s) = Added(Effect(d, x), <<>>) BY <1>1, AddedFirst
<1>3. Added(d, s) = Effect(d, x) BY <1>2, AddedNothing
<1> QED BY <1>1, <1>3 DEF s

LEMMA AddedTwo ==
    ASSUME NEW x \in Messages, NEW y \in Messages, NEW d
    PROVE  /\ <<x, y>> \in Seq(Messages)
           /\ Added(d, <<x, y>>) = Effect(Effect(d, x), y)
<1> DEFINE s == <<x, y>>
<1>1. /\ s \in Seq(Messages) /\ s # <<>> /\ Head(s) = x /\ Tail(s) = <<y>>
  OBVIOUS
<1> HIDE DEF s
<1>2. Added(d, s) = Added(Effect(d, x), <<y>>) BY <1>1, AddedFirst
<1>3. Added(d, s) = Effect(Effect(d, x), y) BY <1>2, AddedOne
<1> QED BY <1>1, <1>3 DEF s

LEMMA AddedThree ==
    ASSUME NEW x \in Messages, NEW y \in Messages, NEW z \in Messages, NEW d
    PROVE  /\ <<x, y, z>> \in Seq(Messages)
           /\ Added(d, <<x, y, z>>) = Effect(Effect(Effect(d, x), y), z)
<1> DEFINE s == <<x, y, z>>
<1>1. /\ s \in Seq(Messages) /\ s # <<>> /\ Head(s) = x /\ Tail(s) = <<y, z>>
  OBVIOUS
<1> HIDE DEF s
<1>2. Added(d, s) = Added(Effect(d, x), <<y, z>>) BY <1>1, AddedFirst
<1>3. Added(d, s) = Effect(Effect(Effect(d, x), y), z) BY <1>2, AddedTwo
<1> QED BY <1>1, <1>3 DEF s

Down(d) == IF d = 0 THEN 0 ELSE d - 1

LEMMA AddedBySends ==
    ASSUME NEW d \in Nat
    PROVE  /\ Added(d, <<"set">>) = d + 1
           /\ Added(d, <<"restore">>) = Down(d)
           /\ Added(d, <<"context">>) = d
           /\ Added(d, <<"set", "restore">>) = d
           /\ Added(d, <<"activate", "restore">>) = Down(d)
           /\ Added(d, <<"activate", "restore", "context">>) = Down(d)
           /\ Added(d, <<"activate", "context">>) = d
           /\ Added(d, <<"deactivate", "clear_context">>) = d
           /\ Added(d, <<"set", "deactivate", "clear_context">>) = d + 1
           /\ Added(d, <<"plain", "deactivate", "clear_context">>) = d
<1>1. /\ OnlyModes \subseteq Messages
      /\ {"set", "restore", "plain", "activate", "deactivate", "context",
          "clear_context"} \subseteq OnlyModes
  BY DEF OnlyModes, Messages
<1>2. /\ Down(d) \in Nat /\ Down(d + 1) = d /\ d + 1 \in Nat
  BY DEF Down
<1>3. \A e \in Nat :
        /\ Effect(e, "set") = e + 1
        /\ Effect(e, "restore") = Down(e)
        /\ Effect(e, "plain") = e
        /\ Effect(e, "activate") = e
        /\ Effect(e, "deactivate") = e
        /\ Effect(e, "context") = e
        /\ Effect(e, "clear_context") = e
  BY <1>1, EffectOf DEF Down
<1>4. /\ Added(d, <<"set">>) = d + 1
      /\ Added(d, <<"restore">>) = Down(d)
      /\ Added(d, <<"context">>) = d
  BY <1>1, <1>3, AddedOne
<1>5. /\ Added(d, <<"set", "restore">>) = d
      /\ Added(d, <<"activate", "restore">>) = Down(d)
      /\ Added(d, <<"activate", "context">>) = d
      /\ Added(d, <<"deactivate", "clear_context">>) = d
  BY <1>1, <1>2, <1>3, AddedTwo
<1>6. /\ Added(d, <<"activate", "restore", "context">>) = Down(d)
      /\ Added(d, <<"set", "deactivate", "clear_context">>) = d + 1
      /\ Added(d, <<"plain", "deactivate", "clear_context">>) = d
  BY <1>1, <1>2, <1>3, AddedThree
<1> QED BY <1>4, <1>5, <1>6

-----------------------------------------------------------------------------
(***************************************************************************)
(* The steps of Neovim                                                     *)
(***************************************************************************)
LEMMA DepthsAhead ==
    ASSUME IInv, NvimTypeOK
    PROVE  /\ Todo \in Seq(PendingAction) /\ Coming \in Seq(Messages)
           /\ DepthNow(Nvim) \in Nat /\ Sure \in Nat /\ Sure <= DepthNow(Nvim)
           /\ Least \in Nat /\ Most \in Nat
<1>1. TypeOK /\ Nvim \in Clients BY NvimAssumption DEF IInv
<1>2. Todo \in Seq(PendingAction) BY <1>1, TodoType
<1>3. Coming \in Seq(Messages) BY ConcatProperties DEF NvimTypeOK, Coming
<1>4. DepthNow(Nvim) \in Nat BY <1>1, DepthsAreNat
<1>5. Sure \in Nat /\ Sure <= DepthNow(Nvim) BY <1>4 DEF Sure
<1>6. /\ DepthAfterAll(Nvim, Sure, Todo) \in Nat
      /\ DepthAfterAll(Nvim, DepthNow(Nvim), Todo) \in Nat
  BY <1>2, <1>4, <1>5, DepthAfterAllNat
<1>7. Least \in Nat /\ Most \in Nat
  BY <1>3, <1>6, AddedNat DEF Least, Most, DepthAhead
<1> QED BY <1>2, <1>3, <1>4, <1>5, <1>7

\* Messages that are sent and neither dropped nor overtaken come last.
LEMMA SendComes ==
    ASSUME NvimTypeOK, NEW msgs \in Seq(Messages), Send(msgs)
    PROVE  /\ wire' \in Seq(Messages) /\ pending_messages' \in Seq(Messages)
           /\ disturbed' \in BOOLEAN
           /\ ~disturbed' => ~disturbed /\ Coming' = Coming \o msgs
<1> DEFINE all == pending_messages \o msgs
<1>1. /\ wire \in Seq(Messages) /\ pending_messages \in Seq(Messages)
      /\ disturbed \in BOOLEAN
  BY DEF NvimTypeOK
<1>2. CASE connection = "connected"
  <2>1. /\ wire' = wire \o msgs /\ pending_messages' = pending_messages
        /\ disturbed' = (disturbed \/ pending_messages # <<>>)
    BY <1>2 DEF Send
  <2>2. wire' \in Seq(Messages) BY <1>1, <2>1, ConcatProperties
  <2>3. ASSUME pending_messages = <<>> PROVE Coming' = Coming \o msgs
    <3>1. Coming' = wire \o msgs
      BY <1>1, <2>1, <2>2, <2>3, ConcatEmptySeq DEF Coming
    <3>2. Coming = wire BY <1>1, <2>3, ConcatEmptySeq DEF Coming
    <3> QED BY <3>1, <3>2
  <2> QED BY <1>1, <2>1, <2>2, <2>3
<1>3. CASE connection # "connected"
  <2>1. /\ wire' = wire /\ pending_messages' = Prefix(all, MaxQueued)
        /\ disturbed' = (disturbed \/ Len(all) > MaxQueued)
    BY <1>3 DEF Send
  <2>2. all \in Seq(Messages) BY <1>1, ConcatProperties
  <2>3. MaxQueued \in Nat /\ Len(all) \in Nat
    BY <2>2, NeovimAssumption, LenProperties
  <2> HIDE DEF all
  <2>4. Prefix(all, MaxQueued) \in Seq(Messages)
    <3> DEFINE m == IF Len(all) < MaxQueued THEN Len(all) ELSE MaxQueued
    <3>1. m \in Nat /\ m <= Len(all) BY <2>3
    <3> HIDE DEF m
    <3>2. 1 \in Int /\ m \in Int /\ \A i \in 1 .. m : all[i] \in Messages
      BY <2>2, <2>3, <3>1, ElementOfSeq
    <3>3. SubSeq(all, 1, m) \in Seq(Messages) BY <3>2, SubSeqProperties
    <3> QED BY <3>3 DEF Prefix, m
  <2>5. ASSUME ~(Len(all) > MaxQueued) PROVE Coming' = Coming \o msgs
    <3>1. (IF Len(all) < MaxQueued THEN Len(all) ELSE MaxQueued) = Len(all)
      BY <2>3, <2>5
    <3>2. Prefix(all, MaxQueued) = all BY <2>2, <3>1, SubSeqFull DEF Prefix
    <3>3. Coming' = wire \o all BY <2>1, <3>2 DEF Coming
    <3>4. wire \o (pending_messages \o msgs)
            = (wire \o pending_messages) \o msgs
      BY <1>1, Z3T(60)
    <3> QED BY <3>3, <3>4 DEF Coming, all
  <2> QED BY <1>1, <2>1, <2>4, <2>5
<1> QED BY <1>2, <1>3

\* What they add is what they add to the depth ahead.
LEMMA SendAdds ==
    ASSUME IInv, NvimTypeOK, NEW msgs \in Seq(Messages),
           Coming' = Coming \o msgs, UNCHANGED vars
    PROVE  Least' = Added(Least, msgs) /\ Most' = Added(Most, msgs)
<1>1. Coming \in Seq(Messages) BY DepthsAhead
<1>2. /\ Sure' = Sure /\ DepthNow(Nvim)' = DepthNow(Nvim) /\ Todo' = Todo
  BY DEF vars, Sure, DepthNow, Known, Todo
<1> DEFINE x == DepthAfterAll(Nvim, Sure, Todo)
           y == DepthAfterAll(Nvim, DepthNow(Nvim), Todo)
<1>3. /\ Least = Added(x, Coming) /\ Most = Added(y, Coming)
      /\ Least' = Added(x, Coming \o msgs) /\ Most' = Added(y, Coming \o msgs)
  BY <1>2 DEF Least, Most, DepthAhead
<1> HIDE DEF x, y
<1> QED BY <1>1, <1>3, AddedConcat

\* What is switched off stays off,
LEMMA StaysOff ==
    ASSUME IInv, NvimTypeOK, SwitchedOff, NEW msgs \in Seq(Messages),
           Coming' = Coming \o msgs, UNCHANGED active_client,
           \A i \in 1 .. Len(msgs) : msgs[i] # "activate"
    PROVE  SwitchedOff'
<1> DEFINE m == Len(Coming)
           n == Len(msgs)
<1>1. Coming \in Seq(Messages) BY DepthsAhead
<1>2. m \in Nat /\ n \in Nat BY <1>1, LenProperties
<1>3. /\ Len(Coming)' = m + n
      /\ \A i \in 1 .. m + n :
            Coming'[i] = IF i <= m THEN Coming[i] ELSE msgs[i - m]
  BY <1>1, ConcatProperties
<1>4. PICK j \in 0 .. m :
        OffAt(j) /\ \A i \in j + 1 .. m : Coming[i] # "activate"
  BY DEF SwitchedOff
<1> HIDE DEF m, n
<1>5. OffAt(j)'
  <2>1. CASE j = 0 BY <1>4, <2>1 DEF OffAt
  <2>2. CASE j # 0
    <3>1. j \in 1 .. m + n /\ j <= m BY <1>2, <2>2
    <3> QED BY <1>3, <1>4, <2>2, <3>1 DEF OffAt
  <2> QED BY <2>1, <2>2
<1>6. ASSUME NEW i \in j + 1 .. m + n PROVE Coming'[i] # "activate"
  <2>1. i \in 1 .. m + n /\ (i <= m => i \in j + 1 .. m)
        /\ (~(i <= m) => i - m \in 1 .. n)
    BY <1>2
  <2> QED BY <1>3, <1>4, <2>1 DEF n
<1>7. j \in 0 .. m + n BY <1>2
<1> QED BY <1>3, <1>5, <1>6, <1>7 DEF SwitchedOff

\* and a deactivate switches off.
LEMMA SwitchesOff ==
    ASSUME IInv, NvimTypeOK, NEW msgs \in Seq(Messages),
           Coming' = Coming \o msgs, NEW k \in 1 .. Len(msgs),
           msgs[k] = "deactivate",
           \A i \in 1 .. Len(msgs) : msgs[i] # "activate"
    PROVE  SwitchedOff'
<1> DEFINE n == Len(msgs)
<1>1. Coming \in Seq(Messages) BY DepthsAhead
<1>2. PICK m \in Nat : m = Len(Coming) BY <1>1, LenProperties
<1>3. n \in Nat BY LenProperties
<1>4. /\ Len(Coming)' = m + n
      /\ \A i \in 1 .. m + n :
            Coming'[i] = IF i <= m THEN Coming[i] ELSE msgs[i - m]
  BY <1>1, <1>2, ConcatProperties
<1>5. PICK j \in 0 .. m + n : j = m + k BY <1>2, <1>3
<1>6. j \in 1 .. m + n /\ ~(j <= m) /\ j - m = k /\ j # 0
  BY <1>2, <1>3, <1>5
<1>7. OffAt(j)'
  <2>1. Coming'[j] = msgs[k] BY <1>4, <1>6
  <2> QED BY <1>6, <2>1 DEF OffAt
<1>8. ASSUME NEW i \in j + 1 .. m + n PROVE Coming'[i] # "activate"
  <2>1. i \in 1 .. m + n /\ ~(i <= m) /\ i - m \in 1 .. n
    BY <1>2, <1>3, <1>5
  <2>2. Coming'[i] = msgs[i - m] BY <1>4, <2>1
  <2>3. \A h \in 1 .. n : msgs[h] # "activate" OBVIOUS
  <2> HIDE DEF n
  <2> QED BY <2>1, <2>2, <2>3
<1> HIDE DEF n
<1> QED BY <1>4, <1>7, <1>8 DEF SwitchedOff

\* A callback sends msgs, unless it disturbs.
Comes(msgs) ==
    /\ wire' \in Seq(Messages) /\ pending_messages' \in Seq(Messages)
    /\ disturbed' \in BOOLEAN
    /\ ~disturbed' => ~disturbed /\ Coming' = Coming \o msgs

OutsideInsert == mode # "i" /\ ~leave_timer /\ ~leave_due

\* The text of Neovim is off where it was, or is switched off by msgs.
OffBy(msgs) ==
    OutsideInsert' =>
        /\ \A i \in 1 .. Len(msgs) : msgs[i] # "activate"
        /\ OutsideInsert \/ \E k \in 1 .. Len(msgs) : msgs[k] = "deactivate"

\* The nesting of the modes follows the sets and restores in msgs.
NestsBy(msgs) ==
    mode' # "gone" =>
        /\ mode # "gone" /\ msgs \in Seq(OnlyModes)
        /\ \A l \in Nat : Nesting <= l => Nesting' <= Added(l, msgs)
        /\ ~untimely' /\ TimelyTimers =>
            /\ TimelyTimers'
            /\ \A l \in Nat : l <= Nesting => Added(l, msgs) <= Nesting'

StateTypes ==
    /\ mode \in Modes /\ return_mode \in {"n", "i"}
    /\ leave_timer \in BOOLEAN /\ leave_due \in BOOLEAN
    /\ startup_timer \in BOOLEAN

\* Then the invariant is kept.
LEMMA NvimStep ==
    ASSUME NInv, UNCHANGED vars, UNCHANGED chosen,
           untimely' \in BOOLEAN, untimely => untimely',
           StateTypes', NEW msgs \in Seq(Messages), Comes(msgs),
           OffBy(msgs), NestsBy(msgs)
    PROVE  NvimTypeOK' /\ OffOutsideInsert' /\ ModesOK'
<1>0. IInv /\ NvimTypeOK /\ UNCHANGED active_client BY DEF NInv, vars
<1>1. NvimTypeOK' BY DEF NvimTypeOK, StateTypes, Comes
<1>2. OffOutsideInsert'
  <2> SUFFICES ASSUME ~disturbed', OutsideInsert' PROVE SwitchedOff'
    BY DEF OffOutsideInsert, OutsideInsert
  <2>1. ~disturbed /\ Coming' = Coming \o msgs BY DEF Comes
  <2>2. \A i \in 1 .. Len(msgs) : msgs[i] # "activate" BY DEF OffBy
  <2>3. CASE OutsideInsert
    <3>1. SwitchedOff
      BY <2>1, <2>3 DEF NInv, OffOutsideInsert, OutsideInsert
    <3> QED BY <1>0, <2>1, <2>2, <3>1, StaysOff
  <2>4. CASE \E k \in 1 .. Len(msgs) : msgs[k] = "deactivate"
    BY <1>0, <2>1, <2>2, <2>4, SwitchesOff
  <2> QED BY <2>3, <2>4 DEF OffBy
<1>3. ModesOK'
  <2> SUFFICES ASSUME Live' PROVE ModesOK'
    BY DEF ModesOK
  <2>1. ~disturbed /\ Coming' = Coming \o msgs BY DEF Comes, Live
  <2>2. Live /\ msgs \in Seq(OnlyModes) BY <2>1 DEF NestsBy, Live
  <2>3. /\ Todo \in Seq(OnlyAscii) /\ Coming \in Seq(OnlyModes)
        /\ Nesting <= Least
        /\ ~untimely => Most <= Nesting /\ Home /\ TimelyTimers
    BY <2>2 DEF NInv, ModesOK
  <2>4. Least' = Added(Least, msgs) /\ Most' = Added(Most, msgs)
    BY <1>0, <2>1, SendAdds
  <2>5. Least \in Nat /\ Most \in Nat BY <1>0, DepthsAhead
  <2>6. Todo' \in Seq(OnlyAscii)
    <3>1. Todo' = Todo BY DEF vars, Todo
    <3> QED BY <2>3, <3>1 DEF OnlyAscii
  <2>7. Coming' \in Seq(OnlyModes) BY <2>1, <2>2, <2>3, ConcatProperties
  <2>8. Home' <=> Home BY DEF vars, Home, DepthNow, Known
  <2>9. Nesting' <= Least'
    BY <2>3, <2>4, <2>5 DEF NestsBy, Live
  <2>10. ASSUME ~untimely'
         PROVE  Most' <= Nesting' /\ Home' /\ TimelyTimers'
    <3>1. ~untimely BY <2>10
    <3> QED BY <2>3, <2>4, <2>5, <2>8, <2>10, <3>1 DEF NestsBy, Live
  <2> QED BY <2>6, <2>7, <2>9, <2>10 DEF ModesOK
<1> QED BY <1>1, <1>2, <1>3

LEMMA SendOK ==
    ASSUME NInv, NEW msgs \in Seq(Messages), Send(msgs)
    PROVE  Comes(msgs)
BY SendComes DEF NInv, Comes

LEMMA NothingSent ==
    ASSUME NInv, \/ UNCHANGED <<wire, pending_messages, disturbed>>
                 \/ /\ wire' = wire \o pending_messages
                    /\ pending_messages' = <<>>
                    /\ UNCHANGED disturbed
    PROVE  Comes(<<>>)
<1>1. /\ wire \in Seq(Messages) /\ pending_messages \in Seq(Messages)
      /\ disturbed \in BOOLEAN
  BY DEF NInv, NvimTypeOK
<1>2. Coming \in Seq(Messages) /\ Coming \o <<>> = Coming
  BY <1>1, ConcatProperties, ConcatEmptySeq DEF Coming
<1>3. CASE UNCHANGED <<wire, pending_messages, disturbed>>
  BY <1>1, <1>2, <1>3 DEF Comes, Coming
<1>4. CASE /\ wire' = wire \o pending_messages
           /\ pending_messages' = <<>>
           /\ UNCHANGED disturbed
  <2>1. wire' \in Seq(Messages) /\ pending_messages' \in Seq(Messages)
    BY <1>1, <1>4, ConcatProperties, EmptySeq
  <2>2. Coming' = Coming
    BY <1>4, <2>1, ConcatEmptySeq DEF Coming
  <2> QED BY <1>1, <1>2, <1>4, <2>1, <2>2 DEF Comes
<1> QED BY <1>3, <1>4

\* Steps that send nothing and leave the modes.
LEMMA IdleNests ==
    ASSUME NInv, UNCHANGED <<mode, return_mode>>, UNCHANGED startup_timer,
           (leave_timer \/ leave_due) <=> (leave_timer' \/ leave_due')
    PROVE  OffBy(<<>>) /\ NestsBy(<<>>)
<1>1. <<>> \in Seq(OnlyModes) /\ \A d : Added(d, <<>>) = d
  BY AddedNothing, EmptySeq
<1>2. Nesting' = Nesting /\ (TimelyTimers' <=> TimelyTimers)
  BY DEF Nesting, AtNormal, FromInsert, TimelyTimers
<1>3. OffBy(<<>>)
  <2>1. OutsideInsert' <=> OutsideInsert
    BY DEF NInv, NvimTypeOK, OutsideInsert
  <2> QED BY <2>1 DEF OffBy
<1>4. NestsBy(<<>>)
  <2>1. \A l \in Nat : Nesting <= l => Nesting' <= Added(l, <<>>)
    BY <1>1, <1>2
  <2>2. \A l \in Nat : l <= Nesting => Added(l, <<>>) <= Nesting'
    BY <1>1, <1>2
  <2> QED BY <1>1, <1>2, <2>1, <2>2 DEF NestsBy
<1> QED BY <1>3, <1>4

\* The sends of the callbacks are messages of the modes.
LEMMA SendsType ==
    \A msgs \in {<<"set">>, <<"restore">>, <<"context">>, <<"set", "restore">>,
                 <<"activate", "restore">>, <<"activate", "restore", "context">>,
                 <<"activate", "context">>, <<"deactivate", "clear_context">>,
                 <<"set", "deactivate", "clear_context">>,
                 <<"plain", "deactivate", "clear_context">>} :
        msgs \in Seq(OnlyModes) /\ msgs \in Seq(Messages)
<1>1. \A S : \A x, y, z \in S :
        <<x>> \in Seq(S) /\ <<x, y>> \in Seq(S) /\ <<x, y, z>> \in Seq(S)
  OBVIOUS
<1>2. /\ OnlyModes \subseteq Messages
      /\ "set" \in OnlyModes /\ "restore" \in OnlyModes
      /\ "plain" \in OnlyModes /\ "context" \in OnlyModes
      /\ "activate" \in OnlyModes /\ "deactivate" \in OnlyModes
      /\ "clear_context" \in OnlyModes
  BY DEF OnlyModes, Messages
<1> HIDE DEF OnlyModes
<1>3. /\ <<"set">> \in Seq(OnlyModes) /\ <<"restore">> \in Seq(OnlyModes)
      /\ <<"context">> \in Seq(OnlyModes)
      /\ <<"set", "restore">> \in Seq(OnlyModes)
      /\ <<"activate", "restore">> \in Seq(OnlyModes)
      /\ <<"activate", "context">> \in Seq(OnlyModes)
      /\ <<"deactivate", "clear_context">> \in Seq(OnlyModes)
  BY <1>1, <1>2
<1>4. /\ <<"activate", "restore", "context">> \in Seq(OnlyModes)
      /\ <<"set", "deactivate", "clear_context">> \in Seq(OnlyModes)
      /\ <<"plain", "deactivate", "clear_context">> \in Seq(OnlyModes)
  BY <1>1, <1>2
<1>5. ASSUME NEW msgs \in Seq(OnlyModes) PROVE msgs \in Seq(Messages)
  BY <1>2
<1> QED BY <1>3, <1>4, <1>5, Zenon

LEMMA TwoAndOne ==
    ASSUME NEW S, NEW x \in S, NEW y \in S, NEW z \in S
    PROVE  <<x, y>> \o <<z>> = <<x, y, z>>
<1>1. /\ <<x, y>> \in Seq(S) /\ <<z>> \in Seq(S) /\ <<x, y, z>> \in Seq(S)
      /\ Len(<<x, y>>) = 2 /\ Len(<<z>>) = 1 /\ Len(<<x, y, z>>) = 3
  OBVIOUS
<1> PICK s, t, u : s = <<x, y>> /\ t = <<z>> /\ u = <<x, y, z>> OBVIOUS
<1>2. /\ s[1] = x /\ s[2] = y /\ t[1] = z
      /\ u[1] = x /\ u[2] = y /\ u[3] = z
  OBVIOUS
<1>3. /\ s \o t \in Seq(S) /\ Len(s \o t) = 3
      /\ \A i \in 1 .. 3 : (s \o t)[i] = IF i <= 2 THEN s[i] ELSE t[i - 2]
  BY ONLY <1>1, s = <<x, y>> /\ t = <<z>>, ConcatProperties
<1>4. \A i \in 1 .. 3 : (s \o t)[i] = u[i] BY ONLY <1>2, <1>3
<1>5. s \o t = u BY <1>1, <1>3, <1>4, SeqEqual
<1> QED BY <1>5

\* Every autocommand and every timer keeps the nesting that the mode asks for.
LEMMA EditorOK ==
    ASSUME NInv, Neovim
    PROVE  NvimTypeOK' /\ OffOutsideInsert' /\ ModesOK'
<1>0. /\ UNCHANGED vars /\ UNCHANGED chosen /\ NvimNext
      /\ untimely' \in BOOLEAN /\ (untimely => untimely')
      /\ ~untimely' => ~(startup_timer /\ mode' = "i")
      /\ ~untimely' => ~(LeaveTimerCallback /\ FromInsert)
      /\ StateTypes
  BY DEF Neovim, NInv, NvimTypeOK, UntimelySet, StateTypes, FromInsert
<1>1. ASSUME NEW msgs \in Seq(Messages), Comes(msgs), StateTypes',
             OffBy(msgs), NestsBy(msgs)
      PROVE  NvimTypeOK' /\ OffOutsideInsert' /\ ModesOK'
  BY <1>0, <1>1, NvimStep
<1>2. ASSUME Comes(<<>>), UNCHANGED <<mode, return_mode, timers>>
      PROVE  NvimTypeOK' /\ OffOutsideInsert' /\ ModesOK'
  <2>1. <<>> \in Seq(Messages) BY EmptySeq
  <2>2. StateTypes' BY <1>0, <1>2 DEF StateTypes, timers
  <2>3. OffBy(<<>>) /\ NestsBy(<<>>) BY <1>2, IdleNests DEF timers
  <2> QED BY <1>1, <1>2, <2>1, <2>2, <2>3
<1>3. CASE InsertEnter
  <2>1. PICK msgs \in {<<"activate", "restore">>,
                       <<"activate", "restore", "context">>} : Send(msgs)
    <3>1. <<"activate", "restore">> \o <<"context">>
            = <<"activate", "restore", "context">>
      <4>1. {"activate", "restore", "context"} \subseteq Messages
        BY DEF Messages
      <4>2. \A x, y, z \in Messages : <<x, y>> \o <<z>> = <<x, y, z>>
        BY TwoAndOne
      <4> QED BY <4>1, <4>2, Zenon
    <3>a. <<"activate", "restore">> \in Seq(Messages) BY SendsType
    <3>b. <<"activate", "restore">> \o <<>> = <<"activate", "restore">>
      BY <3>a, ConcatEmptySeq, Zenon
    <3>2. \/ Send(<<"activate", "restore">> \o <<>>)
          \/ Send(<<"activate", "restore">> \o <<"context">>)
      BY <1>3 DEF InsertEnter
    <3> QED BY <3>1, <3>b, <3>2, Zenon
  <2>2. /\ msgs \in Seq(Messages) /\ msgs \in Seq(OnlyModes)
        /\ \A d \in Nat : Added(d, msgs) = Down(d)
    BY <2>1, SendsType, AddedBySends
  <2>3. StateTypes' /\ OffBy(msgs)
    BY <1>0, <1>3 DEF InsertEnter, Changes, StateTypes, OffBy, OutsideInsert, Modes
  <2>4. NestsBy(msgs)
    BY <1>0, <1>3, <2>2
    DEF InsertEnter, Changes, NestsBy, Nesting, AtNormal, FromInsert,
        TimelyTimers, Down
  <2> QED BY <1>1, <2>1, <2>2, <2>3, <2>4, SendOK
<1>4. CASE InsertTyping
  <2> DEFINE msgs == <<"context">>
  <2>1. Send(msgs) /\ mode = "i" /\ UNCHANGED <<mode, return_mode, timers>>
    BY <1>4 DEF InsertTyping
  <2>2. /\ msgs \in Seq(Messages) /\ msgs \in Seq(OnlyModes)
        /\ \A d \in Nat : Added(d, msgs) = d
    BY SendsType, AddedBySends
  <2>3. StateTypes' /\ OffBy(msgs)
    BY <1>0, <2>1 DEF StateTypes, OffBy, OutsideInsert, timers
  <2>4. NestsBy(msgs)
    BY <1>0, <2>1, <2>2
    DEF NestsBy, Nesting, AtNormal, FromInsert, TimelyTimers, timers
  <2> HIDE DEF msgs
  <2> QED BY <1>1, <2>1, <2>2, <2>3, <2>4, SendOK
<1>5. CASE InsertLeave
  <2> DEFINE msgs == <<>>
  <2>1. Comes(msgs) BY <1>5, NothingSent DEF InsertLeave, channel
  <2>2. /\ msgs \in Seq(Messages) /\ msgs \in Seq(OnlyModes)
        /\ \A d \in Nat : Added(d, msgs) = d
    BY EmptySeq, AddedNothing
  <2>3. StateTypes' /\ OffBy(msgs)
    BY <1>0, <1>5
    DEF InsertLeave, Changes, StateTypes, OffBy, OutsideInsert, Modes
  <2>4. NestsBy(msgs)
    BY <1>0, <1>5, <2>2
    DEF InsertLeave, Changes, NestsBy, Nesting, AtNormal, FromInsert,
        TimelyTimers
  <2> HIDE DEF msgs
  <2> QED BY <1>1, <2>1, <2>2, <2>3, <2>4
<1>6. CASE CmdlineEnter
  <2> DEFINE msgs == <<"set", "deactivate", "clear_context">>
  <2>1. /\ Send(msgs) /\ mode \in {"n", "i"} /\ mode' = "c"
        /\ return_mode' = mode /\ UNCHANGED timers
    BY <1>6 DEF CmdlineEnter
  <2>2. /\ msgs \in Seq(Messages) /\ msgs \in Seq(OnlyModes)
        /\ \A d \in Nat : Added(d, msgs) = d + 1
    BY SendsType, AddedBySends
  <2>3. StateTypes' BY <1>0, <2>1 DEF StateTypes, Modes, timers
  <2>4. OffBy(msgs)
    <3>1. 2 \in 1 .. Len(msgs) /\ msgs[2] = "deactivate"
          /\ \A i \in 1 .. Len(msgs) : msgs[i] # "activate"
      OBVIOUS
    <3> HIDE DEF msgs
    <3> QED BY <3>1 DEF OffBy
  <2>5. NestsBy(msgs)
    BY <1>0, <2>1, <2>2
    DEF NestsBy, Nesting, AtNormal, FromInsert, TimelyTimers, timers
  <2> HIDE DEF msgs
  <2> QED BY <1>1, <2>1, <2>2, <2>3, <2>4, <2>5, SendOK
<1>7. CASE CmdlineLeave
  <2> DEFINE msgs == <<"restore">>
  <2>1. /\ Send(msgs) /\ mode = "c" /\ mode' = return_mode
        /\ return_mode' = "n" /\ UNCHANGED timers
    BY <1>7 DEF CmdlineLeave, Changes
  <2>2. /\ msgs \in Seq(Messages) /\ msgs \in Seq(OnlyModes)
        /\ \A d \in Nat : Added(d, msgs) = Down(d)
    BY SendsType, AddedBySends
  <2>3. StateTypes' BY <1>0, <2>1 DEF StateTypes, Modes, timers
  <2>4. OffBy(msgs)
    <3>1. \A i \in 1 .. Len(msgs) : msgs[i] # "activate" OBVIOUS
    <3> HIDE DEF msgs
    <3> QED BY <2>1, <3>1 DEF OffBy, OutsideInsert, timers
  <2>5. NestsBy(msgs)
    BY <1>0, <2>1, <2>2
    DEF NestsBy, Nesting, AtNormal, FromInsert, TimelyTimers, timers, Down,
        StateTypes
  <2> HIDE DEF msgs
  <2> QED BY <1>1, <2>1, <2>2, <2>3, <2>4, <2>5, SendOK
<1>8. CASE VisualEnter
  <2> DEFINE msgs == <<"set">>
  <2>1. /\ Send(msgs) /\ mode = "n" /\ mode' = "v"
        /\ UNCHANGED return_mode /\ UNCHANGED timers
    BY <1>8 DEF VisualEnter, Changes
  <2>2. /\ msgs \in Seq(Messages) /\ msgs \in Seq(OnlyModes)
        /\ \A d \in Nat : Added(d, msgs) = d + 1
    BY SendsType, AddedBySends
  <2>3. StateTypes' BY <1>0, <2>1 DEF StateTypes, Modes, timers
  <2>4. OffBy(msgs)
    <3>1. \A i \in 1 .. Len(msgs) : msgs[i] # "activate" OBVIOUS
    <3> HIDE DEF msgs
    <3> QED BY <2>1, <3>1 DEF OffBy, OutsideInsert, timers
  <2>5. NestsBy(msgs)
    BY <1>0, <2>1, <2>2
    DEF NestsBy, Nesting, AtNormal, FromInsert, TimelyTimers, timers
  <2> HIDE DEF msgs
  <2> QED BY <1>1, <2>1, <2>2, <2>3, <2>4, <2>5, SendOK
<1>9. CASE VisualLeave
  <2> DEFINE msgs == <<"restore">>
  <2>1. /\ Send(msgs) /\ mode = "v" /\ mode' = "n"
        /\ UNCHANGED return_mode /\ UNCHANGED timers
    BY <1>9 DEF VisualLeave, Changes
  <2>2. /\ msgs \in Seq(Messages) /\ msgs \in Seq(OnlyModes)
        /\ \A d \in Nat : Added(d, msgs) = Down(d)
    BY SendsType, AddedBySends
  <2>3. StateTypes' BY <1>0, <2>1 DEF StateTypes, Modes, timers
  <2>4. OffBy(msgs)
    <3>1. \A i \in 1 .. Len(msgs) : msgs[i] # "activate" OBVIOUS
    <3> HIDE DEF msgs
    <3> QED BY <2>1, <3>1 DEF OffBy, OutsideInsert, timers
  <2>5. NestsBy(msgs)
    BY <1>0, <2>1, <2>2
    DEF NestsBy, Nesting, AtNormal, FromInsert, TimelyTimers, timers, Down
  <2> HIDE DEF msgs
  <2> QED BY <1>1, <2>1, <2>2, <2>3, <2>4, <2>5, SendOK
<1>10. ASSUME NEW msgs \in {<<"set", "restore">>, <<"activate", "context">>,
                           <<"deactivate", "clear_context">>,
                           <<"plain", "deactivate", "clear_context">>},
              Send(msgs), mode # "gone", UNCHANGED <<mode, return_mode, timers>>,
              mode = "i" \/ msgs # <<"activate", "context">>
       PROVE  NvimTypeOK' /\ OffOutsideInsert' /\ ModesOK'
  <2>1. /\ msgs \in Seq(Messages) /\ msgs \in Seq(OnlyModes)
        /\ \A d \in Nat : Added(d, msgs) = d
    BY SendsType, AddedBySends
  <2>2. StateTypes' BY <1>0, <1>10 DEF StateTypes, timers
  <2>3. OffBy(msgs)
    <3>1. mode = "i" \/ \A i \in 1 .. Len(msgs) : msgs[i] # "activate"
      <4>1. \A i \in 1 .. Len(<<"set", "restore">>) :
               <<"set", "restore">>[i] # "activate"
        OBVIOUS
      <4>2. \A i \in 1 .. Len(<<"deactivate", "clear_context">>) :
               <<"deactivate", "clear_context">>[i] # "activate"
        OBVIOUS
      <4>3. \A i \in 1 .. Len(<<"plain", "deactivate", "clear_context">>) :
               <<"plain", "deactivate", "clear_context">>[i] # "activate"
        OBVIOUS
      <4> QED BY <1>10, <4>1, <4>2, <4>3, Zenon
    <3> QED BY <1>10, <3>1 DEF OffBy, OutsideInsert, timers
  <2>4. NestsBy(msgs)
    BY <1>0, <1>10, <2>1
    DEF NestsBy, Nesting, AtNormal, FromInsert, TimelyTimers, timers
  <2> QED BY <1>1, <1>10, <2>1, <2>2, <2>3, <2>4, SendOK
<1>11. CASE VisualSwitch
  BY <1>10, <1>11 DEF VisualSwitch
<1>12. CASE FocusGained
  BY <1>10, <1>12 DEF FocusGained
<1>13. CASE FocusLost
  BY <1>10, <1>13 DEF FocusLost
<1>14. CASE VimLeave
  <2> DEFINE msgs == Goodbye
  <2>1. /\ msgs \in Seq(Messages)
        /\ 2 \in 1 .. Len(msgs) /\ msgs[2] = "deactivate"
        /\ \A i \in 1 .. Len(msgs) : msgs[i] # "activate"
    BY DEF Goodbye, Messages
  <2> HIDE DEF msgs
  <2>2. /\ wire \in Seq(Messages) /\ pending_messages \in Seq(Messages)
        /\ disturbed \in BOOLEAN
    BY DEF NInv, NvimTypeOK
  <2>3. Comes(msgs)
    <3>1. pending_messages' = <<>> /\ pending_messages' \in Seq(Messages)
      BY <1>14, EmptySeq DEF VimLeave
    <3>2. CASE connection = "connected"
      <4>1. /\ wire' = wire \o msgs
            /\ disturbed' = (disturbed \/ pending_messages # <<>>)
        BY <1>14, <3>2 DEF VimLeave, msgs
      <4>2. wire' \in Seq(Messages) BY <2>1, <2>2, <4>1, ConcatProperties
      <4>3. ASSUME pending_messages = <<>> PROVE Coming' = Coming \o msgs
        <5>1. Coming' = wire' BY <3>1, <4>2, ConcatEmptySeq DEF Coming
        <5>2. Coming = wire BY <2>2, <4>3, ConcatEmptySeq DEF Coming
        <5> QED BY <4>1, <5>1, <5>2
      <4> QED BY <2>2, <3>1, <4>1, <4>2, <4>3 DEF Comes
    <3>3. CASE connection # "connected"
      BY <1>14, <2>2, <3>1, <3>3 DEF VimLeave, Comes
    <3> QED BY <3>2, <3>3
  <2>4. StateTypes' BY <1>0, <1>14 DEF VimLeave, StateTypes, Modes
  <2>5. OffBy(msgs) BY <2>1 DEF OffBy
  <2>6. NestsBy(msgs) BY <1>14 DEF VimLeave, NestsBy
  <2> QED BY <1>1, <2>1, <2>3, <2>4, <2>5, <2>6
<1>15. CASE Connecting
  <2>1. UNCHANGED <<mode, return_mode, timers>>
    BY <1>15 DEF Connecting, Connected, ConnectFails, Reconnect, FlushPending
  <2>2. Comes(<<>>)
    BY <1>15, NothingSent
    DEF Connecting, Connected, ConnectFails, Reconnect, FlushPending
  <2> QED BY <1>2, <2>1, <2>2
<1>16. CASE LeaveTimerExpires
  <2>1. <<>> \in Seq(Messages) BY EmptySeq
  <2>2. Comes(<<>>) BY <1>16, NothingSent DEF LeaveTimerExpires, channel
  <2>3. StateTypes' BY <1>0, <1>16 DEF LeaveTimerExpires, StateTypes
  <2>4. OffBy(<<>>) /\ NestsBy(<<>>)
    BY <1>16, IdleNests DEF LeaveTimerExpires
  <2> QED BY <1>1, <2>1, <2>2, <2>3, <2>4
<1>17. CASE LeaveTimerCallback
  <2>0. /\ leave_due /\ leave_due' = FALSE /\ leave_timer' = FALSE
        /\ UNCHANGED <<mode, return_mode>> /\ UNCHANGED startup_timer
    BY <1>17 DEF LeaveTimerCallback
  <2>1. CASE mode = "i"
    <3> DEFINE msgs == <<>>
    <3>1. Comes(msgs)
      BY <1>17, <2>1, NothingSent DEF LeaveTimerCallback, channel
    <3>2. /\ msgs \in Seq(Messages) /\ msgs \in Seq(OnlyModes)
          /\ \A d \in Nat : Added(d, msgs) = d
      BY EmptySeq, AddedNothing
    <3>3. StateTypes' /\ OffBy(msgs)
      BY <1>0, <2>0, <2>1 DEF StateTypes, OffBy, OutsideInsert
    <3>4. NestsBy(msgs)
      BY <1>0, <2>0, <2>1, <3>2
      DEF NestsBy, Nesting, AtNormal, FromInsert, TimelyTimers
    <3> HIDE DEF msgs
    <3> QED BY <1>1, <3>1, <3>2, <3>3, <3>4
  <2>2. CASE mode # "i"
    <3> DEFINE msgs == <<"set", "deactivate", "clear_context">>
    <3>1. Send(msgs) BY <1>17, <2>2 DEF LeaveTimerCallback
    <3>2. /\ msgs \in Seq(Messages) /\ msgs \in Seq(OnlyModes)
          /\ \A d \in Nat : Added(d, msgs) = d + 1
      BY SendsType, AddedBySends
    <3>3. StateTypes' BY <1>0, <2>0 DEF StateTypes
    <3>4. OffBy(msgs)
      <4>1. 2 \in 1 .. Len(msgs) /\ msgs[2] = "deactivate"
            /\ \A i \in 1 .. Len(msgs) : msgs[i] # "activate"
        OBVIOUS
      <4> HIDE DEF msgs
      <4> QED BY <4>1 DEF OffBy
    <3>5. NestsBy(msgs)
      BY <1>0, <1>17, <2>0, <2>2, <3>2
      DEF NestsBy, Nesting, AtNormal, FromInsert, TimelyTimers, StateTypes, Modes
    <3> HIDE DEF msgs
    <3> QED BY <1>1, <3>1, <3>2, <3>3, <3>4, <3>5, SendOK
  <2> QED BY <2>1, <2>2
<1>18. CASE StartupTimerCallback
  <2> DEFINE msgs == <<"set">>
  <2>1. /\ Send(msgs) /\ startup_timer /\ startup_timer' = FALSE
        /\ UNCHANGED <<mode, return_mode, leave_timer, leave_due>>
    BY <1>18 DEF StartupTimerCallback
  <2>2. /\ msgs \in Seq(Messages) /\ msgs \in Seq(OnlyModes)
        /\ \A d \in Nat : Added(d, msgs) = d + 1
    BY SendsType, AddedBySends
  <2>3. StateTypes' BY <1>0, <2>1 DEF StateTypes
  <2>4. OffBy(msgs)
    <3>1. \A i \in 1 .. Len(msgs) : msgs[i] # "activate" OBVIOUS
    <3> HIDE DEF msgs
    <3> QED BY <2>1, <3>1 DEF OffBy, OutsideInsert
  <2>5. NestsBy(msgs)
    BY <1>0, <2>1, <2>2
    DEF NestsBy, Nesting, AtNormal, FromInsert, TimelyTimers, StateTypes, Modes
  <2> HIDE DEF msgs
  <2> QED BY <1>1, <2>1, <2>2, <2>3, <2>4, <2>5, SendOK
<1>19. CASE ContextTimerCallback
  <2>1. CASE mode = "i"
    <3> DEFINE msgs == <<"context">>
    <3>1. /\ Send(msgs)
          /\ UNCHANGED <<mode, return_mode, leave_timer, leave_due, startup_timer>>
      BY <1>19, <2>1 DEF ContextTimerCallback
    <3>2. /\ msgs \in Seq(Messages) /\ msgs \in Seq(OnlyModes)
          /\ \A d \in Nat : Added(d, msgs) = d
      BY SendsType, AddedBySends
    <3>3. StateTypes' /\ OffBy(msgs)
      BY <1>0, <2>1, <3>1 DEF StateTypes, OffBy, OutsideInsert
    <3>4. NestsBy(msgs)
      BY <1>0, <2>1, <3>1, <3>2
      DEF NestsBy, Nesting, AtNormal, FromInsert, TimelyTimers
    <3> HIDE DEF msgs
    <3> QED BY <1>1, <3>1, <3>2, <3>3, <3>4, SendOK
  <2>2. CASE mode # "i"
    <3>1. <<>> \in Seq(Messages) BY EmptySeq
    <3>2. Comes(<<>>)
      BY <1>19, <2>2, NothingSent DEF ContextTimerCallback, channel
    <3>3. StateTypes' BY <1>0, <1>19 DEF ContextTimerCallback, StateTypes
    <3>4. OffBy(<<>>) /\ NestsBy(<<>>)
      BY <1>19, IdleNests DEF ContextTimerCallback
    <3> QED BY <1>1, <3>1, <3>2, <3>3, <3>4
  <2> QED BY <2>1, <2>2
<1> QED
  BY <1>0, <1>3, <1>4, <1>5, <1>6, <1>7, <1>8, <1>9, <1>11, <1>12, <1>13,
     <1>14, <1>15, <1>16, <1>17, <1>18, <1>19
  DEF NvimNext, Editing, TimersRun

-----------------------------------------------------------------------------
(***************************************************************************)
(* The steps of the bridge                                                 *)
(***************************************************************************)
\* A handler leaves the nesting of Neovim and the modes alone,
LEMMA HandleKeeps ==
    ASSUME NInv, NEW m \in Messages, Handle(m)
    PROVE  /\ ProcessMessage(Nvim)
           /\ UNCHANGED <<batch, current, ascii_mode>>
           /\ active_client' \in {NoClient, Nvim}
           /\ m # "activate" /\ active_client = NoClient
              => active_client' = NoClient
           /\ m = "deactivate" => active_client' = NoClient
           /\ DepthNow(Nvim)' = DepthNow(Nvim)
           /\ DepthNow(Nvim) # 0 =>
                client_states'[Nvim].base = client_states[Nvim].base
<1>0. IInv /\ TypeOK /\ Nvim \in Clients /\ active_client \in {NoClient, Nvim}
  BY NvimAssumption DEF NInv, IInv, Alone
<1>1. ProcessMessage(Nvim) BY DEF Handle, ProcessMessage
<1>2. /\ UNCHANGED <<batch, current, ascii_mode>>
      /\ active_client' \in {NoClient, Nvim}
      /\ m # "activate" /\ active_client = NoClient => active_client' = NoClient
      /\ m = "deactivate" => active_client' = NoClient
  BY <1>0
  DEF Handle, HandleSet, HandleRestore, HandleReset, HandleUnregister,
      HandleActivate, HandleDeactivate, HandleContext, HandleClearContext
<1> DEFINE st == StateOf(Nvim)
<1>3. ASSUME NEW new \in {st} \cup {[st EXCEPT !.context = text] :
                                        text \in Texts \cup {NoText}},
             client_states' = [client_states EXCEPT ![Nvim] = new]
      PROVE  /\ DepthNow(Nvim)' = DepthNow(Nvim)
             /\ DepthNow(Nvim) # 0 =>
                  client_states'[Nvim].base = client_states[Nvim].base
  <2>1. st \in ClientState BY <1>0, StateOfOK
  <2>2. new # NoState /\ new.depth = DepthNow(Nvim) BY <1>0, <1>3, DepthOf
  <2>3. DepthNow(Nvim)' = DepthNow(Nvim)
    BY <1>0, <1>3, <2>2, DepthOfEntry
  <2>4. DepthNow(Nvim) # 0 => st = client_states[Nvim]
    BY DEF StateOf, DepthNow
  <2>5. client_states'[Nvim] = new BY <1>0, <1>3 DEF TypeOK
  <2> HIDE DEF st
  <2>6. new.base = st.base BY <1>3, <2>1 DEF ClientState
  <2> QED BY <2>3, <2>4, <2>5, <2>6
<1>4. CASE UNCHANGED client_states
  BY <1>1, <1>2, <1>4 DEF DepthNow, Known
<1>5. CASE \E text \in Texts : HandleContext(Nvim, text)
  BY <1>1, <1>2, <1>3, <1>5 DEF HandleContext
<1>6. CASE HandleClearContext(Nvim)
  <2>1. CASE Known(Nvim)
    <3>1. client_states'
            = [client_states EXCEPT ![Nvim] = [st EXCEPT !.context = NoText]]
      BY <1>0, <1>6, <2>1 DEF HandleClearContext, StateOf, TypeOK
    <3> QED BY <1>1, <1>2, <1>3, <3>1
  <2>2. CASE ~Known(Nvim)
    BY <1>4, <1>6, <2>2 DEF HandleClearContext
  <2> QED BY <2>1, <2>2
<1>7. CASE \/ HandleActivate(Nvim)
           \/ \E ascii, stack \in BOOLEAN : HandleSet(Nvim, ascii, stack)
  BY <1>1, <1>2, <1>3, <1>7 DEF HandleActivate, HandleSet
<1>8. CASE \/ HandleRestore(Nvim) \/ HandleReset(Nvim, TRUE)
           \/ HandleUnregister(Nvim) \/ HandleDeactivate(Nvim)
  BY <1>4, <1>8
  DEF HandleRestore, HandleReset, HandleUnregister, HandleDeactivate
<1> QED BY <1>5, <1>6, <1>7, <1>8 DEF Handle

Queues(m) == m \in {"set", "plain"} \/ (m = "restore" /\ CycleOpen(Nvim))

\* and queues what its message asks, unless it drops a restore.
LEMMA HandleQueues ==
    ASSUME NInv, NEW m \in OnlyModes, Handle(m)
    PROVE  /\ Queues(m) => Todo' = Append(Todo, AskOf(m))
           /\ ~Queues(m) => Todo' = Todo
<1>0. TypeOK /\ m \in Messages BY DEF NInv, IInv, OnlyModes
<1>1. UNCHANGED batch BY <1>0, HandleKeeps
<1>a. PICK r \in PendingAction :
        r = PlainAction("kSet", Nvim) /\ r.ascii = TRUE /\ r.stack = TRUE
  <2>1. PlainAction("kSet", Nvim) \in PendingAction
    BY NvimAssumption, PlainActionOK DEF ActionTypes
  <2>2. /\ PlainAction("kSet", Nvim).ascii = TRUE
        /\ PlainAction("kSet", Nvim).stack = TRUE
    BY DEF PlainAction
  <2> QED BY <2>1, <2>2
<1>b. /\ [r EXCEPT !.ascii = TRUE, !.stack = TRUE] = r
      /\ [r EXCEPT !.ascii = TRUE, !.stack = FALSE] = [r EXCEPT !.stack = FALSE]
  <2>1. ASSUME NEW b \in BOOLEAN
        PROVE  /\ [r EXCEPT !.ascii = TRUE, !.stack = b] \in PendingAction
               /\ [r EXCEPT !.ascii = TRUE, !.stack = b].type = r.type
               /\ [r EXCEPT !.ascii = TRUE, !.stack = b].client = r.client
               /\ [r EXCEPT !.ascii = TRUE, !.stack = b].ascii = r.ascii
               /\ [r EXCEPT !.ascii = TRUE, !.stack = b].stack = b
               /\ [r EXCEPT !.ascii = TRUE, !.stack = b].restore = r.restore
    BY <1>a DEF PendingAction
  <2>2. /\ [r EXCEPT !.stack = FALSE] \in PendingAction
        /\ [r EXCEPT !.stack = FALSE].type = r.type
        /\ [r EXCEPT !.stack = FALSE].client = r.client
        /\ [r EXCEPT !.stack = FALSE].ascii = r.ascii
        /\ [r EXCEPT !.stack = FALSE].stack = FALSE
        /\ [r EXCEPT !.stack = FALSE].restore = r.restore
    BY <1>a DEF PendingAction
  <2>3. ASSUME NEW p \in PendingAction, NEW q \in PendingAction,
               p.type = q.type, p.client = q.client, p.ascii = q.ascii,
               p.stack = q.stack, p.restore = q.restore
        PROVE  p = q
    BY <2>3 DEF PendingAction
  <2>4. [r EXCEPT !.ascii = TRUE, !.stack = TRUE] = r
    BY <1>a, <2>1, <2>3
  <2>5. [r EXCEPT !.ascii = TRUE, !.stack = FALSE] = [r EXCEPT !.stack = FALSE]
    BY <2>1, <2>2, <2>3
  <2> QED BY <2>4, <2>5
<1>2. CASE Queues(m)
  <2>1. CASE m = "set"
    <3>1. AskOf(m) = [PlainAction("kSet", Nvim)
                        EXCEPT !.ascii = TRUE, !.stack = TRUE]
      <4>1. AskOf(m) = PlainAction("kSet", Nvim) BY <2>1 DEF AskOf
      <4>2. PlainAction("kSet", Nvim)
              = [PlainAction("kSet", Nvim) EXCEPT !.ascii = TRUE, !.stack = TRUE]
        BY <1>a, <1>b
      <4> QED BY <4>1, <4>2
    <3>2. HandleSet(Nvim, TRUE, TRUE) BY <2>1 DEF Handle
    <3>3. Push(AskOf(m)) BY <3>1, <3>2 DEF HandleSet
    <3> QED BY <1>0, <1>1, <1>2, <3>3, AskOfOK, QueuePush
  <2>2. CASE m = "plain"
    <3>1. AskOf(m) = [PlainAction("kSet", Nvim)
                        EXCEPT !.ascii = TRUE, !.stack = FALSE]
      <4>1. AskOf(m) = [PlainAction("kSet", Nvim) EXCEPT !.stack = FALSE]
        BY <2>2 DEF AskOf
      <4>2. [PlainAction("kSet", Nvim) EXCEPT !.stack = FALSE]
              = [PlainAction("kSet", Nvim) EXCEPT !.ascii = TRUE, !.stack = FALSE]
        BY <1>a, <1>b
      <4> QED BY <4>1, <4>2
    <3>2. HandleSet(Nvim, TRUE, FALSE) BY <2>2 DEF Handle
    <3>3. Push(AskOf(m)) BY <3>1, <3>2 DEF HandleSet
    <3> QED BY <1>0, <1>1, <1>2, <3>3, AskOfOK, QueuePush
  <2>3. CASE m = "restore"
    <3>1. AskOf(m) = PlainAction("kRestore", Nvim) BY <2>3 DEF AskOf
    <3>2. CycleOpen(Nvim) /\ HandleRestore(Nvim)
      BY <1>2, <2>3 DEF Queues, Handle
    <3>3. Push(AskOf(m)) BY <3>1, <3>2 DEF HandleRestore
    <3> QED BY <1>0, <1>1, <1>2, <3>3, AskOfOK, QueuePush
  <2> QED BY <1>2, <2>1, <2>2, <2>3 DEF Queues
<1>3. CASE ~Queues(m)
  <2>1. UNCHANGED pending_actions
    BY <1>3
    DEF Queues, Handle, HandleRestore, HandleActivate, HandleDeactivate,
        HandleContext, HandleClearContext, OnlyModes
  <2> QED BY <1>1, <1>3, <2>1 DEF Todo
<1> QED BY <1>2, <1>3

\* The text of Neovim stays off while its messages are read.
LEMMA ReadStaysOff ==
    ASSUME NInv, Coming # <<>>, Coming' = Tail(Coming), SwitchedOff,
           Head(Coming) # "activate" /\ active_client = NoClient
           => active_client' = NoClient,
           Head(Coming) = "deactivate" => active_client' = NoClient
    PROVE  SwitchedOff'
<1>1. Coming \in Seq(Messages) BY DepthsAhead DEF NInv
<1>2. PICK n \in Nat : n = Len(Coming) BY <1>1, LenProperties
<1>3. /\ n # 0 /\ Len(Coming)' = n - 1 /\ Head(Coming) = Coming[1]
      /\ \A i \in 1 .. n - 1 : Coming'[i] = Coming[i + 1]
  BY <1>1, <1>2, HeadTailProperties, LenProperties, EmptySeq
<1>4. PICK j \in 0 .. n :
        OffAt(j) /\ \A i \in j + 1 .. n : Coming[i] # "activate"
  BY <1>2 DEF SwitchedOff
<1>5. CASE j \in {0, 1}
  <2>1. OffAt(0)'
    <3>1. CASE j = 0
      <4>1. 1 \in j + 1 .. n BY <1>2, <1>3, <3>1
      <4> QED BY <1>3, <1>4, <3>1, <4>1 DEF OffAt
    <3>2. CASE j = 1
      BY <1>3, <1>4, <3>2 DEF OffAt
    <3> QED BY <1>5, <3>1, <3>2
  <2>2. ASSUME NEW i \in 1 .. n - 1 PROVE Coming'[i] # "activate"
    <3>1. i + 1 \in j + 1 .. n BY <1>5
    <3> QED BY <1>3, <1>4, <3>1
  <2>3. 0 \in 0 .. n - 1 BY <1>2, <1>3
  <2> QED BY <1>3, <2>1, <2>2, <2>3 DEF SwitchedOff
<1>6. CASE j \notin {0, 1}
  <2>1. PICK k \in 1 .. n - 1 : k = j - 1 BY <1>2, <1>6
  <2>2. OffAt(k)'
    <3>1. k # 0 /\ k + 1 = j BY <1>6, <2>1
    <3> QED BY <1>3, <1>4, <1>6, <2>1, <3>1 DEF OffAt
  <2>3. ASSUME NEW i \in k + 1 .. n - 1 PROVE Coming'[i] # "activate"
    <3>1. i + 1 \in j + 1 .. n /\ i \in 1 .. n - 1 BY <2>1
    <3> QED BY <1>3, <1>4, <3>1
  <2>4. k \in 0 .. n - 1 BY <2>1
  <2> QED BY <1>3, <2>2, <2>3, <2>4 DEF SwitchedOff
<1> QED BY <1>5, <1>6

LEMMA DeliverOK ==
    ASSUME NInv, Deliver
    PROVE  NvimTypeOK' /\ Alone' /\ OffOutsideInsert' /\ ModesOK'
<1>0. /\ IInv /\ TypeOK /\ NvimTypeOK /\ Alone
      /\ OffOutsideInsert /\ ModesOK /\ Nvim \in Clients
  BY NvimAssumption DEF NInv, IInv
<1>1. /\ wire # <<>> /\ wire' = Tail(wire) /\ Handle(Head(wire))
      /\ UNCHANGED <<mode, return_mode, leave_timer, leave_due, startup_timer,
                     pending_messages, disturbed, chosen>>
      /\ untimely' = (untimely \/ RestoreOvertakesSet)
  BY DEF Deliver, timers
<1>2. /\ wire \in Seq(Messages) /\ pending_messages \in Seq(Messages)
      /\ untimely \in BOOLEAN
  BY <1>0 DEF NvimTypeOK
<1>3. /\ Coming # <<>> /\ Head(Coming) = Head(wire) /\ Coming' = Tail(Coming)
  <2>1. /\ wire \o pending_messages # <<>>
        /\ Head(wire \o pending_messages) = Head(wire)
        /\ Tail(wire \o pending_messages) = Tail(wire) \o pending_messages
    BY <1>1, <1>2
  <2> QED BY <1>1, <2>1 DEF Coming
<1>4. PICK m \in Messages : m = Head(wire)
  BY <1>1, <1>2, HeadTailProperties
<1>5. Handle(m) BY <1>1, <1>4
<1>6. /\ UNCHANGED <<batch, current, ascii_mode>>
      /\ active_client' \in {NoClient, Nvim}
      /\ m # "activate" /\ active_client = NoClient => active_client' = NoClient
      /\ m = "deactivate" => active_client' = NoClient
      /\ DepthNow(Nvim)' = DepthNow(Nvim)
      /\ DepthNow(Nvim) # 0 =>
           client_states'[Nvim].base = client_states[Nvim].base
  BY <1>5, HandleKeeps
<1>7. NvimTypeOK'
  <2>1. untimely' \in BOOLEAN BY <1>1, <1>2
  <2>2. wire' \in Seq(Messages) BY <1>1, <1>2, HeadTailProperties
  <2> QED BY <1>0, <1>1, <2>1, <2>2 DEF NvimTypeOK
<1>8. Alone' BY <1>0, <1>6 DEF Alone
<1>9. OffOutsideInsert'
  BY <1>0, <1>1, <1>3, <1>4, <1>6, ReadStaysOff DEF OffOutsideInsert
<1>10. ModesOK'
  <2> SUFFICES ASSUME Live' PROVE ModesOK'
    BY DEF ModesOK
  <2>1. Live BY <1>1 DEF Live
  <2>2. /\ Todo \in Seq(OnlyAscii) /\ Coming \in Seq(OnlyModes)
        /\ Nesting <= Least
        /\ ~untimely => Most <= Nesting /\ Home /\ TimelyTimers
    BY <1>0, <2>1 DEF ModesOK
  <2>3. m \in OnlyModes /\ Coming' \in Seq(OnlyModes)
    BY <1>3, <1>4, <2>2, HeadTailProperties
  <2>4. /\ Queues(m) => Todo' = Append(Todo, AskOf(m))
        /\ ~Queues(m) => Todo' = Todo
    BY <1>5, <2>3, HandleQueues
  <2>5. Todo' \in Seq(OnlyAscii)
    <3>1. AskOf(m) \in OnlyAscii BY <2>3, AskOfOK
    <3> QED BY <2>2, <2>4, <3>1, AppendProperties
  <2>6. /\ Todo \in Seq(PendingAction) /\ Coming \in Seq(Messages)
        /\ DepthNow(Nvim) \in Nat /\ Sure \in Nat /\ Sure <= DepthNow(Nvim)
        /\ Least \in Nat /\ Most \in Nat
    BY <1>0, DepthsAhead
  <2>7. Sure' = Sure BY <1>6 DEF Sure
  <2>8. (Home' <=> Home) /\ Nesting' = Nesting /\ (TimelyTimers' <=> TimelyTimers)
    BY <1>1, <1>6 DEF Home, Nesting, AtNormal, FromInsert, TimelyTimers
  <2>9. /\ Least' = Added(DepthAfterAll(Nvim, Sure, Todo'), Tail(Coming))
        /\ Most' = Added(DepthAfterAll(Nvim, DepthNow(Nvim), Todo'), Tail(Coming))
    BY <1>3, <1>6, <2>7 DEF Least, Most, DepthAhead
  <2>10. Tail(Coming) \in Seq(Messages) BY <1>3, <2>6, HeadTailProperties
  <2>11. ASSUME NEW d \in Nat
         PROVE  /\ DepthAfterAll(Nvim, d, Todo) \in Nat
                /\ DepthAhead(d)
                     = Added(Effect(DepthAfterAll(Nvim, d, Todo), m), Tail(Coming))
                /\ Queues(m) => DepthAfterAll(Nvim, d, Todo')
                                = Effect(DepthAfterAll(Nvim, d, Todo), m)
    <3>1. DepthAfterAll(Nvim, d, Todo) \in Nat BY <2>6, DepthAfterAllNat
    <3>2. DepthAhead(d)
            = Added(Effect(DepthAfterAll(Nvim, d, Todo), m), Tail(Coming))
      BY <1>3, <1>4, <2>6, AddedFirst DEF DepthAhead
    <3>3. AskOf(m) \in PendingAction BY AskOfOK
    <3>4. DepthAfterAll(Nvim, d, Append(Todo, AskOf(m)))
            = Effect(DepthAfterAll(Nvim, d, Todo), m)
      BY <2>6, <3>3, DepthOfPushed DEF Effect
    <3> QED BY <2>4, <3>1, <3>2, <3>4
  <2> DEFINE x == DepthAfterAll(Nvim, Sure, Todo)
             y == DepthAfterAll(Nvim, DepthNow(Nvim), Todo)
  <2>12. /\ x \in Nat /\ y \in Nat
         /\ Least = Added(Effect(x, m), Tail(Coming))
         /\ Most = Added(Effect(y, m), Tail(Coming))
         /\ Queues(m) => /\ Least' = Added(Effect(x, m), Tail(Coming))
                         /\ Most' = Added(Effect(y, m), Tail(Coming))
         /\ ~Queues(m) => /\ Least' = Added(x, Tail(Coming))
                          /\ Most' = Added(y, Tail(Coming))
    BY <2>4, <2>6, <2>9, <2>11 DEF Least, Most
  <2>13. /\ Effect(x, m) \in Nat
         /\ ~Queues(m) => Effect(x, m) <= x
    <3> HIDE DEF x, y
    <3>1. /\ m = "set" => Effect(x, m) = x + 1
          /\ m = "restore" => Effect(x, m) = IF x = 0 THEN 0 ELSE x - 1
          /\ m \notin {"set", "restore"} => Effect(x, m) = x
      BY <2>3, <2>12, EffectOf
    <3> QED BY <2>12, <3>1 DEF Queues
  <2>14. Least <= Least'
    <3>1. CASE Queues(m) BY <2>6, <2>12, <3>1
    <3>2. CASE ~Queues(m) BY <2>10, <2>12, <2>13, <3>2, AddedMonotone
    <3> QED BY <3>1, <3>2
  <2>15. ASSUME ~untimely' PROVE Most' = Most
    <3>1. CASE Queues(m) BY <2>12, <3>1
    <3>2. CASE ~Queues(m) /\ m # "restore"
      BY <2>3, <2>12, <3>2, EffectOf DEF Queues
    <3>3. CASE ~Queues(m) /\ m = "restore"
      <4>1. ~CycleOpen(Nvim) /\ ~RestoreOvertakesSet
        BY <1>1, <1>2, <2>15, <3>3 DEF Queues
      <4>2. \A i \in DOMAIN Todo : ~(Todo[i].type = "kSet" /\ Todo[i].stack)
        BY <1>4, <3>3, <4>1 DEF RestoreOvertakesSet
      <4>3. \A i \in 1 .. Len(Todo) : Todo[i] \in Unnested
        BY <2>6, <4>2, ElementOfSeq DEF Unnested
      <4>4. Todo \in Seq(Unnested) BY <2>6, <4>3
      <4>5. DepthNow(Nvim) = 0 BY <2>6, <4>1 DEF CycleOpen, DepthNow
      <4>6. y = 0 BY <4>4, <4>5, NoDepth
      <4>7. Effect(y, m) = y BY <2>3, <2>12, <3>3, <4>6, EffectOf
      <4> QED BY <2>12, <3>3, <4>7
    <3> QED BY <3>1, <3>2, <3>3
  <2>16. Least' \in Nat
    BY <2>10, <2>12, <2>13, AddedNat
  <2>17. Nesting \in Nat BY DEF Nesting, AtNormal
  <2>18. Nesting' <= Least'
    BY <2>2, <2>6, <2>8, <2>14, <2>16, <2>17
  <2>19. ASSUME ~untimely'
         PROVE  Most' <= Nesting' /\ Home' /\ TimelyTimers'
    <3>1. ~untimely BY <1>1, <1>2, <2>19
    <3> QED BY <2>2, <2>8, <2>15, <2>19, <3>1
  <2> QED BY <2>3, <2>5, <2>18, <2>19 DEF ModesOK
<1> QED BY <1>7, <1>8, <1>9, <1>10

\* Applying an action of Neovim counts it, and keeps the user's mode.
LEMMA ApplyCounts ==
    ASSUME NInv, Live, ApplyAction, UNCHANGED chosen
    PROVE  LET a == Head(batch)
           IN  /\ a \in OnlyAscii
               /\ DepthNow(Nvim)' = DepthAfter(Nvim, DepthNow(Nvim), a)
               /\ Sure' \in Nat /\ DepthAfter(Nvim, Sure, a) <= Sure'
               /\ Home /\ ~PlainBeforeSet => Home'
<1> DEFINE a == Head(batch)
<1>0. /\ IInv /\ TypeOK /\ BaseIffDepth /\ Nvim \in Clients
      /\ Session \in Sessions
  BY NvimAssumption DEF NInv, IInv
<1>1. PICK type : Applying(type)
  BY DEF ApplyAction, ApplySet, ApplyRestore, ApplyReset, ApplyUnregister
<1>2. current = Session /\ batch # <<>> /\ a.type = type
  <2>1. current \in Sessions BY <1>0, <1>1, ApplyingOK
  <2> QED BY <1>1, <2>1, NamesAssumption DEF NInv, Alone, Applying
<1>3. a \in OnlyAscii
  <2>1. Todo # <<>> /\ Head(Todo) = a BY <1>0, <1>1, QueueServe
  <2>2. Todo \in Seq(OnlyAscii) BY DEF NInv, ModesOK
  <2> QED BY <2>1, <2>2, HeadTailProperties
<1> DEFINE d   == DepthNow(Nvim)
           now == ascii_mode[Session]
           st  == StateOf(Nvim)
<1>4. /\ a.client = Nvim /\ a.ascii = TRUE /\ a.stack \in BOOLEAN
      /\ a.type \in {"kSet", "kRestore"}
  BY <1>3 DEF OnlyAscii, PendingAction
<1>5. /\ d \in Nat /\ now \in BOOLEAN /\ st \in ClientState /\ st.depth = d
      /\ d # 0 => client_states[Nvim] = st /\ st.has_base
  <2>1. d \in Nat BY <1>0, DepthsAreNat
  <2>2. now \in BOOLEAN BY <1>0 DEF TypeOK
  <2>3. st \in ClientState BY <1>0, StateOfOK
  <2>4. st.depth = d BY <1>0, DepthOf
  <2>5. d # 0 => Known(Nvim) BY DEF DepthNow
  <2>6. Known(Nvim) => client_states[Nvim] = st BY DEF StateOf
  <2>7. Known(Nvim) => (client_states[Nvim].has_base
                          <=> client_states[Nvim].depth > 0)
    BY <1>0 DEF BaseIffDepth
  <2>8. d # 0 => st.has_base
    <3> HIDE DEF d, st
    <3> QED BY <2>1, <2>4, <2>5, <2>6, <2>7
  <2> QED BY <2>1, <2>2, <2>3, <2>4, <2>5, <2>6, <2>8
\* What a step makes of the entry of Neovim and of the mode.
<1>6. ASSUME NEW new \in ClientState, NEW then \in BOOLEAN,
             client_states' = [client_states EXCEPT ![Nvim] = new],
             ascii_mode' = [ascii_mode EXCEPT ![Session] = then]
      PROVE  /\ DepthNow(Nvim)' = new.depth
             /\ Sure' = IF then THEN new.depth ELSE 0
             /\ Home' <=> IF new.depth = 0 THEN then = chosen
                                           ELSE new.base = chosen
  <2>1. new # NoState BY NamesAssumption
  <2>2. DepthNow(Nvim)' = new.depth BY <1>0, <1>6, <2>1, DepthOfEntry
  <2>3. client_states'[Nvim] = new /\ ascii_mode'[Session] = then
    BY <1>0, <1>6 DEF TypeOK
  <2> QED BY <2>2, <2>3 DEF Sure, Home
<1>7. /\ Sure = IF now THEN d ELSE 0
      /\ Home <=> IF d = 0 THEN now = chosen ELSE st.base = chosen
  BY <1>5 DEF Sure, Home
<1>8. CASE ApplySet
  <2> DEFINE new == AfterSet(st, a.stack, now)
  <2>1. a.type = "kSet" BY <1>1, <1>8 DEF ApplySet, Applying
  <2>2. new \in ClientState BY <1>4, <1>5, AfterSetOK
  <2>3. /\ client_states' = [client_states EXCEPT ![Nvim] = new]
        /\ ascii_mode' = [ascii_mode EXCEPT ![Session] = TRUE]
    BY <1>2, <1>4, <1>8 DEF ApplySet, SetOption
  <2>4. /\ new.depth = IF a.stack THEN d + 1 ELSE d
        /\ new.base = IF a.stack /\ d = 0 THEN now ELSE st.base
    <3> HIDE DEF st, d, now
    <3> QED BY <1>5 DEF AfterSet, ClientState
  <2>5. ~PlainBeforeSet => a.stack \/ d # 0
    BY <1>2, <1>4, <1>5, <2>1 DEF PlainBeforeSet, CycleOpen, DepthNow
  <2>6. /\ DepthNow(Nvim)' = new.depth /\ Sure' = new.depth
        /\ Home' <=> IF new.depth = 0 THEN TRUE = chosen ELSE new.base = chosen
    BY <1>6, <2>2, <2>3
  <2>7. /\ DepthAfter(Nvim, d, a) = IF a.stack THEN d + 1 ELSE d
        /\ DepthAfter(Nvim, Sure, a) = IF a.stack THEN Sure + 1 ELSE Sure
    <3> HIDE DEF a, d
    <3> QED BY <1>4, <2>1 DEF DepthAfter
  <2> HIDE DEF a, d, now, st, new
  <2>8. Home /\ ~PlainBeforeSet => Home'
    BY <1>5, <1>7, <2>4, <2>5, <2>6
  <2> QED BY <1>3, <1>4, <1>5, <1>7, <2>4, <2>6, <2>7, <2>8 DEF a, d
<1>9. CASE ApplyRestore
  <2>1. a.type = "kRestore" BY <1>1, <1>9 DEF ApplyRestore, Applying
  <2>2. /\ DepthAfter(Nvim, d, a) = IF d = 0 THEN 0 ELSE d - 1
        /\ DepthAfter(Nvim, Sure, a) = IF Sure = 0 THEN 0 ELSE Sure - 1
    <3> HIDE DEF a, d
    <3> QED BY <1>4, <2>1 DEF DepthAfter
  <2>3. CASE d # 0
    <3> DEFINE new  == AfterRestore(st)
               then == IF d = 1 THEN st.base ELSE now
    <3>1. RestoreApplies(Nvim) /\ client_states[Nvim] = st
      BY <1>5, <2>3 DEF RestoreApplies, DepthNow, Known
    <3>2. new \in ClientState BY <1>5, <2>3, AfterRestoreOK
    <3>3. ClosesCycle(st) <=> d = 1 BY <1>5 DEF ClosesCycle
    <3>4. client_states' = [client_states EXCEPT ![Nvim] = new]
      BY <1>4, <1>9, <3>1 DEF ApplyRestore
    <3>5. ascii_mode' = [ascii_mode EXCEPT ![Session] = then]
      <4>1. ascii_mode = [ascii_mode EXCEPT ![Session] = now]
        BY <1>0 DEF TypeOK
      <4>2. IF ClosesCycle(st) THEN SetOption(st.base) ELSE UNCHANGED ascii_mode
        BY <1>4, <1>9, <3>1 DEF ApplyRestore
      <4> QED BY <1>2, <3>3, <4>1, <4>2 DEF SetOption
    <3>6. new.depth = d - 1 /\ new.base = st.base
      <4> HIDE DEF st, d
      <4> QED BY <1>5 DEF AfterRestore, ClientState
    <3>7. then \in BOOLEAN BY <1>5 DEF ClientState
    <3> HIDE DEF a, d, now, new, then
    <3>8. /\ DepthNow(Nvim)' = new.depth /\ Sure' = IF then THEN new.depth ELSE 0
          /\ Home' <=> IF new.depth = 0 THEN then = chosen ELSE new.base = chosen
      BY <1>6, <3>2, <3>4, <3>5, <3>7
    <3>9. Home => Home'
      <4> HIDE DEF st
      <4> QED BY <1>5, <1>7, <2>3, <3>6, <3>8 DEF then
    <3>10. Sure' \in Nat /\ DepthAfter(Nvim, Sure, a) <= Sure'
      <4> HIDE DEF st
      <4> QED BY <1>5, <1>7, <2>2, <2>3, <3>6, <3>8 DEF then
    <3>11. DepthNow(Nvim)' = DepthAfter(Nvim, d, a)
      <4> HIDE DEF st
      <4> QED BY <2>2, <2>3, <3>6, <3>8
    <3> QED BY <1>3, <3>9, <3>10, <3>11 DEF a, d
  <2>4. CASE d = 0
    <3>1. ~RestoreApplies(Nvim) BY <1>5, <2>4 DEF RestoreApplies, DepthNow
    <3>2. UNCHANGED <<client_states, ascii_mode>>
      BY <1>4, <1>9, <3>1 DEF ApplyRestore
    <3>3. /\ DepthNow(Nvim)' = d /\ Sure' = Sure /\ (Home' <=> Home)
      BY <3>2 DEF DepthNow, Known, Sure, Home
    <3>4. Sure = 0 BY <1>7, <2>4
    <3> HIDE DEF a, d
    <3>5. /\ DepthNow(Nvim)' = DepthAfter(Nvim, d, a)
          /\ Sure' \in Nat /\ DepthAfter(Nvim, Sure, a) <= Sure'
      BY <2>2, <2>4, <3>3, <3>4
    <3> QED BY <1>3, <3>3, <3>5 DEF a, d
  <2> QED BY <2>3, <2>4
<1>10. ~ApplyReset /\ ~ApplyUnregister
  BY <1>4 DEF ApplyReset, ApplyUnregister, Applying
<1> QED BY <1>8, <1>9, <1>10 DEF ApplyAction

LEMMA ProcessOK ==
    ASSUME NInv, RimeThreadN
    PROVE  NvimTypeOK' /\ Alone' /\ OffOutsideInsert' /\ ModesOK'
<1>0. /\ IInv /\ TypeOK /\ NvimTypeOK /\ Alone
      /\ OffOutsideInsert /\ ModesOK /\ Nvim \in Clients
  BY NvimAssumption DEF NInv, IInv
<1>1. /\ RimeThread /\ UNCHANGED chosen
      /\ UNCHANGED <<mode, return_mode, leave_timer, leave_due, startup_timer,
                     pending_messages, wire, disturbed>>
      /\ untimely' = (untimely \/ PlainBeforeSet)
      /\ untimely \in BOOLEAN
  BY <1>0 DEF RimeThreadN, nvimVars, timers, channel, NvimTypeOK
<1>2. UNCHANGED active_client /\ current' \in {current, NoSession}
  BY <1>1
  DEF RimeThread, FinishProcess, ApplyAction, ApplySet, ApplyRestore,
      ApplyReset, ApplyUnregister, Applying
<1>3. NvimTypeOK' BY <1>0, <1>1 DEF NvimTypeOK
<1>4. Alone' BY <1>0, <1>2 DEF Alone
<1>5. Coming' = Coming BY <1>1 DEF Coming
<1>6. OffOutsideInsert'
  BY <1>0, <1>1, <1>2, <1>5 DEF OffOutsideInsert, SwitchedOff, OffAt
<1>7. ModesOK'
  <2> SUFFICES ASSUME Live' PROVE ModesOK'
    BY DEF ModesOK
  <2>1. Live BY <1>1 DEF Live
  <2>2. /\ Todo \in Seq(OnlyAscii) /\ Coming \in Seq(OnlyModes)
        /\ Nesting <= Least
        /\ ~untimely => Most <= Nesting /\ Home /\ TimelyTimers
    BY <1>0, <2>1 DEF ModesOK
  <2>3. Nesting' = Nesting /\ (TimelyTimers' <=> TimelyTimers) /\ Nesting \in Nat
    BY <1>1 DEF Nesting, AtNormal, FromInsert, TimelyTimers
  <2>4. /\ Todo \in Seq(PendingAction) /\ Coming \in Seq(Messages)
        /\ DepthNow(Nvim) \in Nat /\ Sure \in Nat /\ Sure <= DepthNow(Nvim)
        /\ Least \in Nat /\ Most \in Nat
    BY <1>0, DepthsAhead
  <2>5. CASE FinishProcess
    <3>1. UNCHANGED <<client_states, ascii_mode>> /\ Todo' = Todo
      BY <2>5 DEF FinishProcess, Todo
    <3>2. /\ Sure' = Sure /\ DepthNow(Nvim)' = DepthNow(Nvim)
          /\ (Home' <=> Home)
      BY <1>1, <3>1 DEF Sure, DepthNow, Known, Home
    <3>3. Least' = Least /\ Most' = Most
      BY <1>5, <3>1, <3>2 DEF Least, Most, DepthAhead
    <3>4. ~untimely' => ~untimely BY <1>1
    <3> QED BY <1>5, <2>2, <2>3, <3>1, <3>2, <3>3, <3>4 DEF ModesOK
  <2>6. CASE ApplyAction
    <3> DEFINE a == Head(batch)
               rest == Tail(Todo)
    <3>1. /\ DepthNow(Nvim)' = DepthAfter(Nvim, DepthNow(Nvim), a)
          /\ Sure' \in Nat /\ DepthAfter(Nvim, Sure, a) <= Sure'
          /\ Home /\ ~PlainBeforeSet => Home'
      BY <1>1, <2>1, <2>6, ApplyCounts
    <3>2. Todo # <<>> /\ Head(Todo) = a /\ Todo' = rest
      <4>1. PICK type : Applying(type)
        BY <2>6
        DEF ApplyAction, ApplySet, ApplyRestore, ApplyReset, ApplyUnregister
      <4> QED BY <1>0, <4>1, QueueServe
    <3>3. rest \in Seq(OnlyAscii) /\ rest \in Seq(PendingAction)
          /\ a \in PendingAction
      BY <2>2, <2>4, <3>2, HeadTailProperties
    <3>4. \A d : DepthAfterAll(Nvim, d, Todo)
                   = DepthAfterAll(Nvim, DepthAfter(Nvim, d, a), rest)
      BY <2>4, <3>2, DepthOfServed
    <3>5. DepthAfter(Nvim, Sure, a) \in Nat BY <2>4, <3>3, DepthAfterNat
    <3> DEFINE x == DepthAfterAll(Nvim, DepthAfter(Nvim, Sure, a), rest)
               y == DepthAfterAll(Nvim, Sure', rest)
    <3>6. x \in Nat /\ y \in Nat /\ x <= y
      BY <3>1, <3>3, <3>5, DepthMonotone, DepthAfterAllNat
    <3>7. Least = Added(x, Coming) BY <3>4 DEF Least, DepthAhead
    <3>8. Least' = Added(y, Coming) BY <1>5, <3>2 DEF Least, DepthAhead
    <3>9. Most' = Most BY <1>5, <3>1, <3>2, <3>4 DEF Most, DepthAhead
    <3> HIDE DEF x, y
    <3>10. Least <= Least' /\ Least' \in Nat
      BY <2>4, <3>6, <3>7, <3>8, AddedMonotone, AddedNat
    <3>11. Nesting' <= Least' BY <2>2, <2>3, <2>4, <3>10
    <3>12. ASSUME ~untimely'
           PROVE  Most' <= Nesting' /\ Home' /\ TimelyTimers'
      <4>1. ~untimely /\ ~PlainBeforeSet BY <1>1, <3>12
      <4> QED BY <2>2, <2>3, <3>1, <3>9, <4>1
    <3>13. Todo' \in Seq(OnlyAscii) BY <3>2, <3>3
    <3>14. Coming' \in Seq(OnlyModes) BY <1>5, <2>2
    <3> QED BY <3>11, <3>12, <3>13, <3>14 DEF ModesOK
  <2> QED BY <1>1, <2>5, <2>6 DEF RimeThread
<1> QED BY <1>3, <1>4, <1>6, <1>7

\* A key event moves the queue, and leaves what is ahead.
LEMMA TakeOK ==
    ASSUME NInv, \/ KeyEvent \/ UNCHANGED allVars
    PROVE  NvimTypeOK' /\ Alone' /\ OffOutsideInsert' /\ ModesOK'
<1>0. /\ IInv /\ TypeOK /\ NvimTypeOK /\ Alone
      /\ OffOutsideInsert /\ ModesOK
  BY DEF NInv, IInv
<1>1. /\ UNCHANGED <<mode, return_mode, leave_timer, leave_due, startup_timer,
                     pending_messages, wire, disturbed, chosen, untimely>>
      /\ UNCHANGED <<client_states, active_client, ascii_mode>>
      /\ current' \in {current, Session}
  BY DEF KeyEvent, TakePendingActions, allVars, vars, nvimVars, timers, channel,
         historyN
<1>2. Todo' = Todo
  <2>1. CASE KeyEvent
    <3>1. batch = <<>>
      BY <1>0, <2>1, NamesAssumption DEF KeyEvent, TakePendingActions, TypeOK
    <3> QED BY <1>0, <2>1, <3>1, QueueTake DEF KeyEvent, TakePendingActions
  <2>2. CASE UNCHANGED allVars BY <2>2 DEF allVars, vars, Todo
  <2> QED BY <2>1, <2>2
<1>3. Coming' = Coming BY <1>1 DEF Coming
<1>4. NvimTypeOK' BY <1>0, <1>1 DEF NvimTypeOK
<1>5. Alone' BY <1>0, <1>1 DEF Alone
<1>6. OffOutsideInsert'
  BY <1>0, <1>1, <1>3 DEF OffOutsideInsert, SwitchedOff, OffAt
<1>7. /\ Sure' = Sure /\ DepthNow(Nvim)' = DepthNow(Nvim) /\ (Home' <=> Home)
      /\ Nesting' = Nesting /\ (TimelyTimers' <=> TimelyTimers)
      /\ (Live' <=> Live)
  BY <1>1
  DEF Sure, DepthNow, Known, Home, Nesting, AtNormal, FromInsert, TimelyTimers,
      Live
<1>8. Least' = Least /\ Most' = Most
  BY <1>2, <1>3, <1>7 DEF Least, Most, DepthAhead
<1>9. ModesOK' BY <1>0, <1>1, <1>2, <1>3, <1>7, <1>8 DEF ModesOK
<1> QED BY <1>4, <1>5, <1>6, <1>9

\* With nothing on its way, what is ahead is what is there.
LEMMA QuietAhead ==
    ASSUME NInv, Quiet
    PROVE  /\ Coming = <<>> /\ Least = Sure /\ Most = DepthNow(Nvim)
           /\ ~leave_timer /\ ~leave_due /\ ~startup_timer
<1>1. /\ wire = <<>> /\ pending_messages = <<>> /\ Todo = <<>>
      /\ TRUE \notin {leave_timer, leave_due, startup_timer, context_timer}
  BY DEF Quiet, Settled
<1>2. wire \in Seq(Messages) BY DEF NInv, NvimTypeOK
<1>3. Coming = wire BY <1>1, <1>2, ConcatEmptySeq DEF Coming
<1>4. \A d : DepthAhead(d) = d
  <2>1. \A d : DepthAfterAll(Nvim, d, Todo) = d BY <1>1, DepthOfNothing
  <2>2. \A d : Added(d, Coming) = d BY <1>1, <1>3, AddedNothing
  <2> QED BY <2>1, <2>2 DEF DepthAhead
<1> QED BY <1>1, <1>3, <1>4 DEF Least, Most, NInv, NvimTypeOK

\* The user chooses while inserting, when no set is left.
LEMMA ChoiceOK ==
    ASSUME NInv, UserChooses
    PROVE  NvimTypeOK' /\ Alone' /\ OffOutsideInsert' /\ ModesOK'
<1>0. /\ IInv /\ TypeOK /\ NvimTypeOK /\ Alone
      /\ OffOutsideInsert /\ ModesOK
  BY DEF NInv, IInv
<1>1. /\ UNCHANGED <<mode, return_mode, leave_timer, leave_due, startup_timer,
                     pending_messages, wire, disturbed, untimely>>
      /\ UNCHANGED <<client_states, active_client, current, batch,
                     pending_actions>>
      /\ mode = "i" /\ Quiet /\ chosen' = ascii_mode'[Session]
  BY DEF UserChooses, UserToggle, nvimVars, timers, channel
<1>2. Todo' = Todo /\ Coming' = Coming BY <1>1 DEF Todo, Coming
<1>3. NvimTypeOK' BY <1>0, <1>1 DEF NvimTypeOK
<1>4. Alone' BY <1>0, <1>1 DEF Alone
<1>5. OffOutsideInsert' BY <1>1 DEF OffOutsideInsert
<1>6. ModesOK'
  <2> SUFFICES ASSUME Live' PROVE ModesOK'
    BY DEF ModesOK
  <2>1. Live BY <1>1 DEF Live
  <2>2. /\ Todo \in Seq(OnlyAscii) /\ Coming \in Seq(OnlyModes)
        /\ Nesting <= Least
        /\ ~untimely => Most <= Nesting /\ Home /\ TimelyTimers
    BY <1>0, <2>1 DEF ModesOK
  <2>3. /\ Nesting = 0 /\ Nesting' = 0 /\ (TimelyTimers' <=> TimelyTimers)
    BY <1>1 DEF Nesting, AtNormal, FromInsert, TimelyTimers
  <2>4. Most = DepthNow(Nvim) /\ Coming = <<>> /\ Todo = <<>>
    BY <1>1, QuietAhead DEF Quiet
  <2>5. DepthNow(Nvim)' = DepthNow(Nvim) BY <1>1 DEF DepthNow, Known
  <2>6. Most' = Most BY <1>2, <2>5 DEF Most, DepthAhead
  <2>7. Least' \in Nat
    <3>1. Sure' \in Nat
      BY <1>0, <2>5, DepthsAhead DEF Sure
    <3>2. \A d : DepthAhead(d)' = d
      <4>1. \A d : DepthAfterAll(Nvim, d, Todo') = d
        BY <1>2, <2>4, DepthOfNothing
      <4>2. \A d : Added(d, Coming') = d BY <1>2, <2>4, AddedNothing
      <4> QED BY <4>1, <4>2 DEF DepthAhead
    <3> QED BY <3>1, <3>2 DEF Least
  <2>8. ASSUME ~untimely'
        PROVE  Most' <= Nesting' /\ Home' /\ TimelyTimers'
    <3>1. Most <= 0 /\ TimelyTimers BY <1>1, <2>2, <2>3, <2>8
    <3>2. DepthNow(Nvim) = 0 BY <1>0, <2>4, <3>1, DepthsAhead
    <3>3. Home' BY <1>1, <2>5, <3>2 DEF Home
    <3> QED BY <2>3, <2>6, <3>1, <3>3
  <2>9. Nesting' <= Least' BY <2>3, <2>7
  <2> QED BY <1>2, <2>2, <2>8, <2>9 DEF ModesOK
<1> QED BY <1>3, <1>4, <1>5, <1>6

\* Each of these steps is a step of the bridge or leaves it alone.
LEMMA StepN == NInv /\ [NNext]_allVars => [Next]_vars
<1> SUFFICES ASSUME NInv, [NNext]_allVars PROVE [Next]_vars
  OBVIOUS
<1>0. Nvim \in Clients /\ Session \in Sessions BY NvimAssumption
<1>1. CASE Neovim \/ UNCHANGED allVars BY <1>1 DEF Neovim, allVars
<1>2. CASE Deliver
  <2>1. Head(wire) \in Messages
    BY <1>2, HeadTailProperties DEF Deliver, NInv, NvimTypeOK
  <2>2. ProcessMessage(Nvim) BY <1>2, <2>1, HandleKeeps DEF Deliver
  <2> QED BY <1>0, <2>2 DEF Next
<1>3. CASE KeyEvent BY <1>0, <1>3 DEF KeyEvent, Next
<1>4. CASE RimeThreadN BY <1>4 DEF RimeThreadN, Next
<1>5. CASE UserChooses BY <1>0, <1>5 DEF UserChooses, Next
<1> QED BY <1>1, <1>2, <1>3, <1>4, <1>5 DEF NNext

LEMMA InductiveN == NInv /\ [NNext]_allVars => NInv'
<1> SUFFICES ASSUME NInv, [NNext]_allVars PROVE NInv'
  OBVIOUS
<1>1. IInv' BY StepN, Inductive DEF NInv
<1>2. CASE Neovim
  <2>1. Alone' BY <1>2 DEF Neovim, vars, Alone, NInv
  <2> QED BY <1>1, <1>2, <2>1, EditorOK DEF NInv
<1>3. CASE Deliver BY <1>1, <1>3, DeliverOK DEF NInv
<1>4. CASE KeyEvent \/ UNCHANGED allVars BY <1>1, <1>4, TakeOK DEF NInv
<1>5. CASE RimeThreadN BY <1>1, <1>5, ProcessOK DEF NInv
<1>6. CASE UserChooses BY <1>1, <1>6, ChoiceOK DEF NInv
<1> QED BY <1>2, <1>3, <1>4, <1>5, <1>6 DEF NNext

LEMMA InitiallyN == NInit => NInv
<1> SUFFICES ASSUME NInit PROVE NInv
  OBVIOUS
<1>0. /\ Init /\ NvimInit /\ IInv /\ Nvim \in Clients
      /\ chosen = ascii_mode[Session] /\ untimely = FALSE
  BY Initially, NvimAssumption DEF NInit
<1>1. \A S : <<>> \in Seq(S) BY EmptySeq
<1>2. NvimTypeOK BY <1>0, <1>1 DEF NvimInit, NvimTypeOK, Modes
<1>3. Alone BY <1>0 DEF Init, Alone
<1>4. <<>> \o <<>> = <<>>
  <2>1. <<>> \in Seq({}) BY <1>1
  <2> QED BY <2>1, ConcatEmptySeq, Zenon
<1>5. Coming = <<>> /\ Todo = <<>>
  BY <1>0, <1>4 DEF Init, NvimInit, Coming, Todo
<1>6. OffOutsideInsert
  <2>1. Len(Coming) = 0 BY <1>5
  <2>2. OffAt(0) BY <1>0 DEF Init, OffAt
  <2> QED BY <2>1, <2>2 DEF OffOutsideInsert, SwitchedOff
<1>7. ModesOK
  <2>1. Todo \in Seq(OnlyAscii) /\ Coming \in Seq(OnlyModes)
    BY <1>1, <1>5
  <2>2. DepthNow(Nvim) = 0 BY <1>0 DEF Init, DepthNow, Known
  <2>3. Sure = 0 BY <2>2 DEF Sure
  <2>4. \A d : DepthAhead(d) = d
    <3>1. \A d : DepthAfterAll(Nvim, d, Todo) = d BY <1>5, DepthOfNothing
    <3>2. \A d : Added(d, Coming) = d BY <1>5, AddedNothing
    <3> QED BY <3>1, <3>2 DEF DepthAhead
  <2>5. Least = 0 /\ Most = 0 BY <2>2, <2>3, <2>4 DEF Least, Most
  <2>6. Nesting = 0 BY <1>0 DEF NvimInit, Nesting, FromInsert, AtNormal
  <2>7. Home BY <1>0, <2>2 DEF Home
  <2>8. TimelyTimers BY <1>0 DEF NvimInit, TimelyTimers, FromInsert
  <2> QED BY <2>1, <2>5, <2>6, <2>7, <2>8 DEF ModesOK
<1> QED BY <1>0, <1>2, <1>3, <1>6, <1>7 DEF NInv

-----------------------------------------------------------------------------
LEMMA AsciiInNormal == NInv => NormalIsAscii
<1> SUFFICES ASSUME NInv, Quiet, ~disturbed, mode \in {"n", "v", "c"}
             PROVE  ascii_mode[Session]
  BY DEF NormalIsAscii
<1>1. Nesting <= Least BY DEF NInv, ModesOK, Live
<1>2. Nesting >= 1 /\ Nesting \in Nat
  BY QuietAhead DEF Nesting, AtNormal
<1>3. Sure # 0
  <2>1. Least = Sure /\ Sure \in Nat BY QuietAhead, DepthsAhead DEF NInv
  <2> QED BY <1>1, <1>2, <2>1
<1> QED BY <1>3 DEF Sure

LEMMA NoTextOutside == NInv => NoTextOutsideInsert
<1> SUFFICES ASSUME NInv, Quiet, ~disturbed, mode # "i"
             PROVE  GetActiveContext = NoText
  BY DEF NoTextOutsideInsert
<1>1. Coming = <<>> /\ ~leave_timer /\ ~leave_due BY QuietAhead
<1>2. SwitchedOff BY <1>1 DEF NInv, OffOutsideInsert
<1>3. Len(Coming) = 0 BY <1>1
<1>4. active_client = NoClient BY <1>2, <1>3 DEF SwitchedOff, OffAt
<1> QED BY <1>4 DEF GetActiveContext

LEMMA ChoiceInInsert == NInv => InsertRestoresPrevious
<1> SUFFICES ASSUME NInv, Quiet, ~disturbed, ~untimely, mode = "i"
             PROVE  ascii_mode[Session] = chosen
  BY DEF InsertRestoresPrevious
<1>1. Most <= Nesting /\ Home BY DEF NInv, ModesOK, Live
<1>2. Nesting = 0 BY DEF Nesting, FromInsert
<1>3. Most = DepthNow(Nvim) /\ DepthNow(Nvim) \in Nat
  BY QuietAhead, DepthsAhead DEF NInv
<1>4. DepthNow(Nvim) = 0 BY <1>1, <1>2, <1>3
<1> QED BY <1>1, <1>4 DEF Home

\* In normal, visual and command mode rime is in ascii mode once everything has
\* arrived, however many restores were dropped on the way.
THEOREM AsciiOutsideInsert == SpecN => []NormalIsAscii
BY InitiallyN, InductiveN, AsciiInNormal, PTL DEF SpecN

\* Outside insert mode the copilot gets no text of this editor.
THEOREM TextOnlyInInsert == SpecN => []NoTextOutsideInsert
BY InitiallyN, InductiveN, NoTextOutside, PTL DEF SpecN

\* Back in insert mode the user finds the mode they chose, however the sets of
\* the other modes nested and however late they came.
THEOREM InsertKeepsChoice == SpecN => []InsertRestoresPrevious
BY InitiallyN, InductiveN, ChoiceInInsert, PTL DEF SpecN
=============================================================================
