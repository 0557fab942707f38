-------------------------- MODULE SearchBoxProofs --------------------------
(***************************************************************************)
(* The safety properties of the search panel hold for any sections, names  *)
(* and texts and any number of timers and files under way.  The invariant  *)
(* of the box (IInv) comes first, then that of the rows, of the focus and  *)
(* of the other variables; FullInv has them all.                           *)
(***************************************************************************)
EXTENDS SearchBoxProperties, Integers, SequenceTheorems, WellFoundedInduction, TLAPS

Boxes == [field : Texts, last : Found, active : BOOLEAN, shown : BOOLEAN]

(***************************************************************************)
(* The invariant in terms of a box b, a focus f and a key k, so that it    *)
(* can be stated of the boxes in the middle of a handler too.  PanelIn is  *)
(* PanelConsistent.  BlankIn: a text without characters was not searched   *)
(* for, or is about to be compared; KeptIn is EditsSearched while any key  *)
(* but a character's is down.                                              *)
(***************************************************************************)
PanelIn(b, f) ==
  /\ b.active => f = "field" \/ b.shown
  /\ ~b.active => /\ b.field = <<>> /\ b.last = <<>>
                  /\ f # "field"

BlankIn(b) == IsBlank(b.field) => b.last = <<>>

Remembered(b) == b.last \in {Stripped(b.field), WithoutLeading(b.field)}

BoxOK == box \in Boxes
CharacterInField == held = "Character" => focus = "field"
BlankCompared == held # "Character" => BlankIn(box)
EditsKept ==
  (box.active /\ held # "Character" /\ index \in Sections /\ ~dropped) =>
    armed \/ Remembered(box)

IInv ==
  /\ BoxOK
  /\ PanelIn(box, focus)
  /\ CharacterInField
  /\ BlankCompared
  /\ EditsKept

-----------------------------------------------------------------------------
(* Texts *)
LEMMA BlankLeavesNothing ==
  ASSUME NEW t, IsBlank(t) PROVE WithoutLeading(t) = <<>>
  BY DEF WithoutLeading

LEMMA EmptyIsBlank == IsBlank(<<>>)
  BY DEF IsBlank

LEMMA EmptyFound == <<>> \in Texts /\ <<>> \in Found
  BY IndexAssumption, EmptyIsBlank, BlankLeavesNothing DEF Found

(* Nothing is always found: in the first file. *)
LEMMA NothingNotAtOnce ==
  ASSUME NEW s, NEW b, IsBlank(b.field) PROVE ~AtOnce(b, s)
  BY BlankLeavesNothing DEF AtOnce, FilesFor

(* Sets of natural numbers have a least element, bounded ones a greatest.  *)
LEMMA LeastOf ==
  ASSUME NEW S, S \subseteq Nat, S # {}
  PROVE  Min(S) \in S /\ \A y \in S : Min(S) <= y
<1> DEFINE R == OpToRel(<, Nat)
<1>1. IsWellFoundedOn(R, Nat)
  BY NatLessThanWellFounded
<1>2. \A x, y \in Nat : <<y, x>> \in R <=> y < x
  BY DEF OpToRel
<1> HIDE DEF R
<1>3. PICK x \in S : \A y \in S : ~ (<<y, x>> \in R)
  BY <1>1, WFMin
<1>4. \A y \in S : ~ (y < x)
  BY <1>2, <1>3
<1>5. \A y \in S : x <= y
  BY <1>4
<1> QED BY <1>5 DEF Min

LEMMA GreatestOf ==
  ASSUME NEW n \in Nat, NEW S, S \subseteq 1 .. n, S # {}
  PROVE  Max(S) \in S /\ \A y \in S : y <= Max(S)
<1> DEFINE T == {n - x : x \in S}
<1>1. T \subseteq Nat /\ T # {}
  <2>1. \A x \in S : n - x \in Nat
    OBVIOUS
  <2>2. PICK x \in S : TRUE
    OBVIOUS
  <2>3. n - x \in T
    BY <2>2
  <2> QED BY <2>1, <2>3
<1>2. \A y \in S : n - y \in T
  OBVIOUS
<1>3. \A z \in T : \E x \in S : z = n - x
  OBVIOUS
<1> HIDE DEF T
<1>4. Min(T) \in T /\ \A y \in T : Min(T) <= y
  BY <1>1, LeastOf
<1>5. PICK x \in S : Min(T) = n - x
  BY <1>3, <1>4
<1>6. \A y \in S : n - x <= n - y
  BY <1>2, <1>4, <1>5
<1>7. \A y \in S : y <= x
  BY <1>6
<1> QED BY <1>7 DEF Max

(* The first and the last character of a text that is not blank. *)
LEMMA Ends ==
  ASSUME NEW t \in Seq(STRING), ~IsBlank(t)
  PROVE  /\ Solid(t) \subseteq 1 .. Len(t) /\ Solid(t) # {}
         /\ Min(Solid(t)) \in Solid(t) /\ Max(Solid(t)) \in Solid(t)
         /\ \A i \in Solid(t) : Min(Solid(t)) <= i /\ i <= Max(Solid(t))
<1>1. Len(t) \in Nat /\ Solid(t) \subseteq 1 .. Len(t) /\ Solid(t) # {}
  BY LenProperties DEF Solid, IsBlank
<1>2. Solid(t) \subseteq Nat
  BY <1>1
<1> QED BY <1>1, <1>2, LeastOf, GreatestOf

LEMMA EndsAre ==
  ASSUME NEW t \in Seq(STRING), NEW a \in Solid(t), NEW b \in Solid(t),
         \A i \in Solid(t) : a <= i /\ i <= b
  PROVE  ~IsBlank(t) /\ Min(Solid(t)) = a /\ Max(Solid(t)) = b
<1>1. ~IsBlank(t)
  BY DEF IsBlank, Solid
<1>2. Len(t) \in Nat
  BY LenProperties
<1> DEFINE m == Min(Solid(t))
           x == Max(Solid(t))
<1>3. /\ Solid(t) \subseteq 1 .. Len(t) /\ m \in Solid(t) /\ x \in Solid(t)
      /\ m <= a /\ b <= x
  BY <1>1, Ends
<1> HIDE DEF m, x
<1>4. a <= m /\ x <= b
  BY <1>3
<1>5. m = a /\ x = b
  BY <1>2, <1>3, <1>4
<1> QED BY <1>1, <1>5 DEF m, x

(* A text that is cut before its first character, and anywhere from its    *)
(* last one on, has the same first character and the same between them.    *)
LEMMA CutText ==
  ASSUME NEW t \in Seq(STRING), ~IsBlank(t),
         NEW e \in {Max(Solid(t)), Len(t)}
  PROVE  LET u == SubSeq(t, Min(Solid(t)), e) IN
         /\ u # <<>> /\ ~IsBlank(u) /\ Head(u) = t[Min(Solid(t))]
         /\ Trimmed(u) = Trimmed(t)
<1> DEFINE a == Min(Solid(t))
           b == Max(Solid(t))
           n == Len(t)
           u == SubSeq(t, a, e)
           w == SubSeq(t, a, b)
<1>1. /\ n \in Nat /\ a \in 1 .. n /\ b \in 1 .. n /\ a <= b
      /\ t[a] # Blank /\ t[b] # Blank
      /\ \A i \in 1 .. n : t[i] # Blank => a <= i /\ i <= b
  BY Ends, LenProperties DEF Solid
<1>2. e \in 1 .. n /\ b <= e
  BY <1>1
<1> HIDE DEF a, b, n
<1>3. /\ u \in Seq(STRING) /\ Len(u) = e - a + 1
      /\ \A i \in 1 .. e - a + 1 : u[i] = t[a + i - 1]
  BY <1>1, <1>2, SubSeqProperties DEF n
<1>4. /\ w \in Seq(STRING) /\ Len(w) = b - a + 1
      /\ \A i \in 1 .. b - a + 1 : w[i] = t[a + i - 1]
  BY <1>1, SubSeqProperties DEF n
<1> HIDE DEF u, w
<1>5. u # <<>> /\ Head(u) = t[a]
  <2>1. Len(u) >= 1 /\ u[1] = t[a]
    BY <1>1, <1>2, <1>3
  <2> QED BY <1>3, <2>1, HeadTailProperties, EmptySeq
<1>6. /\ 1 \in Solid(u) /\ b - a + 1 \in Solid(u)
      /\ \A i \in Solid(u) : 1 <= i /\ i <= b - a + 1
  <2>1. DOMAIN u = 1 .. e - a + 1
    BY <1>3, LenProperties
  <2>2. \A i \in 1 .. e - a + 1 : a + i - 1 \in 1 .. n
    BY <1>1, <1>2
  <2>3. a + (b - a + 1) - 1 = b /\ a + 1 - 1 = a
    BY <1>1
  <2>4. 1 \in 1 .. e - a + 1 /\ b - a + 1 \in 1 .. e - a + 1
    BY <1>1, <1>2
  <2>5. u[1] # Blank /\ u[b - a + 1] # Blank
    BY <1>1, <1>3, <2>3, <2>4
  <2>6. ASSUME NEW i \in 1 .. e - a + 1, u[i] # Blank PROVE 1 <= i /\ i <= b - a + 1
    <3>1. t[a + i - 1] # Blank
      BY <1>3, <2>6
    <3>2. a + i - 1 <= b
      BY <1>1, <2>2, <3>1
    <3> QED BY <1>1, <1>2, <3>2
  <2> QED BY <2>1, <2>4, <2>5, <2>6 DEF Solid
<1>7. ~IsBlank(u) /\ Min(Solid(u)) = 1 /\ Max(Solid(u)) = b - a + 1
  BY <1>3, <1>6, EndsAre
<1>8. Trimmed(u) = SubSeq(u, 1, b - a + 1) /\ Trimmed(t) = w
  BY <1>7 DEF Trimmed, a, b, w
<1>9. SubSeq(u, 1, b - a + 1) = w
  <2> DEFINE v == SubSeq(u, 1, b - a + 1)
  <2>1. 1 \in 1 .. Len(u) /\ b - a + 1 \in 1 .. Len(u)
    BY <1>1, <1>2, <1>3
  <2>2. /\ v \in Seq(STRING) /\ Len(v) = b - a + 1
        /\ \A i \in 1 .. b - a + 1 : v[i] = u[i]
    <3>1. /\ v \in Seq(STRING) /\ Len(v) = (b - a + 1) - 1 + 1
          /\ \A i \in 1 .. (b - a + 1) - 1 + 1 : v[i] = u[1 + i - 1]
      BY <1>1, <1>3, <2>1, SubSeqProperties
    <3> QED BY <1>1, <3>1
  <2> HIDE DEF v
  <2>3. \A i \in 1 .. b - a + 1 : v[i] = w[i]
    <3>1. \A i \in 1 .. b - a + 1 : i \in 1 .. e - a + 1
      BY <1>1, <1>2
    <3> QED BY <1>3, <1>4, <2>2, <3>1
  <2>4. v = w
    BY <1>1, <1>4, <2>2, <2>3, SeqEqual
  <2> QED BY <2>4 DEF v
<1> QED BY <1>5, <1>7, <1>8, <1>9 DEF u, a

(* What is searched for, and what it is compared with, begins with a       *)
(* character unless all of the text is blank.                              *)
LEMMA NoLeadingBlank ==
  ASSUME NEW t \in Texts
  PROVE  /\ WithoutLeading(t) # <<Blank>>
         /\ ~IsBlank(t) => WithoutLeading(t) # <<>> /\ Trimmed(t) # <<>>
<1>1. t \in Seq(STRING)
  BY IndexAssumption
<1>2. CASE IsBlank(t)
  BY <1>2, BlankLeavesNothing
<1>3. CASE ~IsBlank(t)
  <2> DEFINE u == WithoutLeading(t)
  <2>1. u # <<>> /\ Head(u) = t[Min(Solid(t))] /\ Trimmed(t) # <<>>
    BY <1>1, <1>3, CutText DEF WithoutLeading, Trimmed
  <2>2. t[Min(Solid(t))] # Blank
    BY <1>1, <1>3, Ends DEF Solid
  <2> HIDE DEF u
  <2>3. u # <<Blank>>
    BY <2>1, <2>2
  <2> QED BY <2>1, <2>3 DEF u
<1> QED BY <1>2, <1>3

(* Spaces at the end of a text change nothing of what a search displays.   *)
LEMMA SameRows ==
  ASSUME NEW s, NEW t \in Texts, ~IsBlank(t)
  PROVE  Displayed([section |-> s, text |-> Trimmed(t)]) =
         Displayed([section |-> s, text |-> WithoutLeading(t)])
<1> DEFINE u == Trimmed(t)
           w == WithoutLeading(t)
<1>1. /\ u # <<>> /\ Head(u) = t[Min(Solid(t))] /\ Trimmed(u) = Trimmed(t)
      /\ w # <<>> /\ Head(w) = t[Min(Solid(t))] /\ Trimmed(w) = Trimmed(t)
  <2>1. t \in Seq(STRING)
    BY IndexAssumption
  <2> QED BY <2>1, CutText DEF Trimmed, WithoutLeading
<1> HIDE DEF u, w
<1>2. FilesFor(s, u) = FilesFor(s, w)
  BY <1>1 DEF FilesFor
<1>3. RowNames([section |-> s, text |-> u]) = RowNames([section |-> s, text |-> w])
  BY <1>2 DEF RowNames
<1>4. Displayed([section |-> s, text |-> u]) = Displayed([section |-> s, text |-> w])
  BY <1>1, <1>3 DEF Displayed
<1> QED BY <1>4 DEF u, w

-----------------------------------------------------------------------------
(* What the handlers do to a box *)
LEMMA ActivateTrue ==
  ASSUME NEW b \in Boxes
  PROVE  /\ Activate(b, TRUE) \in Boxes
         /\ Activate(b, TRUE) = [b EXCEPT !.active = TRUE]
         /\ Activate(b, TRUE).active
         /\ Activate(b, TRUE).field = b.field /\ Activate(b, TRUE).last = b.last
         /\ Activate(b, TRUE).shown = b.shown
  BY DEF Activate, Boxes

LEMMA ActivateFalse ==
  ASSUME NEW b \in Boxes
  PROVE  /\ Activate(b, FALSE) \in Boxes
         /\ Activate(b, FALSE).shown = b.shown
         /\ Activate(b, FALSE).active = b.shown
         /\ b.shown => /\ Activate(b, FALSE).field = b.field
                       /\ Activate(b, FALSE).last = b.last
         /\ ~b.shown => /\ Activate(b, FALSE).field = <<>>
                        /\ Activate(b, FALSE).last = <<>>
  BY EmptyFound DEF Activate, Boxes

LEMMA BlurredBox ==
  ASSUME NEW b \in Boxes, PanelIn(b, focus)
  PROVE  /\ Blurred(b) \in Boxes
         /\ Blurred(b).shown = b.shown
         /\ Blurred(b).active => /\ Blurred(b).field = b.field /\ Blurred(b).last = b.last
                                 /\ b.shown /\ b.active
         /\ ~Blurred(b).active => Blurred(b).field = <<>> /\ Blurred(b).last = <<>>
  BY ActivateFalse DEF Blurred, PanelIn, Boxes

LEMMA HiddenBox ==
  ASSUME NEW b \in Boxes
  PROVE  /\ [HideResults(b) EXCEPT !.last = <<>>] \in Boxes
         /\ ~[HideResults(b) EXCEPT !.last = <<>>].shown
  BY EmptyFound DEF HideResults, Boxes

LEMMA ClosedBox ==
  ASSUME NEW b \in Boxes
  PROVE  /\ CloseResultsWindow(b) \in Boxes
         /\ ~CloseResultsWindow(b).active /\ ~CloseResultsWindow(b).shown
         /\ CloseResultsWindow(b).field = <<>> /\ CloseResultsWindow(b).last = <<>>
<1>1. HideResults(b) \in Boxes /\ ~HideResults(b).shown
  BY DEF HideResults, Boxes
<1> QED BY <1>1, ActivateFalse DEF CloseResultsWindow

LEMMA SearchedBox ==
  ASSUME NEW b \in Boxes, NEW s
  PROVE  /\ AfterSearch(b, s) \in Boxes
         /\ AfterSearch(b, s).field = b.field /\ AfterSearch(b, s).active = b.active
         /\ Fails(s) => AfterSearch(b, s) = b
         /\ ~Fails(s) => /\ AfterSearch(b, s).last = WithoutLeading(b.field)
                         /\ AfterSearch(b, s).shown = (b.shown \/ AtOnce(b, s))
         /\ b.shown => AfterSearch(b, s).shown
<1>1. WithoutLeading(b.field) \in Found
  BY DEF Found, Boxes
<1>2. AtOnce(b, s) \in BOOLEAN
  BY DEF AtOnce, Fails
<1> QED BY <1>1, <1>2 DEF AfterSearch, Boxes
(* A box that is not active has nothing to forget. *)
LEMMA InactiveBox ==
  ASSUME NEW b \in Boxes, ~b.active, b.field = <<>>, b.last = <<>>
  PROVE  BlankIn(b) /\ Remembered(b) /\ (\A f : f # "field" => PanelIn(b, f))
  BY EmptyIsBlank, BlankLeavesNothing DEF BlankIn, Remembered, PanelIn

LEMMA BlankRemembered ==
  ASSUME NEW b, BlankIn(b), IsBlank(b.field) PROVE Remembered(b)
  BY BlankLeavesNothing DEF BlankIn, Remembered

-----------------------------------------------------------------------------
(* The invariant in every step, one lemma per event *)
LEMMA InitInv == Init => IInv
<1> SUFFICES ASSUME Init PROVE IInv
  OBVIOUS
<1>1. box \in Boxes /\ ~box.active /\ box.field = <<>> /\ box.last = <<>>
  BY EmptyFound DEF Init, Boxes
<1>2. BlankIn(box) /\ PanelIn(box, "page")
  BY <1>1, InactiveBox
<1> QED BY <1>1, <1>2 DEF Init, IInv, BoxOK, CharacterInField, BlankCompared, EditsKept, NONE

(* Steps that leave the box alone, and the key, and what was searched for. *)
LEMMA NothingForTheBox ==
  ASSUME IInv, UNCHANGED <<box, armed, index, focus, held, dropped>>
  PROVE  IInv'
  BY DEF IInv, BoxOK, PanelIn, CharacterInField, BlankCompared, BlankIn, EditsKept, Remembered

(* Steps that end with a panel that is not active, the focus elsewhere. *)
LEMMA PanelClosed ==
  ASSUME box' \in Boxes, ~box'.active, box'.field = <<>>, box'.last = <<>>,
         focus' # "field", held' # "Character"
  PROVE  IInv'
<1>1. BlankIn(box)' /\ PanelIn(box, focus)'
  BY InactiveBox DEF BlankIn, PanelIn
<1> QED BY <1>1 DEF IInv, BoxOK, CharacterInField, BlankCompared, EditsKept

LEMMA TypeInv ==
  ASSUME IInv, NEW text \in Texts, Type(text) PROVE IInv'
<1>1. /\ box' = [box EXCEPT !.field = text] /\ held' = "Character"
      /\ focus = "field" /\ focus' = "field"
  BY DEF Type
<1>2. box \in Boxes /\ PanelIn(box, "field")
  BY <1>1 DEF IInv, BoxOK
<1>3. box' \in Boxes /\ box'.active = box.active
  BY <1>1, <1>2 DEF Boxes
<1>4. PanelIn(box, focus)'
  BY <1>1, <1>2, <1>3 DEF PanelIn
<1> QED BY <1>1, <1>3, <1>4 DEF IInv, BoxOK, CharacterInField, BlankCompared, EditsKept

(* A box that is compared: a timer is armed or the text is remembered. *)
LEMMA Compared ==
  ASSUME NEW b \in Boxes, Compare(b)
  PROVE  /\ box' \in Boxes /\ BlankIn(box)'
         /\ armed' \/ Remembered(box)'
         /\ box'.active = b.active /\ box'.field = b.field
         /\ BlankIn(b) => box' = b
<1>1. CASE IsBlank(b.field) /\ b.last # <<>>
  <2>1. box' = [HideResults(b) EXCEPT !.last = <<>>]
    BY <1>1 DEF Compare
  <2>2. box' \in Boxes /\ box'.last = <<>> /\ box'.field = b.field /\ box'.active = b.active
    BY <2>1, EmptyFound DEF HideResults, Boxes
  <2>3. BlankIn(box') /\ Remembered(box')
    BY <1>1, <2>2, BlankRemembered DEF BlankIn
  <2> QED BY <1>1, <2>2, <2>3 DEF BlankIn, Remembered
<1>2. CASE ~(IsBlank(b.field) /\ b.last # <<>>)
  <2>1. box' = b
    BY <1>2 DEF Compare
  <2>2. BlankIn(b)
    BY <1>2 DEF BlankIn
  <2>3. armed' \/ Remembered(b)
    BY <2>2, BlankRemembered DEF Compare, Remembered
  <2> QED BY <2>1, <2>2, <2>3 DEF BlankIn, Remembered
<1> QED BY <1>1, <1>2

LEMMA KeyUpInv ==
  ASSUME IInv, KeyUp PROVE IInv'
<1>1. box \in Boxes /\ PanelIn(box, focus) /\ held' # "Character" /\ index' = index
  BY DEF IInv, BoxOK, KeyUp, NONE, section
<1>2. CASE focus # "field"
  <2>1. held # "Character" /\ UNCHANGED <<box, armed, focus, dropped>>
    BY <1>2 DEF IInv, CharacterInField, KeyUp, searching
  <2> QED BY <1>1, <2>1 DEF IInv, BoxOK, PanelIn, CharacterInField, BlankCompared, BlankIn,
             EditsKept, Remembered
<1>3. CASE focus = "field"
  <2>1. OnSearchFieldChange
    BY <1>3 DEF KeyUp
  <2>2. CASE held = "ShiftDown"
    <3>1. SearchFieldShiftDown
      BY <2>1, <2>2 DEF OnSearchFieldChange
    <3>2. box' = Blurred(box) /\ focus' = "select" /\ dropped' = (dropped \/ armed)
      BY <3>1 DEF SearchFieldShiftDown, Focus
    <3>3. BlankIn(box) /\ EditsKept
      BY <2>2 DEF IInv, BlankCompared
    <3>4. CASE box'.active
      <4>1. /\ box' \in Boxes /\ box'.field = box.field /\ box'.last = box.last
            /\ box'.shown /\ box.active
        BY <1>1, <3>2, <3>4, BlurredBox
      <4>2. PanelIn(box, focus)' /\ BlankIn(box)'
        BY <3>3, <3>4, <4>1 DEF PanelIn, BlankIn
      <4>3. EditsKept'
        BY <1>1, <2>2, <3>2, <3>3, <4>1 DEF EditsKept, Remembered
      <4> QED BY <1>1, <4>1, <4>2, <4>3 DEF IInv, BoxOK, CharacterInField, BlankCompared
    <3>5. CASE ~box'.active
      BY <1>1, <3>2, <3>5, BlurredBox, PanelClosed
    <3> QED BY <3>4, <3>5
  <2>3. CASE held = "Escape"
    <3>1. SearchFieldEscape
      BY <2>1, <2>3 DEF OnSearchFieldChange
    <3> DEFINE b == [HideResults(Blurred(box)) EXCEPT !.last = <<>>]
    <3>2. b \in Boxes /\ ~b.shown
      <4>1. Blurred(box) \in Boxes
        BY <1>1, BlurredBox
      <4> QED BY <4>1, HiddenBox
    <3>3. box' = Activate(b, FALSE) /\ focus' = "page"
      BY <3>1 DEF SearchFieldEscape, Focus
    <3> HIDE DEF b
    <3> QED BY <1>1, <3>2, <3>3, ActivateFalse, PanelClosed
  <2>4. CASE held \notin {"ShiftDown", "Escape"}
    <3>1. (held \in SearchKeys /\ SearchFieldDown) \/ SearchFieldOther
      BY <2>1, <2>4 DEF OnSearchFieldChange
    <3>2. CASE SearchFieldOther
      <4>1. Compare(box) /\ focus' = "field" /\ dropped' = FALSE
        BY <1>3, <3>2 DEF SearchFieldOther, Compare
      <4>2. /\ box' \in Boxes /\ BlankIn(box)' /\ (armed' \/ Remembered(box)')
            /\ box'.active = box.active
        BY <1>1, <4>1, Compared
      <4>3. PanelIn(box, focus)'
        BY <1>1, <1>3, <4>1, <4>2 DEF PanelIn
      <4> QED BY <1>1, <4>1, <4>2, <4>3 DEF IInv, BoxOK, CharacterInField, BlankCompared, EditsKept
    <3>3. CASE held \in SearchKeys /\ SearchFieldDown
      <4> DEFINE b == Blurred(box)
      <4>1. Compare(b) /\ box.shown /\ (IF box'.shown THEN focus' = "result" ELSE focus' = "page")
        BY <3>3 DEF SearchFieldDown, Enters, Focus
      <4>2. BlankIn(box)
        BY <3>3 DEF IInv, BlankCompared, SearchKeys
      <4>3. b \in Boxes /\ b.field = box.field /\ b.last = box.last /\ b.shown /\ b.active
        BY <1>1, <1>3, <4>1, ActivateFalse DEF Blurred
      <4>4. BlankIn(b)
        BY <4>2, <4>3 DEF BlankIn
      <4> HIDE DEF b
      <4>5. /\ box' = b /\ BlankIn(box)' /\ (armed' \/ Remembered(box)')
        BY <4>1, <4>3, <4>4, Compared
      <4>6. focus' = "result" /\ PanelIn(box, focus)'
        BY <4>1, <4>3, <4>5 DEF PanelIn
      <4> QED BY <1>1, <4>3, <4>5, <4>6 DEF IInv, BoxOK, CharacterInField, BlankCompared, EditsKept
    <3> QED BY <3>1, <3>2, <3>3
  <2> QED BY <2>2, <2>3, <2>4
<1> QED BY <1>2, <1>3
(***************************************************************************)
(* A search with the box, of a section that may not exist: on a timer, or  *)
(* when the section is selected.                                           *)
(***************************************************************************)
LEMMA SearchRemembers ==
  ASSUME NEW b \in Boxes, NEW s, NEW f, Search(b, s), PanelIn(b, f)
  PROVE  /\ AfterSearch(b, s) \in Boxes
         /\ PanelIn(AfterSearch(b, s), f)
         /\ BlankIn(b) => BlankIn(AfterSearch(b, s))
         /\ ~Fails(s) => Remembered(AfterSearch(b, s))
         /\ AfterSearch(b, s).active = b.active
         /\ AfterSearch(b, s).field = b.field
<1>1. /\ AfterSearch(b, s) \in Boxes
      /\ AfterSearch(b, s).field = b.field /\ AfterSearch(b, s).active = b.active
      /\ Fails(s) => AfterSearch(b, s) = b
      /\ ~Fails(s) => AfterSearch(b, s).last = WithoutLeading(b.field)
      /\ b.shown => AfterSearch(b, s).shown
  BY SearchedBox
<1>2. BlankIn(b) => BlankIn(AfterSearch(b, s))
  BY <1>1, BlankLeavesNothing DEF BlankIn
<1>3. ~Fails(s) => Remembered(AfterSearch(b, s))
  BY <1>1 DEF Remembered
<1>4. PanelIn(AfterSearch(b, s), f)
  <2>1. WithoutLeading(<<>>) = <<>>
    BY EmptyIsBlank, BlankLeavesNothing
  <2> QED BY <1>1, <2>1 DEF PanelIn
<1> QED BY <1>1, <1>2, <1>3, <1>4

LEMMA TimedSearchInv ==
  ASSUME IInv, TimedSearch PROVE IInv'
<1>1. /\ Search(box, index) /\ box' = AfterSearch(box, index) /\ index' = index /\ held' = held
      /\ dropped' = (dropped /\ Fails(index))
  BY DEF TimedSearch, Search, section
<1>2. box \in Boxes /\ PanelIn(box, focus)
  BY DEF IInv, BoxOK
<1>3. /\ box' \in Boxes /\ PanelIn(box', focus)
      /\ BlankIn(box) => BlankIn(box')
      /\ ~Fails(index) => Remembered(box')
      /\ box'.active = box.active
      /\ box'.field = box.field
  BY <1>1, <1>2, SearchRemembers
<1>4. focus' = focus \/ (focus = "result" /\ focus' = "page")
  BY DEF TimedSearch, RowsLoseFocus, Focus
<1>5. PanelIn(box', focus')
  BY <1>3, <1>4 DEF PanelIn
<1>6. CharacterInField' /\ BlankCompared'
  BY <1>1, <1>3, <1>4 DEF IInv, CharacterInField, BlankCompared, BlankIn
<1>7. EditsKept'
  BY <1>1, <1>3 DEF EditsKept, Remembered, Fails
<1> QED BY <1>3, <1>5, <1>6, <1>7 DEF IInv, BoxOK, PanelIn

(***************************************************************************)
(* A section s is selected with the box b, in a focus other than the field *)
(* and with no character down: b is as the invariant wants it but for the  *)
(* section, which may have been one that does not exist.                   *)
(***************************************************************************)
LEMMA SelectKeeps ==
  ASSUME NEW b \in Boxes, NEW s, NEW f, OnSelectItem(b, s), PanelIn(b, f), BlankIn(b),
         (b.active /\ index \in Sections /\ ~dropped) => armed \/ Remembered(b)
  PROVE  /\ AfterSelect(b, s) \in Boxes
         /\ PanelIn(AfterSelect(b, s), f)
         /\ BlankIn(AfterSelect(b, s))
         /\ index' = s
         /\ (b.active /\ s \in Sections /\ ~dropped') => armed' \/ Remembered(AfterSelect(b, s))
         /\ AfterSelect(b, s).active = b.active
<1>1. index' = s
  BY DEF OnSelectItem
<1>2. CASE Repeats(b)
  <2>1. Search(b, s) /\ AfterSelect(b, s) = AfterSearch(b, s)
    BY <1>2 DEF OnSelectItem, AfterSelect
  <2>2. /\ AfterSearch(b, s) \in Boxes
        /\ PanelIn(AfterSearch(b, s), f)
        /\ BlankIn(AfterSearch(b, s))
        /\ ~Fails(s) => Remembered(AfterSearch(b, s))
        /\ AfterSearch(b, s).active = b.active
    BY <2>1, SearchRemembers
  <2> QED BY <1>1, <2>1, <2>2 DEF Fails
<1>3. CASE ~Repeats(b)
  <2>1. AfterSelect(b, s) = b /\ armed' = armed /\ dropped' = dropped
    BY <1>3 DEF OnSelectItem, AfterSelect, searching
  <2>2. b.active => Remembered(b)
    BY <1>3, BlankRemembered DEF Repeats
  <2> QED BY <1>1, <2>1, <2>2
<1> QED BY <1>2, <1>3

LEMMA ClickSectionInv ==
  ASSUME IInv, NEW s \in Sections, ClickSection(s) PROVE IInv'
<1> DEFINE b == Blurred(box)
<1>1. /\ OnSelectItem(b, s) /\ box' = AfterSelect(b, s) /\ focus' = "select"
      /\ held = NONE /\ held' = NONE
  BY DEF ClickSection, Focus, Ready
<1>2. box \in Boxes /\ PanelIn(box, focus) /\ BlankIn(box) /\ EditsKept
  BY <1>1 DEF IInv, BoxOK, BlankCompared, NONE
<1>3. /\ b \in Boxes /\ b.shown = box.shown
      /\ b.active => b.field = box.field /\ b.last = box.last /\ box.shown /\ box.active
      /\ ~b.active => b.field = <<>> /\ b.last = <<>>
  BY <1>2, BlurredBox
<1> HIDE DEF b
<1>4. PanelIn(b, "select")
  BY <1>3 DEF PanelIn
<1>5. BlankIn(b)
  BY <1>2, <1>3 DEF BlankIn
<1>6. (b.active /\ index \in Sections /\ ~dropped) => armed \/ Remembered(b)
  BY <1>1, <1>2, <1>3 DEF EditsKept, Remembered, NONE
<1>7. /\ box' \in Boxes /\ PanelIn(box', "select") /\ BlankIn(box')
      /\ index' = s
      /\ (b.active /\ s \in Sections /\ ~dropped') => armed' \/ Remembered(box')
      /\ box'.active = b.active
  BY <1>1, <1>3, <1>4, <1>5, <1>6, SelectKeeps
<1>8. EditsKept'
  BY <1>7 DEF EditsKept, Remembered
<1> QED BY <1>1, <1>7, <1>8 DEF IInv, BoxOK, PanelIn, CharacterInField, BlankCompared, BlankIn, NONE

(* In the section window the box is as it is. *)
LEMMA SelectKeyMovesInv ==
  ASSUME IInv, NEW k \in Keys, held = NONE, held' = k, SelectKeyMoves(k) PROVE IInv'
<1>1. PICK s \in 0 .. Count : OnSelectItem(box, s) /\ box' = AfterSelect(box, s)
  BY DEF SelectKeyMoves
<1>2. focus = "select" /\ focus' = focus /\ held' # "Character"
  BY DEF SelectKeyMoves, Keys, SearchKeys
<1>3. box \in Boxes /\ PanelIn(box, focus) /\ BlankIn(box)
  BY DEF IInv, BoxOK, BlankCompared, NONE
<1>4. (box.active /\ index \in Sections /\ ~dropped) => armed \/ Remembered(box)
  BY DEF IInv, EditsKept, NONE
<1>5. /\ box' \in Boxes /\ PanelIn(box', focus) /\ BlankIn(box')
      /\ index' = s
      /\ (box.active /\ s \in Sections /\ ~dropped') => armed' \/ Remembered(box')
      /\ box'.active = box.active
  BY <1>1, <1>3, <1>4, SelectKeeps
<1>6. EditsKept'
  BY <1>5 DEF EditsKept, Remembered
<1> QED BY <1>2, <1>5, <1>6 DEF IInv, BoxOK, PanelIn, CharacterInField, BlankCompared, BlankIn

LEMMA SelectKeyClosesInv ==
  ASSUME IInv, NEW k \in Keys, held = NONE, held' = k, SelectKeyCloses(k) PROVE IInv'
<1>1. OnSelectItem(box, index) /\ focus = "select" /\ held' # "Character"
  BY DEF SelectKeyCloses, Keys, SearchKeys
<1>2. box \in Boxes /\ PanelIn(box, focus) /\ BlankIn(box)
  BY DEF IInv, BoxOK, BlankCompared, NONE
<1>3. (box.active /\ index \in Sections /\ ~dropped) => armed \/ Remembered(box)
  BY DEF IInv, EditsKept, NONE
<1> DEFINE b == AfterSelect(box, index)
<1>4. /\ b \in Boxes /\ PanelIn(b, focus) /\ BlankIn(b)
      /\ index' = index
      /\ (box.active /\ index \in Sections /\ ~dropped') => armed' \/ Remembered(b)
      /\ b.active = box.active
  BY <1>1, <1>2, <1>3, SelectKeeps
<1>5. CASE Repeats(box) /\ Fails(index)
  <2>1. box' = box /\ focus' = focus
    BY <1>5 DEF SelectKeyCloses
  <2> QED BY <1>1, <1>2, <1>4, <1>5, <2>1 DEF IInv, BoxOK, PanelIn, CharacterInField,
             BlankCompared, BlankIn, EditsKept, Fails
<1>6. CASE ~(Repeats(box) /\ Fails(index))
  <2>1. box' = Activate(b, TRUE) /\ focus' = "field"
    BY <1>6 DEF SelectKeyCloses, Focus
  <2> HIDE DEF b
  <2>2. /\ box' \in Boxes /\ box'.active /\ box'.field = b.field /\ box'.last = b.last
    BY <1>4, <2>1, ActivateTrue
  <2>3. PanelIn(box', "field") /\ BlankIn(box')
    BY <1>4, <2>2 DEF PanelIn, BlankIn
  <2>4. (index \in Sections /\ ~dropped') => armed' \/ Remembered(box')
    <3>1. CASE box.active
      BY <1>4, <2>2, <3>1 DEF Remembered
    <3>2. CASE ~box.active
      BY <1>2, <1>4, <2>2, <3>2, InactiveBox DEF Remembered, PanelIn
    <3> QED BY <3>1, <3>2
  <2> QED BY <1>1, <1>4, <2>1, <2>2, <2>3, <2>4 DEF IInv, BoxOK, PanelIn, CharacterInField,
             BlankCompared, BlankIn, EditsKept, Remembered
<1> QED BY <1>5, <1>6
(* A box that is activated, with the focus put in the field. *)
LEMMA FieldFocused ==
  ASSUME NEW b \in Boxes, box' = Activate(b, TRUE), BlankIn(b), focus' = "field",
         held' # "Character", index' = index, armed' = armed, dropped' = dropped,
         (index \in Sections /\ ~dropped) => armed \/ Remembered(b)
  PROVE  IInv'
<1>1. box' \in Boxes /\ box'.active /\ box'.field = b.field /\ box'.last = b.last
  BY ActivateTrue
<1> QED BY <1>1 DEF IInv, BoxOK, PanelIn, CharacterInField, BlankCompared, BlankIn,
     EditsKept, Remembered

(* The focus leaves the field for another place, or one place for another. *)
LEMMA FocusLeaves ==
  ASSUME IInv, held # "Character", box' = Blurred(box), focus' # "field",
         held' # "Character", index' = index, armed' = armed, dropped' = dropped
  PROVE  IInv'
<1>1. box \in Boxes /\ PanelIn(box, focus)
  BY DEF IInv, BoxOK
<1>2. CASE box'.active
  <2>1. /\ box' \in Boxes /\ box'.field = box.field /\ box'.last = box.last
        /\ box'.shown /\ box.active
    BY <1>1, <1>2, BlurredBox
  <2> QED BY <1>2, <2>1 DEF IInv, BoxOK, PanelIn, CharacterInField, BlankCompared, BlankIn,
       EditsKept, Remembered
<1>3. CASE ~box'.active
  BY <1>1, <1>3, BlurredBox, PanelClosed
<1> QED BY <1>2, <1>3

LEMMA NavInv ==
  ASSUME IInv, NEW k \in Keys, held = NONE, held' = k, Nav(k) PROVE IInv'
<1>1. /\ focus = "result" /\ held # "Character" /\ held' # "Character"
      /\ index' = index /\ armed' = armed /\ dropped' = dropped
  BY DEF Nav, section, searching, Keys, SearchKeys, NONE
<1>2. box \in Boxes /\ PanelIn(box, "result") /\ BlankIn(box)
  BY <1>1 DEF IInv, BoxOK, BlankCompared
<1>3. (index \in Sections /\ ~dropped) => armed \/ Remembered(box)
  BY <1>1, <1>2, InactiveBox DEF IInv, EditsKept, PanelIn
<1>4. CASE box' = box /\ focus' = "result"
  BY <1>1, <1>2, <1>4 DEF IInv, BoxOK, PanelIn, CharacterInField, BlankCompared, BlankIn,
     EditsKept, Remembered
<1>5. CASE box' = Activate(box, TRUE) /\ focus' = "field"
  BY <1>1, <1>2, <1>3, <1>5, FieldFocused
<1>6. CASE box' = Activate(CloseResultsWindow(box), TRUE) /\ focus' = "field"
  <2> DEFINE b == CloseResultsWindow(box)
  <2>1. b \in Boxes /\ ~b.active /\ b.field = <<>> /\ b.last = <<>>
    BY <1>2, ClosedBox
  <2> HIDE DEF b
  <2>2. BlankIn(b) /\ Remembered(b)
    BY <2>1, InactiveBox
  <2>3. box' = Activate(b, TRUE)
    BY <1>6 DEF b
  <2> QED BY <1>1, <1>6, <2>1, <2>2, <2>3, FieldFocused
<1>7. NavUp \/ NavDown \/ NavEscape
  BY DEF Nav
<1>8. NavUp => (box' = box /\ focus' = focus) \/ (box' = Activate(box, TRUE) /\ focus' = "field")
  BY DEF NavUp, Focus
<1>9. NavDown => box' = box /\ focus' = focus
  BY DEF NavDown
<1>10. NavEscape => box' = Activate(CloseResultsWindow(box), TRUE) /\ focus' = "field"
  BY DEF NavEscape, Focus
<1> QED BY <1>1, <1>4, <1>5, <1>6, <1>7, <1>8, <1>9, <1>10

LEMMA KeyDownInv ==
  ASSUME IInv, NEW k \in Keys, KeyDown(k) PROVE IInv'
<1>1. held = NONE /\ held' = k /\ k # "Character"
  BY DEF KeyDown, Ready, Keys, SearchKeys
<1>2. CASE FieldKey
  BY <1>1, <1>2 DEF FieldKey, searching, section, IInv, BoxOK, PanelIn, CharacterInField,
     BlankCompared, BlankIn, EditsKept, Remembered, NONE
<1>3. CASE IconKey(k)
  <2>1. /\ focus = "icon" /\ focus' \in {"icon", "select"}
        /\ UNCHANGED <<box, armed, index, dropped>>
    BY <1>3 DEF IconKey, Focus, searching, section
  <2> QED BY <1>1, <2>1 DEF IInv, BoxOK, PanelIn, CharacterInField, BlankCompared, BlankIn,
       EditsKept, Remembered, NONE
<1>4. CASE SelectKeyMoves(k)
  BY <1>1, <1>4, SelectKeyMovesInv
<1>5. CASE SelectKeyCloses(k)
  BY <1>1, <1>5, SelectKeyClosesInv
<1>6. CASE Nav(k)
  BY <1>1, <1>6, NavInv
<1> QED BY <1>2, <1>3, <1>4, <1>5, <1>6 DEF KeyDown

LEMMA MoveFocusInv ==
  ASSUME IInv, NEW e, MoveFocus(e) PROVE IInv'
<1>1. /\ held = NONE /\ held' = NONE /\ focus' = e /\ focus # e
      /\ index' = index /\ armed' = armed /\ dropped' = dropped
  BY DEF MoveFocus, Focus, section, searching
<1>2. CASE e = "field"
  <2>1. box \in Boxes /\ PanelIn(box, focus) /\ BlankIn(box) /\ box' = Activate(box, TRUE)
    BY <1>1, <1>2 DEF IInv, BoxOK, BlankCompared, MoveFocus, NONE
  <2>2. (index \in Sections /\ ~dropped) => armed \/ Remembered(box)
    BY <1>1, <2>1, InactiveBox DEF IInv, EditsKept, PanelIn, NONE
  <2> QED BY <1>1, <1>2, <2>1, <2>2, FieldFocused DEF NONE
<1>3. CASE e # "field"
  BY <1>1, <1>3, FocusLeaves DEF MoveFocus, NONE
<1> QED BY <1>2, <1>3

LEMMA FocusRowInv ==
  ASSUME IInv, NEW i, FocusRow(i) PROVE IInv'
  BY FocusLeaves DEF FocusRow, NONE, section, searching

LEMMA ClosingInv ==
  ASSUME IInv, ClickClose \/ Resize \/ LoadPage PROVE IInv'
<1>1. box \in Boxes /\ PanelIn(box, focus)
  BY DEF IInv, BoxOK
<1>2. CASE ClickClose
  <2>1. /\ box' = CloseResultsWindow(Blurred(box)) /\ focus' = "page" /\ held' # "Character"
    BY <1>2 DEF ClickClose, Focus, NONE
  <2>2. Blurred(box) \in Boxes
    BY <1>1, BlurredBox
  <2> QED BY <2>1, <2>2, ClosedBox, PanelClosed
<1>3. CASE Resize
  <2> DEFINE b == [box EXCEPT !.field = <<>>]
  <2>1. b \in Boxes
    BY <1>1, EmptyFound DEF Boxes
  <2>2. box' = CloseResultsWindow(b) /\ focus' # "field" /\ held' # "Character"
    BY <1>3 DEF Resize, Focus, NONE
  <2> HIDE DEF b
  <2> QED BY <2>1, <2>2, ClosedBox, PanelClosed
<1>4. CASE LoadPage
  <2>1. /\ box' \in Boxes /\ ~box'.active /\ box'.field = <<>> /\ box'.last = <<>>
        /\ focus' = "page" /\ held' # "Character"
    BY <1>4, EmptyFound DEF LoadPage, Focus, NONE, Boxes
  <2> QED BY <2>1, PanelClosed
<1> QED BY <1>2, <1>3, <1>4

LEMMA HideTimerInv ==
  ASSUME IInv, HideTimer PROVE IInv'
<1>1. /\ focus' = focus \/ (focus = "select" /\ focus' = "page")
      /\ UNCHANGED <<box, armed, index, held, dropped>>
  BY DEF HideTimer, Focus, section, searching
<1> QED BY <1>1 DEF IInv, BoxOK, PanelIn, CharacterInField, BlankCompared, BlankIn,
     EditsKept, Remembered

LEMMA LoadInv ==
  ASSUME IInv, Load PROVE IInv'
<1>1. /\ box' = [box EXCEPT !.shown = TRUE]
      /\ focus' = focus \/ (focus = "result" /\ focus' = "page")
      /\ UNCHANGED <<armed, index, held, dropped>>
  BY DEF Load, RowsLoseFocus, Focus, section
<1>2. box \in Boxes
  BY DEF IInv, BoxOK
<1>3. /\ box' \in Boxes /\ box'.shown
      /\ box'.field = box.field /\ box'.last = box.last /\ box'.active = box.active
  BY <1>1, <1>2 DEF Boxes
<1> QED BY <1>1, <1>3 DEF IInv, BoxOK, PanelIn, CharacterInField, BlankCompared, BlankIn,
     EditsKept, Remembered

LEMMA NextInv == IInv /\ [Next]_vars => IInv'
<1> SUFFICES ASSUME IInv, [Next]_vars PROVE IInv'
  OBVIOUS
<1>1. CASE \E t \in Texts : Type(t)
  BY <1>1, TypeInv
<1>2. CASE \E k \in Keys : KeyDown(k)
  BY <1>2, KeyDownInv
<1>3. CASE \E e \in {"field", "icon", "select", "page"} : MoveFocus(e)
  BY <1>3, MoveFocusInv
<1>4. CASE \E i \in DOMAIN Displayed(answer) : FocusRow(i)
  BY <1>4, FocusRowInv
<1>5. CASE \E s \in Sections : ClickSection(s)
  BY <1>5, ClickSectionInv
<1>6. CASE ClickClose \/ Resize \/ LoadPage
  BY <1>6, ClosingInv
<1>7. CASE MouseOver \/ MouseOut \/ LoadFails \/ UNCHANGED vars
  <2>1. UNCHANGED <<box, armed, index, focus, held, dropped>>
    BY <1>7 DEF MouseOver, MouseOut, LoadFails, vars, searching, section, keyboard
  <2> QED BY <2>1, NothingForTheBox
<1>8. CASE KeyUp
  BY <1>8, KeyUpInv
<1>9. CASE KeyTimer \/ OrphanTimer
  BY <1>9, TimedSearchInv DEF KeyTimer, OrphanTimer
<1>10. CASE HideTimer \/ Load
  BY <1>10, HideTimerInv, LoadInv
<1> QED BY <1>1, <1>2, <1>3, <1>4, <1>5, <1>6, <1>7, <1>8, <1>9, <1>10 DEF Next, Reader, Page

LEMMA InvHolds == Spec => []IInv
  BY InitInv, NextInv, PTL DEF Spec

(***************************************************************************)
(* The panel is active only with the focus in its field or with results on *)
(* display, and reset otherwise, however handlers, timers and files        *)
(* interleave.                                                             *)
(***************************************************************************)
THEOREM PanelStaysConsistent == Spec => []PanelConsistent
<1>1. IInv => PanelConsistent
  BY DEF IInv, PanelIn, PanelConsistent
<1> QED BY <1>1, InvHolds, PTL

(***************************************************************************)
(* No edit is forgotten: the text of an active field was searched for or a *)
(* timer is to search for it, but for what Shift and Down dropped.         *)
(***************************************************************************)
THEOREM NoEditForgotten == Spec => []EditsSearched
<1>1. IInv => EditsSearched
  BY DEF IInv, EditsKept, EditsSearched, Remembered, NONE
<1> QED BY <1>1, InvHolds, PTL
-----------------------------------------------------------------------------
(***************************************************************************)
(* The rows on display and those on their way.  Every file on its way is   *)
(* one that was searched for, and so are rows on display.  AskedIn: the    *)
(* last search of the box b is the latest one, in the section s, unless    *)
(* its file was lost.                                                      *)
(***************************************************************************)
RealSearches == [section : Sections, text : Found]

AskedIn(b, s) ==
  b.last # <<>> /\ s \in Sections =>
    asked \in {NoSearch, [section |-> s, text |-> b.last]}

RowsOK ==
  /\ IsABag(loads) /\ BagToSet(loads) \subseteq RealSearches
  /\ asked \in Searches /\ answer \in Searches
  /\ box.shown => answer \in RealSearches

LEMMA Counted == Count \in Nat \ {0} /\ Sections \subseteq Nat /\ 0 \in Sections
  BY IndexAssumption

LEMMA SearchesAre ==
  /\ NoSearch \notin RealSearches
  /\ RealSearches \subseteq Searches /\ NoSearch \in Searches
<1>1. <<Blank>> \notin Found
  BY NoLeadingBlank DEF Found
<1>2. NoSearch \notin RealSearches
  BY <1>1 DEF NoSearch, RealSearches
<1> QED BY <1>2 DEF Searches, RealSearches

LEMMA LoadsGrow ==
  ASSUME NEW B, IsABag(B), NEW x
  PROVE  /\ IsABag(B (+) SetToBag({x}))
         /\ BagToSet(B (+) SetToBag({x})) = BagToSet(B) \cup {x}
  BY DEF (+), IsABag, SetToBag, BagToSet

LEMMA LoadsShrink ==
  ASSUME NEW B, IsABag(B), NEW x
  PROVE  /\ IsABag(B (-) SetToBag({x}))
         /\ BagToSet(B (-) SetToBag({x})) \subseteq BagToSet(B)
  BY DEF (-), IsABag, SetToBag, BagToSet

LEMMA RowPlaces == ASSUME NEW q \in Searches PROVE DOMAIN Displayed(q) \subseteq Nat \ {0}
<1>1. q.section \in Sections
  BY Counted DEF Searches, NoSearch
<1> DEFINE files == FilesFor(q.section, q.text)
           S == Index[q.section]
<1>2. S \in Seq(Seq(Seq(STRING))) /\ S # <<>>
  BY <1>1, IndexAssumption
<1>3. Len(S) \in Nat \ {0} /\ DOMAIN S = 1 .. Len(S)
  BY <1>2, EmptySeq, LenProperties
<1>4. files \subseteq 1 .. Len(S)
  BY <1>3 DEF FilesFor
<1>5. RowNames(q) \in Seq(Seq(STRING))
  <2>1. CASE files = {}
    BY <2>1, EmptySeq DEF RowNames
  <2>2. CASE files # {}
    <3> HIDE DEF files
    <3>0. files \subseteq Nat
      BY <1>3, <1>4
    <3>1. Min(files) \in 1 .. Len(S)
      BY <1>4, <2>2, <3>0, LeastOf
    <3>2. S[Min(files)] \in Seq(Seq(STRING))
      BY <1>2, <3>1, ElementOfSeq
    <3> QED BY <2>2, <3>2 DEF RowNames, files
  <2> QED BY <2>1, <2>2
<1>6. DOMAIN RowNames(q) \subseteq Nat \ {0}
  BY <1>5, LenProperties
<1> QED BY <1>6 DEF Displayed

(* A step that searches for nothing, and displays nothing. *)
LEMMA NothingSearched ==
  ASSUME RowsOK, AskedIn(box, index), UNCHANGED <<loads, asked, answer, index>>,
         box'.shown => box.shown, box'.last \in {box.last, <<>>}
  PROVE  RowsOK' /\ AskedIn(box, index)'
  BY DEF RowsOK, AskedIn, IsABag, BagToSet, RealSearches, Searches, Sections, Found

LEMMA SearchRows ==
  ASSUME RowsOK, NEW b \in Boxes, b.shown => box.shown, NEW s, Search(b, s)
  PROVE  /\ IsABag(loads') /\ BagToSet(loads') \subseteq RealSearches
         /\ asked' \in Searches /\ answer' \in Searches
         /\ AfterSearch(b, s).shown => answer' \in RealSearches
         /\ AfterSearch(b, s).last # <<>> /\ s \in Sections =>
              asked' = [section |-> s, text |-> AfterSearch(b, s).last]
<1>1. CASE Fails(s)
  <2>1. UNCHANGED <<loads, asked, answer>> /\ AfterSearch(b, s) = b
    BY <1>1 DEF Search, AtOnce, AfterSearch
  <2> QED BY <1>1, <2>1 DEF RowsOK, Fails
<1>2. CASE ~Fails(s)
  <2>1. FoundIn(b, s) \in RealSearches
    BY <1>2 DEF FoundIn, RealSearches, Found, Boxes, Fails
  <2>2. /\ AfterSearch(b, s).last = WithoutLeading(b.field)
        /\ AfterSearch(b, s).shown = (b.shown \/ AtOnce(b, s))
    BY <1>2, SearchedBox
  <2>3. asked' = FoundIn(b, s)
    BY <1>2 DEF Search
  <2>4. IsABag(loads') /\ BagToSet(loads') \subseteq RealSearches
    <3>1. loads' = loads \/ loads' = loads (+) SetToBag({FoundIn(b, s)})
      BY DEF Search
    <3>2. IsABag(loads) /\ BagToSet(loads) \subseteq RealSearches
      BY DEF RowsOK
    <3>3. CASE loads' = loads
      BY <3>2, <3>3
    <3>4. CASE loads' = loads (+) SetToBag({FoundIn(b, s)})
      <4> DEFINE x == FoundIn(b, s)
      <4>1. x \in RealSearches /\ loads' = loads (+) SetToBag({x})
        BY <2>1, <3>4
      <4> HIDE DEF x
      <4>2. IsABag(loads') /\ BagToSet(loads') = BagToSet(loads) \cup {x}
        BY <3>2, <4>1, LoadsGrow
      <4> QED BY <3>2, <4>1, <4>2
    <3> QED BY <3>1, <3>3, <3>4
  <2>5. answer' \in Searches /\ (AfterSearch(b, s).shown => answer' \in RealSearches)
    BY <2>1, <2>2, SearchesAre DEF Search, RowsOK
  <2> QED BY <2>1, <2>2, <2>3, <2>4, <2>5, SearchesAre DEF FoundIn
<1> QED BY <1>1, <1>2
(***************************************************************************)
(* A section s is selected with the box b.                                 *)
(***************************************************************************)
LEMMA SelectRows ==
  ASSUME RowsOK, NEW b \in Boxes, b.shown => box.shown, NEW s, NEW f,
         OnSelectItem(b, s), PanelIn(b, f), BlankIn(b)
  PROVE  /\ IsABag(loads') /\ BagToSet(loads') \subseteq RealSearches
         /\ asked' \in Searches /\ answer' \in Searches
         /\ AfterSelect(b, s).shown => answer' \in RealSearches
         /\ AfterSelect(b, s).last # <<>> /\ s \in Sections =>
              asked' \in {NoSearch, [section |-> s, text |-> AfterSelect(b, s).last]}
<1>1. CASE Repeats(b)
  <2>1. Search(b, s) /\ AfterSelect(b, s) = AfterSearch(b, s)
    BY <1>1 DEF OnSelectItem, AfterSelect
  <2> QED BY <2>1, SearchRows
<1>2. CASE ~Repeats(b)
  <2>1. AfterSelect(b, s) = b /\ UNCHANGED <<loads, asked, answer>>
    BY <1>2 DEF OnSelectItem, AfterSelect, searching
  <2>2. b.last = <<>>
    BY <1>2 DEF Repeats, BlankIn, PanelIn
  <2> QED BY <2>1, <2>2 DEF RowsOK
<1> QED BY <1>1, <1>2

LEMMA ComparedBox ==
  ASSUME NEW b \in Boxes, Compare(b)
  PROVE  (box'.shown => b.shown) /\ box'.last \in {b.last, <<>>}
<1>1. CASE IsBlank(b.field) /\ b.last # <<>>
  <2>1. box' = [HideResults(b) EXCEPT !.last = <<>>]
    BY <1>1 DEF Compare
  <2> QED BY <2>1 DEF HideResults, Boxes
<1>2. CASE ~(IsBlank(b.field) /\ b.last # <<>>)
  BY <1>2 DEF Compare
<1> QED BY <1>1, <1>2

(* What a key released does to the box.                                    *)
LEMMA KeyUpBox ==
  ASSUME IInv, KeyUp
  PROVE  (box'.shown => box.shown) /\ box'.last \in {box.last, <<>>}
<1>1. box \in Boxes /\ PanelIn(box, focus)
  BY DEF IInv, BoxOK
<1> DEFINE b == Blurred(box)
<1>2. b \in Boxes /\ b.shown = box.shown /\ b.last \in {box.last, <<>>}
  BY <1>1, BlurredBox
<1> HIDE DEF b
<1>3. CASE focus # "field"
  BY <1>3 DEF KeyUp
<1>4. CASE focus = "field" /\ held = "ShiftDown"
  <2>1. box' = b
    BY <1>4 DEF KeyUp, OnSearchFieldChange, SearchFieldShiftDown, b
  <2> QED BY <1>2, <2>1
<1>5. CASE focus = "field" /\ held = "Escape"
  <2> DEFINE c == [HideResults(b) EXCEPT !.last = <<>>]
  <2>1. box' = Activate(c, FALSE)
    BY <1>5 DEF KeyUp, OnSearchFieldChange, SearchFieldEscape, b
  <2>2. c \in Boxes /\ ~c.shown
    BY <1>2, HiddenBox
  <2> HIDE DEF c
  <2> QED BY <2>1, <2>2, ActivateFalse
<1>6. CASE focus = "field" /\ held \notin {"ShiftDown", "Escape"}
  <2>1. Compare(box) \/ Compare(b)
    BY <1>6 DEF KeyUp, OnSearchFieldChange, SearchFieldDown, SearchFieldOther, b
  <2> QED BY <1>1, <1>2, <2>1, ComparedBox
<1> QED BY <1>3, <1>4, <1>5, <1>6

(* What a key pressed on a row does to the box.                            *)
LEMMA NavBox ==
  ASSUME IInv, NEW k, Nav(k)
  PROVE  (box'.shown => box.shown) /\ box'.last \in {box.last, <<>>}
<1>1. box \in Boxes
  BY DEF IInv, BoxOK
<1>2. CASE NavEscape
  <2> DEFINE b == CloseResultsWindow(box)
  <2>1. b \in Boxes /\ ~b.shown /\ b.last = <<>>
    BY <1>1, ClosedBox
  <2>2. box' = Activate(b, TRUE)
    BY <1>2 DEF NavEscape
  <2> HIDE DEF b
  <2> QED BY <2>1, <2>2, ActivateTrue
<1>3. CASE NavUp \/ NavDown
  <2>1. box' = box \/ box' = Activate(box, TRUE)
    BY <1>3 DEF NavUp, NavDown
  <2> QED BY <1>1, <2>1, ActivateTrue
<1> QED BY <1>2, <1>3 DEF Nav

LEMMA MovingBox ==
  ASSUME IInv, (\E e : MoveFocus(e)) \/ (\E i : FocusRow(i)) \/ ClickClose \/ Resize
  PROVE  (box'.shown => box.shown) /\ box'.last \in {box.last, <<>>}
<1>1. box \in Boxes /\ PanelIn(box, focus)
  BY DEF IInv, BoxOK
<1> DEFINE b == Blurred(box)
           c == [box EXCEPT !.field = <<>>]
<1>2. b \in Boxes /\ b.shown = box.shown /\ b.last \in {box.last, <<>>}
  BY <1>1, BlurredBox
<1>3. c \in Boxes
  BY <1>1, EmptyFound DEF Boxes
<1>4. \/ box' \in {b, Activate(box, TRUE)}
      \/ box' \in {CloseResultsWindow(b), CloseResultsWindow(c)}
  BY DEF MoveFocus, FocusRow, ClickClose, Resize
<1> HIDE DEF b, c
<1> QED BY <1>1, <1>2, <1>3, <1>4, ActivateTrue, ClosedBox

(* The rows on display and on their way, in every step.                    *)
LEMMA RowsStep ==
  ASSUME IInv, RowsOK, AskedIn(box, index), [Next]_vars
  PROVE  RowsOK' /\ AskedIn(box, index)'
<1>1. box \in Boxes /\ PanelIn(box, focus)
  BY DEF IInv, BoxOK
<1>2. ASSUME NEW b \in Boxes, NEW s, NEW f, b.shown => box.shown,
             OnSelectItem(b, s), PanelIn(b, f), BlankIn(b),
             box' \in {AfterSelect(b, s), Activate(AfterSelect(b, s), TRUE)},
             AfterSelect(b, s) \in Boxes
      PROVE  RowsOK' /\ AskedIn(box, index)'
  <2>1. /\ index' = s
        /\ box'.shown = AfterSelect(b, s).shown /\ box'.last = AfterSelect(b, s).last
    BY <1>2, ActivateTrue DEF OnSelectItem
  <2> QED BY <1>2, <2>1, SelectRows DEF RowsOK, AskedIn
<1>3. CASE \E t \in Texts : Type(t)
  <2>1. PICK t \in Texts : Type(t)
    BY <1>3
  <2>2. box' = [box EXCEPT !.field = t] /\ UNCHANGED <<loads, asked, answer, index>>
    BY <2>1 DEF Type, searching, section
  <2> QED BY <1>1, <2>2, NothingSearched DEF Boxes
<1>4. CASE KeyUp
  BY <1>4, KeyUpBox, NothingSearched DEF KeyUp, OnSearchFieldChange, searching, section
<1>5. CASE (\E e : MoveFocus(e)) \/ (\E i : FocusRow(i)) \/ ClickClose \/ Resize
  <2>1. UNCHANGED <<loads, asked, answer, index>>
    BY <1>5 DEF MoveFocus, FocusRow, ClickClose, Resize, searching, section
  <2> QED BY <1>5, <2>1, MovingBox, NothingSearched
<1>6. CASE MouseOver \/ MouseOut \/ HideTimer \/ UNCHANGED vars
  <2>1. UNCHANGED <<box, loads, asked, answer, index>>
    BY <1>6 DEF MouseOver, MouseOut, HideTimer, vars, searching, section
  <2> QED BY <2>1, NothingSearched
<1>7. CASE \E k \in Keys : KeyDown(k)
  <2>1. PICK k \in Keys : KeyDown(k)
    BY <1>7
  <2>2. BlankIn(box)
    BY <2>1 DEF KeyDown, Ready, IInv, BlankCompared, NONE
  <2>3. ASSUME NEW s, OnSelectItem(box, s) PROVE AfterSelect(box, s) \in Boxes
    BY <1>1, <2>3, SearchedBox DEF AfterSelect
  <2>4. CASE FieldKey \/ IconKey(k)
    <3>1. UNCHANGED <<box, loads, asked, answer, index>>
      BY <2>4 DEF FieldKey, IconKey, searching, section
    <3> QED BY <3>1, NothingSearched
  <2>5. CASE SelectKeyMoves(k)
    <3>1. PICK s \in 0 .. Count : OnSelectItem(box, s) /\ box' = AfterSelect(box, s)
      BY <2>5 DEF SelectKeyMoves
    <3> QED BY <1>1, <1>2, <2>2, <2>3, <3>1
  <2>6. CASE SelectKeyCloses(k)
    <3>1. OnSelectItem(box, index)
      BY <2>6 DEF SelectKeyCloses
    <3>2. CASE Repeats(box) /\ Fails(index)
      <4>1. AfterSelect(box, index) = box
        BY <1>1, <3>2, SearchedBox DEF AfterSelect
      <4>2. box' = box
        BY <2>6, <3>2 DEF SelectKeyCloses
      <4> QED BY <1>1, <1>2, <2>2, <3>1, <4>1, <4>2
    <3>3. CASE ~(Repeats(box) /\ Fails(index))
      <4>1. box' = Activate(AfterSelect(box, index), TRUE)
        BY <2>6, <3>3 DEF SelectKeyCloses
      <4> QED BY <1>1, <1>2, <2>2, <2>3, <3>1, <4>1
    <3> QED BY <3>2, <3>3
  <2>7. CASE Nav(k)
    <3>1. UNCHANGED <<loads, asked, answer, index>>
      BY <2>7 DEF Nav, searching, section
    <3> QED BY <2>7, <3>1, NavBox, NothingSearched
  <2> QED BY <2>1, <2>4, <2>5, <2>6, <2>7 DEF KeyDown
<1>8. CASE \E s \in Sections : ClickSection(s)
  <2> DEFINE b == Blurred(box)
  <2>1. PICK s \in Sections : ClickSection(s)
    BY <1>8
  <2>2. OnSelectItem(b, s) /\ box' = AfterSelect(b, s) /\ held = NONE
    BY <2>1 DEF ClickSection, Ready
  <2>3. BlankIn(box)
    BY <2>2 DEF IInv, BlankCompared, NONE
  <2>4. /\ b \in Boxes /\ b.shown = box.shown
        /\ b.active => b.field = box.field /\ b.last = box.last /\ box.shown /\ box.active
        /\ ~b.active => b.field = <<>> /\ b.last = <<>>
    BY <1>1, BlurredBox
  <2> HIDE DEF b
  <2>5. PanelIn(b, "select") /\ BlankIn(b)
    BY <2>3, <2>4 DEF PanelIn, BlankIn
  <2>6. AfterSelect(b, s) \in Boxes
    BY <2>4, SearchedBox DEF AfterSelect
  <2> QED BY <1>2, <2>2, <2>4, <2>5, <2>6
<1>9. CASE LoadPage
  <2>1. /\ loads' = EmptyBag /\ asked' = NoSearch /\ answer' = NoSearch
        /\ box'.last = <<>> /\ ~box'.shown
    BY <1>9 DEF LoadPage
  <2>2. IsABag(loads') /\ BagToSet(loads') = {}
    BY <2>1 DEF EmptyBag, SetToBag, IsABag, BagToSet
  <2> QED BY <2>1, <2>2, SearchesAre DEF RowsOK, AskedIn
<1>10. CASE KeyTimer \/ OrphanTimer
  <2>1. Search(box, index) /\ box' = AfterSearch(box, index) /\ index' = index
    BY <1>10 DEF KeyTimer, OrphanTimer, TimedSearch, section
  <2> QED BY <1>1, <2>1, SearchRows DEF RowsOK, AskedIn
<1>11. CASE Load
  <2>1. PICK s \in BagToSet(loads) :
          loads' = loads (-) SetToBag({s}) /\ answer' = s /\ UNCHANGED <<asked, index>>
    BY <1>11 DEF Load, section
  <2>2. box'.last = box.last
    BY <1>1, <1>11 DEF Load, Boxes
  <2>3. IsABag(loads') /\ BagToSet(loads') \subseteq BagToSet(loads)
    BY <2>1, LoadsShrink DEF RowsOK
  <2> QED BY <2>1, <2>2, <2>3, SearchesAre DEF RowsOK, AskedIn
<1>12. CASE LoadFails
  <2>1. PICK s \in BagToSet(loads) :
          /\ loads' = loads (-) SetToBag({s}) /\ asked' \in {asked, NoSearch}
          /\ UNCHANGED <<box, answer, index>>
    BY <1>12 DEF LoadFails, section
  <2>2. IsABag(loads') /\ BagToSet(loads') \subseteq BagToSet(loads)
    BY <2>1, LoadsShrink DEF RowsOK
  <2> QED BY <2>1, <2>2, SearchesAre DEF RowsOK, AskedIn
<1> QED BY <1>3, <1>4, <1>5, <1>6, <1>7, <1>8, <1>9, <1>10, <1>11, <1>12 DEF Next, Reader, Page
(* What the rows on display answer.                                        *)
LEMMA CurrentWhenAsked == IInv /\ RowsOK /\ AskedIn(box, index) => AnswerCurrent
<1> SUFFICES ASSUME IInv, RowsOK, AskedIn(box, index), Quiet, box.active, box.shown,
                    index \in Sections, ~dropped, answer = asked,
                    Stripped(box.field) = Trimmed(box.field), ~IsBlank(box.field)
             PROVE  /\ answer.section = index
                    /\ Displayed(answer) = Displayed(FoundIn(box, index))
  BY DEF AnswerCurrent
<1>1. box.field \in Texts
  BY DEF IInv, BoxOK, Boxes
<1>2. box.last \in {Trimmed(box.field), WithoutLeading(box.field)}
  BY DEF Quiet, IInv, EditsKept, Remembered, NONE
<1>3. box.last # <<>>
  BY <1>1, <1>2, NoLeadingBlank
<1>4. answer = [section |-> index, text |-> box.last]
  BY <1>3, SearchesAre DEF AskedIn, RowsOK
<1>5. FoundIn(box, index) = [section |-> index, text |-> WithoutLeading(box.field)]
  BY DEF FoundIn
<1>6. Displayed(answer) = Displayed(FoundIn(box, index))
  BY <1>1, <1>2, <1>4, <1>5, SameRows
<1> QED BY <1>4, <1>6

-----------------------------------------------------------------------------
(***************************************************************************)
(* The places that the arrow keys go to are those of rows.                 *)
(***************************************************************************)
LEMMA NavRow ==
  ASSUME answer \in Searches, NEW i
  PROVE  /\ NavNext(i) # 0 => NavNext(i) \in DOMAIN Displayed(answer)
         /\ i \in Int /\ NavPrev(i) # 0 => NavPrev(i) \in DOMAIN Displayed(answer)
<1> DEFINE D == DOMAIN Displayed(answer)
           later == {j \in D : j >= i}
           earlier == {j \in D : j <= i}
<1>1. D \subseteq Nat \ {0}
  BY RowPlaces
<1> HIDE DEF D
<1>2. later # {} => Min(later) \in D
  <2>1. later \subseteq Nat /\ later \subseteq D
    BY <1>1
  <2> HIDE DEF later
  <2> QED BY <2>1, LeastOf
<1>3. i \in Int /\ earlier # {} => Max(earlier) \in D
  <2>1. i \in Int => earlier \subseteq 1 .. i
    <3> SUFFICES ASSUME i \in Int, NEW j \in D, j <= i PROVE j \in 1 .. i
      OBVIOUS
    <3> QED BY <1>1
  <2>2. i \in Int /\ earlier # {} => i \in Nat
    BY <2>1
  <2>3. earlier \subseteq D
    OBVIOUS
  <2> HIDE DEF earlier
  <2> QED BY <2>1, <2>2, <2>3, GreatestOf
<1> QED BY <1>2, <1>3 DEF NavNext, NavPrev, D

(* The focus moves to the place of a row, stays, or leaves the rows.       *)
LEMMA ItemStep == ASSUME RowsOK, item \in Nat, [Next]_vars PROVE item' \in Nat
<1>1. answer \in Searches
  BY DEF RowsOK
<1>2. DOMAIN Displayed(answer) \subseteq Nat
  BY <1>1, RowPlaces
<1>3. CASE KeyUp
  <2>1. CASE focus # "field"
    BY <1>3, <2>1 DEF KeyUp
  <2>2. CASE SearchFieldShiftDown \/ SearchFieldEscape \/ SearchFieldOther
    <3>1. item' \in {item, 0}
      BY <2>2 DEF SearchFieldShiftDown, SearchFieldEscape, SearchFieldOther, Focus
    <3> QED BY <3>1
  <2>3. CASE SearchFieldDown
    <3>1. NavNext(1) # 0 /\ item' \in {NavNext(1), 0}
      BY <2>3 DEF SearchFieldDown, Enters, Focus
    <3> QED BY <1>1, <1>2, <3>1, NavRow
  <2> QED BY <1>3, <2>1, <2>2, <2>3 DEF KeyUp, OnSearchFieldChange
<1>4. CASE \E k \in Keys : KeyDown(k)
  <2>1. PICK k \in Keys : KeyDown(k)
    BY <1>4
  <2>2. CASE FieldKey \/ IconKey(k) \/ SelectKeyMoves(k) \/ SelectKeyCloses(k)
    <3>1. item' \in {item, 0}
      BY <2>2 DEF FieldKey, IconKey, SelectKeyMoves, SelectKeyCloses, Focus
    <3> QED BY <3>1
  <2>3. CASE Nav(k)
    <3>1. item - 1 \in Int
      OBVIOUS
    <3>2. CASE NavUp
      <4>1. item' = 0 \/ (NavPrev(item - 1) # 0 /\ item' = NavPrev(item - 1))
        BY <3>2 DEF NavUp, Focus
      <4> QED BY <1>1, <1>2, <3>1, <4>1, NavRow
    <3>3. CASE NavDown
      BY <1>1, <1>2, <3>3, NavRow DEF NavDown
    <3>4. CASE NavEscape
      BY <3>4 DEF NavEscape, Focus
    <3> QED BY <2>3, <3>2, <3>3, <3>4 DEF Nav
  <2> QED BY <2>1, <2>2, <2>3 DEF KeyDown
<1>5. CASE \E i : FocusRow(i)
  BY <1>2, <1>5 DEF FocusRow
<1>6. CASE \/ \E t \in Texts : Type(t)
           \/ \E e : MoveFocus(e)
           \/ \E s : ClickSection(s)
           \/ ClickClose \/ MouseOver \/ MouseOut \/ Resize \/ LoadPage
           \/ KeyTimer \/ OrphanTimer \/ HideTimer \/ Load \/ LoadFails \/ UNCHANGED vars
  <2>1. item' \in {item, 0}
    BY <1>6 DEF Type, MoveFocus, ClickSection, ClickClose, MouseOver, MouseOut, Resize, LoadPage,
       KeyTimer, OrphanTimer, TimedSearch, HideTimer, Load, LoadFails, RowsLoseFocus, Focus,
       keyboard, vars
  <2> QED BY <2>1
<1> QED BY <1>3, <1>4, <1>5, <1>6 DEF Next, Reader, Page
-----------------------------------------------------------------------------
(***************************************************************************)
(* The types of the other variables, and the hide timer, which is not set  *)
(* while the mouse is over the window.                                     *)
(***************************************************************************)
TimersOK == armed \in BOOLEAN /\ orphans \in Nat /\ dropped \in BOOLEAN
SectionOK == index \in 0 .. Count /\ cookie \in Sections
WindowOK == window \in BOOLEAN /\ hide \in BOOLEAN /\ over \in BOOLEAN /\ (over => ~hide)
KeyboardOK ==
  /\ focus \in {"page", "field", "icon", "select", "result"}
  /\ item \in Nat
  /\ held \in Keys \cup {NONE, "Character"}
  /\ iconKeys \in BOOLEAN

LEMMA SelectTimers ==
  ASSUME TimersOK, NEW b, NEW s, OnSelectItem(b, s)
  PROVE  TimersOK'
<1>1. CASE Repeats(b)
  <2>1. /\ armed' = FALSE /\ dropped' = (dropped /\ Fails(s))
        /\ orphans' = orphans + (IF armed THEN 1 ELSE 0)
    BY <1>1 DEF OnSelectItem, Search
  <2>2. dropped' \in BOOLEAN
    BY <2>1
  <2>3. (armed => orphans' = orphans + 1) /\ (~armed => orphans' = orphans + 0)
    BY <2>1
  <2>4. orphans' \in Nat
    BY <2>3 DEF TimersOK
  <2> QED BY <2>1, <2>2, <2>4 DEF TimersOK
<1>2. CASE ~Repeats(b)
  BY <1>2 DEF OnSelectItem, searching, TimersOK
<1> QED BY <1>1, <1>2

LEMMA TimersStep == ASSUME TimersOK, [Next]_vars PROVE TimersOK'
<1>1. CASE UNCHANGED <<armed, orphans, dropped>>
  BY <1>1 DEF TimersOK
<1>2. CASE \E b, s : OnSelectItem(b, s)
  BY <1>2, SelectTimers
<1>3. CASE KeyUp
  <2>1. CASE focus # "field"
    BY <1>1, <1>3, <2>1 DEF KeyUp, searching
  <2>2. CASE focus = "field"
    <3>1. OnSearchFieldChange /\ orphans' = orphans
      BY <1>3, <2>2 DEF KeyUp, OnSearchFieldChange
    <3>2. SearchFieldShiftDown \/ SearchFieldEscape \/ SearchFieldDown \/ SearchFieldOther
      BY <3>1 DEF OnSearchFieldChange
    <3>3. CASE SearchFieldShiftDown
      <4>1. armed' = FALSE /\ dropped' = (dropped \/ armed)
        BY <3>3 DEF SearchFieldShiftDown
      <4>2. dropped' \in BOOLEAN
        BY <4>1
      <4> QED BY <3>1, <4>1, <4>2 DEF TimersOK
    <3>4. CASE SearchFieldEscape
      BY <3>1, <3>4 DEF SearchFieldEscape, TimersOK
    <3>5. CASE SearchFieldDown \/ SearchFieldOther
      <4>1. PICK b : Compare(b)
        BY <3>5 DEF SearchFieldDown, SearchFieldOther
      <4>2. armed' = (~IsBlank(b.field) /\ Stripped(b.field) # b.last) /\ dropped' = FALSE
        BY <4>1 DEF Compare
      <4>3. armed' \in BOOLEAN
        BY <4>2
      <4> QED BY <3>1, <4>2, <4>3 DEF TimersOK
    <3> QED BY <3>2, <3>3, <3>4, <3>5
  <2> QED BY <2>1, <2>2
<1>4. CASE KeyTimer \/ OrphanTimer
  <2>1. /\ armed' = FALSE /\ dropped' = (dropped /\ Fails(index))
    BY <1>4 DEF KeyTimer, OrphanTimer, TimedSearch, Search
  <2>2. dropped' \in BOOLEAN
    BY <2>1
  <2>3. orphans' = orphans \/ (orphans > 0 /\ orphans' = orphans - 1)
    <3>1. CASE KeyTimer
      BY <3>1 DEF KeyTimer
    <3>2. CASE OrphanTimer
      <4>1. orphans > 0 /\ orphans' = orphans - (IF armed THEN 0 ELSE 1)
        BY <3>2 DEF OrphanTimer
      <4>2. (armed => orphans' = orphans - 0) /\ (~armed => orphans' = orphans - 1)
        BY <4>1
      <4> QED BY <4>1, <4>2 DEF TimersOK
    <3> QED BY <1>4, <3>1, <3>2
  <2>4. orphans' \in Nat
    BY <2>3 DEF TimersOK
  <2> QED BY <2>1, <2>2, <2>4 DEF TimersOK
<1>5. CASE LoadPage
  BY <1>5 DEF LoadPage, TimersOK
<1>6. CASE Load \/ LoadFails \/ HideTimer \/ UNCHANGED vars
  BY <1>1, <1>6 DEF Load, LoadFails, HideTimer, vars, searching
<1>7. CASE \E k \in Keys : KeyDown(k)
  <2>1. PICK k \in Keys : KeyDown(k)
    BY <1>7
  <2>2. CASE FieldKey \/ IconKey(k) \/ Nav(k)
    BY <1>1, <2>2 DEF FieldKey, IconKey, Nav, searching
  <2>3. CASE SelectKeyMoves(k) \/ SelectKeyCloses(k)
    BY <1>2, <2>3 DEF SelectKeyMoves, SelectKeyCloses
  <2> QED BY <2>1, <2>2, <2>3 DEF KeyDown
<1>8. CASE \E s \in Sections : ClickSection(s)
  BY <1>2, <1>8 DEF ClickSection
<1>9. CASE \/ \E t \in Texts : Type(t)
           \/ \E e : MoveFocus(e)
           \/ \E i : FocusRow(i)
           \/ ClickClose \/ MouseOver \/ MouseOut \/ Resize
  BY <1>1, <1>9 DEF Type, MoveFocus, FocusRow, ClickClose, MouseOver, MouseOut, Resize, searching
<1> QED BY <1>3, <1>4, <1>5, <1>6, <1>7, <1>8, <1>9 DEF Next, Reader, Page

LEMMA SectionStep == ASSUME SectionOK, [Next]_vars PROVE SectionOK'
<1> USE Counted DEF SectionOK
<1>1. CASE UNCHANGED section
  BY <1>1 DEF section
<1>2. ASSUME NEW s \in 0 .. Count, NEW b, OnSelectItem(b, s) PROVE SectionOK'
  BY <1>2 DEF OnSelectItem, SelectItemSet
<1>3. CASE LoadPage
  <2>1. cookie \in 0 .. Count
    BY IndexAssumption
  <2> QED BY <1>3, <2>1 DEF LoadPage, GetSelectionIdByName
<1>4. CASE \E k \in Keys : KeyDown(k)
  <2>1. PICK k \in Keys : KeyDown(k)
    BY <1>4
  <2>2. CASE FieldKey \/ IconKey(k) \/ Nav(k)
    BY <1>1, <2>2 DEF FieldKey, IconKey, Nav
  <2>3. CASE SelectKeyMoves(k) \/ SelectKeyCloses(k)
    BY <1>2, <2>3 DEF SelectKeyMoves, SelectKeyCloses
  <2> QED BY <2>1, <2>2, <2>3 DEF KeyDown
<1>5. CASE \E s \in Sections : ClickSection(s)
  <2>1. Sections \subseteq 0 .. Count
    BY IndexAssumption
  <2> QED BY <1>2, <1>5, <2>1 DEF ClickSection
<1>6. CASE \/ \E t \in Texts : Type(t)
           \/ \E e : MoveFocus(e)
           \/ \E i : FocusRow(i)
           \/ ClickClose \/ MouseOver \/ MouseOut \/ Resize \/ Page \/ UNCHANGED vars
  BY <1>1, <1>6 DEF Type, MoveFocus, FocusRow, ClickClose, MouseOver, MouseOut, Resize, Page,
     KeyUp, KeyTimer, OrphanTimer, TimedSearch, HideTimer, Load, LoadFails, vars
<1> QED BY <1>3, <1>4, <1>5, <1>6 DEF Next, Reader

LEMMA WindowStep == ASSUME WindowOK, [Next]_vars PROVE WindowOK'
<1> USE DEF WindowOK
<1>1. CASE UNCHANGED popup
  BY <1>1 DEF popup
<1>2. CASE window' \in BOOLEAN /\ hide' \in {hide, FALSE} /\ over' = over
  <2>1. CASE hide' = hide
    BY <1>2, <2>1
  <2>2. CASE hide' = FALSE
    BY <1>2, <2>2
  <2> QED BY <1>2, <2>1, <2>2
<1>3. CASE KeyUp
  BY <1>2, <1>3 DEF KeyUp, OnSearchFieldChange, SearchFieldShiftDown, SearchFieldEscape,
     SearchFieldDown, SearchFieldOther
<1>4. CASE \E k \in Keys : KeyDown(k)
  <2>1. PICK k \in Keys : KeyDown(k)
    BY <1>4
  <2>2. CASE FieldKey \/ SelectKeyMoves(k) \/ Nav(k)
    BY <1>1, <2>2 DEF FieldKey, SelectKeyMoves, Nav
  <2>3. CASE IconKey(k) \/ SelectKeyCloses(k)
    BY <1>2, <2>3 DEF IconKey, SelectKeyCloses
  <2> QED BY <2>1, <2>2, <2>3 DEF KeyDown
<1>5. CASE HideTimer \/ LoadPage \/ MouseOver \/ MouseOut
  BY <1>5 DEF HideTimer, LoadPage, MouseOver, MouseOut
<1>6. CASE \/ \E t \in Texts : Type(t)
           \/ \E e : MoveFocus(e)
           \/ \E i : FocusRow(i)
           \/ \E s : ClickSection(s)
           \/ ClickClose \/ Resize \/ KeyTimer \/ OrphanTimer \/ Load \/ LoadFails
           \/ UNCHANGED vars
  BY <1>1, <1>6 DEF Type, MoveFocus, FocusRow, ClickSection, ClickClose, Resize,
     KeyTimer, OrphanTimer, TimedSearch, Load, LoadFails, vars
<1> QED BY <1>3, <1>4, <1>5, <1>6 DEF Next, Reader, Page

LEMMA KeyboardStep ==
  ASSUME RowsOK, KeyboardOK, [Next]_vars
  PROVE  KeyboardOK'
<1>1. item' \in Nat
  BY ItemStep DEF KeyboardOK
<1>2. focus' \in {focus, "page", "field", "icon", "select", "result"}
  BY DEF Next, Reader, Page, Type, KeyDown, FieldKey, IconKey, SelectKeyMoves, SelectKeyCloses,
     Nav, NavUp, NavDown, NavEscape, MoveFocus, FocusRow, ClickSection, ClickClose, MouseOver,
     MouseOut, Resize, LoadPage, KeyUp, OnSearchFieldChange, SearchFieldShiftDown,
     SearchFieldEscape, SearchFieldDown, SearchFieldOther, KeyTimer, OrphanTimer, TimedSearch,
     HideTimer, Load, LoadFails, RowsLoseFocus, Focus, keyboard, vars
<1>3. held' \in Keys \cup {held, NONE, "Character"}
  BY DEF Next, Reader, Page, Type, KeyDown, MoveFocus, FocusRow, ClickSection, ClickClose,
     MouseOver, MouseOut, Resize, LoadPage, KeyUp, KeyTimer, OrphanTimer, TimedSearch,
     HideTimer, Load, LoadFails, keyboard, vars
<1>4. iconKeys' \in {iconKeys, TRUE, FALSE}
  BY DEF Next, Reader, Page, Type, KeyDown, MoveFocus, FocusRow, ClickSection, ClickClose,
     MouseOver, MouseOut, Resize, LoadPage, KeyUp, KeyTimer, OrphanTimer, TimedSearch,
     HideTimer, Load, LoadFails, vars
<1> QED BY <1>1, <1>2, <1>3, <1>4 DEF KeyboardOK
-----------------------------------------------------------------------------
(***************************************************************************)
(* The whole invariant: that of the box, and what it needs of the rows and *)
(* the types.                                                              *)
(***************************************************************************)
FullInv ==
  /\ IInv
  /\ RowsOK /\ AskedIn(box, index)
  /\ TimersOK /\ SectionOK /\ WindowOK /\ KeyboardOK

LEMMA InitFull == Init => FullInv
<1> SUFFICES ASSUME Init PROVE FullInv
  OBVIOUS
<1>1. IInv
  BY InitInv
<1>2. IsABag(loads) /\ BagToSet(loads) = {}
  BY DEF Init, EmptyBag, SetToBag, IsABag, BagToSet
<1>3. RowsOK /\ AskedIn(box, index)
  BY <1>2, SearchesAre DEF Init, RowsOK, AskedIn
<1>4. TimersOK /\ WindowOK /\ KeyboardOK
  BY DEF Init, TimersOK, WindowOK, KeyboardOK
<1>5. SectionOK
  BY Counted DEF Init, SectionOK
<1> QED BY <1>1, <1>3, <1>4, <1>5 DEF FullInv

LEMMA FullHolds == Spec => []FullInv
<1>1. FullInv /\ [Next]_vars => FullInv'
  <2> SUFFICES ASSUME FullInv, [Next]_vars PROVE FullInv'
    OBVIOUS
  <2>1. IInv' /\ RowsOK' /\ AskedIn(box, index)'
    BY NextInv, RowsStep DEF FullInv
  <2>2. TimersOK' /\ SectionOK' /\ WindowOK'
    BY TimersStep, SectionStep, WindowStep DEF FullInv
  <2>3. KeyboardOK'
    BY <2>1, KeyboardStep DEF FullInv
  <2> QED BY <2>1, <2>2, <2>3 DEF FullInv
<1> QED BY <1>1, InitFull, PTL DEF Spec

(***************************************************************************)
(* The types of the panel.  Every search on its way or on display was for  *)
(* a text that its reader can type, in a section that exists, and the      *)
(* section selected is at most one past the last.                          *)
(***************************************************************************)
THEOREM TypeCorrect == Spec => []TypeOK
<1>1. ASSUME FullInv PROVE TypeOK
  <2>1. box \in [field : Texts, last : Found, active : BOOLEAN, shown : BOOLEAN]
    BY <1>1 DEF FullInv, IInv, BoxOK, Boxes
  <2>2. /\ IsABag(loads) /\ BagToSet(loads) \subseteq Searches
        /\ asked \in Searches /\ answer \in Searches
    BY <1>1, SearchesAre DEF FullInv, RowsOK
  <2>3. armed \in BOOLEAN /\ orphans \in Nat /\ dropped \in BOOLEAN
    BY <1>1 DEF FullInv, TimersOK
  <2>4. index \in 0 .. Count /\ cookie \in Sections
    BY <1>1 DEF FullInv, SectionOK
  <2>5. window \in BOOLEAN /\ hide \in BOOLEAN /\ over \in BOOLEAN
    BY <1>1 DEF FullInv, WindowOK
  <2>6. /\ focus \in {"page", "field", "icon", "select", "result"}
        /\ item \in Nat
        /\ held \in Keys \cup {NONE, "Character"}
        /\ iconKeys \in BOOLEAN
    BY <1>1 DEF FullInv, KeyboardOK
  <2> QED BY <2>1, <2>2, <2>3, <2>4, <2>5, <2>6 DEF TypeOK
<1> QED BY <1>1, FullHolds, PTL

(***************************************************************************)
(* When no key is down and no timer armed, and the last file to arrive is  *)
(* that of the last search, the rows on display are those for the text in  *)
(* the field and the section selected, for any names and any texts.        *)
(***************************************************************************)
THEOREM RowsAnswerTheField == Spec => []AnswerCurrent
<1>1. FullInv => AnswerCurrent
  BY CurrentWhenAsked DEF FullInv
<1> QED BY <1>1, FullHolds, PTL

(***************************************************************************)
(* No hide timer closes the section window under the mouse: one is set     *)
(* only when the mouse leaves, and stopped when it comes back.             *)
(***************************************************************************)
THEOREM WindowStaysUnderMouse == Spec => NeverHiddenUnderMouse
<1>1. FullInv /\ [Next]_vars => [HideTimer => ~over]_vars
  BY DEF FullInv, WindowOK, HideTimer
<1> QED BY <1>1, FullHolds, PTL DEF Spec, NeverHiddenUnderMouse
=============================================================================
