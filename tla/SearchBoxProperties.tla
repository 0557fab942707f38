------------------------ MODULE SearchBoxProperties ------------------------
(***************************************************************************)
(* What the search panel of the documentation keeps true while timers fire *)
(* and files arrive between the events of its reader.                      *)
(***************************************************************************)
EXTENDS SearchBox

Found == {WithoutLeading(t) : t \in Texts}
Searches == [section : Sections, text : Found] \cup {NoSearch}

(* Type invariant of the panel.  searchIndex may be one past the last      *)
(* section: OnSearchSelectKey compares it with the number of sections.     *)
TypeOK ==
  /\ box \in [field : Texts, last : Found, active : BOOLEAN, shown : BOOLEAN]
  /\ armed \in BOOLEAN /\ orphans \in Nat
  /\ IsABag(loads) /\ BagToSet(loads) \subseteq Searches
  /\ asked \in Searches /\ answer \in Searches
  /\ index \in 0 .. Count /\ cookie \in Sections
  /\ window \in BOOLEAN /\ hide \in BOOLEAN /\ over \in BOOLEAN
  /\ focus \in {"page", "field", "icon", "select", "result"}
  /\ item \in Nat
  /\ held \in Keys \cup {NONE, "Character"}
  /\ dropped \in BOOLEAN /\ iconKeys \in BOOLEAN

(***************************************************************************)
(* The panel is active only where its reader can use it, with the focus in *)
(* the field or with results on display, and a panel that is not active    *)
(* has been reset: no text, no last search, no focus.  It takes the order  *)
(* of hiding and deactivating in every way to close it, and focus handlers *)
(* that run in the middle of other handlers.                               *)
(***************************************************************************)
PanelConsistent ==
  /\ box.active => focus = "field" \/ box.shown
  /\ ~box.active => /\ box.field = <<>> /\ box.last = <<>>
                    /\ focus # "field"

(***************************************************************************)
(* No edit is forgotten: in an active panel with a section selected and no *)
(* key down, the text of the field was the last one searched for, or a     *)
(* timer is to search for it; spaces aside.  The one exception is the text *)
(* whose timer Shift and Down stopped (dropped).                           *)
(***************************************************************************)
EditsSearched ==
  (box.active /\ held = NONE /\ index \in Sections /\ ~dropped) =>
    \/ armed
    \/ box.last \in {Stripped(box.field), WithoutLeading(box.field)}

(***************************************************************************)
(* When no key is down and no timer armed, the rows on display are the     *)
(* rows for the text in the field and the section selected, provided that  *)
(* the last file to arrive is the one of the last search: no order of      *)
(* timers, closing, editing and selecting leaves other rows there.  (Files *)
(* that arrive out of order do: then answer # asked for good.  So do those *)
(* that arrive after the text was removed or blanked.)  A text with a      *)
(* space inside is compared without it and left aside.                     *)
(***************************************************************************)
Quiet == ~armed /\ held = NONE

AnswerCurrent ==
  /\ Quiet /\ box.active /\ box.shown /\ index \in Sections /\ ~dropped
  /\ answer = asked
  /\ Stripped(box.field) = Trimmed(box.field) /\ ~IsBlank(box.field)
  => /\ answer.section = index
     /\ Displayed(answer) = Displayed(FoundIn(box, index))

(***************************************************************************)
(* The hide timer never closes the section window under the mouse, however *)
(* often the mouse crosses its border before a timer fires.                *)
(***************************************************************************)
NeverHiddenUnderMouse == [][HideTimer => ~over]_vars

(***************************************************************************)
(* Who has typed a text and rests gets results: once the reader does       *)
(* nothing more, a panel with a text and no results shows results, unless  *)
(* a file could not be loaded.                                             *)
(***************************************************************************)
Lost == asked = NoSearch /\ ~armed /\ held = NONE

Waiting ==
  /\ box.active /\ ~IsBlank(box.field) /\ index \in Sections
  /\ ~box.shown /\ ~Lost

ReaderRests == <>[][~Reader]_vars

SearchAnswered == ReaderRests => (Waiting ~> ~Waiting)

(* A key that is down is released; timers fire; a file that is requested   *)
(* arrives or fails to.                                                    *)
Fairness ==
  WF_vars(KeyUp) /\ WF_vars(KeyTimer) /\ WF_vars(OrphanTimer) /\ WF_vars(Load)

FairSpec == Spec /\ Fairness
=============================================================================
