----------------------------- MODULE SearchBox -----------------------------
(***************************************************************************)
(* The search panel of the documentation pages (doc/html/search/search.js, *)
(* the box that menu.js puts in the page, the data of searchdata.js): a    *)
(* search field with a key timer, a window to select a section in, with a  *)
(* hide timer, and a window of results, whose rows come from files that    *)
(* are loaded when a search needs them.                                    *)
(*                                                                         *)
(* Everything runs in the one thread of the page, one event at a time; an  *)
(* action is one event with all its handlers, the blur and focus handlers  *)
(* that focus() and blur() call included.  Timers fire and files arrive    *)
(* between any two events, in any order.  A key is pressed and released in *)
(* two steps, and its release goes to the element that has the focus then. *)
(*                                                                         *)
(* A text is a sequence of lower case characters and spaces.  The rows on  *)
(* display are represented by the search they answer: createResults puts   *)
(* the rows of a file in the page and SearchResults.Search displays those  *)
(* that match, in one step, so the two never differ.                       *)
(***************************************************************************)
EXTENDS Naturals, Sequences, FiniteSetsExt, SequencesExt, Bags

CONSTANTS
  Index,      \* Index[s]: the files of section s, each a sequence of names
  Texts,      \* what a reader types
  MaxPending  \* bound: timers and files under way when a key goes down

Blank == " "
NONE == "none"

(* No search: leading spaces are never searched for.                       *)
NoSearch == [section |-> 0, text |-> <<Blank>>]

(* The sections of searchdata.js, numbered from 0. *)
Sections == DOMAIN Index
Count == Cardinality(Sections)

ASSUME IndexAssumption ==
  /\ Count \in Nat \ {0} /\ Sections = 0 .. Count - 1
  /\ Index \in [Sections -> Seq(Seq(Seq(STRING))) \ {<<>>}]
  /\ \A s \in Sections : \A f \in DOMAIN Index[s] :
       Len(Index[s][f]) > 0
  /\ <<>> \in Texts /\ Texts \subseteq Seq(STRING)

(***************************************************************************)
(* Texts, and what a search for a text displays                            *)
(***************************************************************************)
Stripped(text) == SelectSeq(text, LAMBDA c : c # Blank)

IsBlank(text) == \A i \in DOMAIN text : text[i] = Blank

Solid(text) == {i \in DOMAIN text : text[i] # Blank}

WithoutLeading(text) ==
  IF IsBlank(text) THEN <<>> ELSE SubSeq(text, Min(Solid(text)), Len(text))

Trimmed(text) ==
  IF IsBlank(text) THEN <<>> ELSE SubSeq(text, Min(Solid(text)), Max(Solid(text)))

(* The file a search loads: indexOf of the first character; the empty text *)
(* is found at the first place.  No number when no file has the character. *)
FilesFor(s, text) ==
  IF text = <<>> THEN {1}
  ELSE {f \in DOMAIN Index[s] : Head(Index[s][f][1]) = Head(text)}

(* The names in the rows that createResults makes: all of the file.        *)
RowNames(query) ==
  LET files == FilesFor(query.section, query.text)
  IN  IF files = {} THEN <<>> ELSE Index[query.section][Min(files)]

(* The names of the rows that SearchResults.Search displays, by their place *)
(* among all the rows.                                                     *)
Displayed(query) ==
  LET names == RowNames(query)
      rows == {i \in DOMAIN names : IsPrefix(Trimmed(query.text), names[i])}
  IN  [i \in rows |-> names[i]]

-----------------------------------------------------------------------------
VARIABLES
  box,      \* the field, lastSearchValue, searchActive, results displayed
  armed,    \* keyTimeout holds the number of a timer still to fire
  orphans,  \* key timers still to fire whose number was overwritten
  loads,    \* bag of the searches whose file is being loaded
  asked,    \* history: the latest search, if its file was not lost
  answer,   \* the search whose rows are on display
  index,    \* searchIndex
  cookie,   \* the section kept over page loads
  window,   \* the section window is displayed
  hide,     \* the hide timer is to fire
  over,     \* the mouse is over the icon or the section window
  focus,    \* the element with the keyboard focus
  item,     \* the place of the row with the focus, or 0
  held,     \* the key that is down
  dropped,  \* history: a timer was stopped, its text not compared
  iconKeys  \* the icon of the box has its key listener

searching == <<armed, orphans, loads, asked>>
section == <<index, cookie>>
popup == <<window, hide, over>>
keyboard == <<focus, item, held>>
vars == <<box, searching, answer, section, popup, keyboard, dropped, iconKeys>>

SearchKeys == {"Down", "Enter"}
Keys == SearchKeys \cup {"ShiftDown", "Up", "Escape"}

Loading == BagCardinality(loads)
Pending == (IF armed THEN 1 ELSE 0) + orphans + Loading


Init ==
  /\ box = [field |-> <<>>, last |-> <<>>, active |-> FALSE, shown |-> FALSE]
  /\ armed = FALSE /\ orphans = 0 /\ loads = EmptyBag
  /\ asked = NoSearch /\ answer = NoSearch
  /\ index = 0 /\ cookie = 0
  /\ window = FALSE /\ hide = FALSE /\ over = FALSE
  /\ focus = "page" /\ item = 0 /\ held = NONE
  /\ dropped = FALSE /\ iconKeys = TRUE

-----------------------------------------------------------------------------
(***************************************************************************)
(* What the handlers do to the box                                         *)
(***************************************************************************)
\* Mutant: a box that is closed remembers its last search.
ActivateOnly(b, isActive) ==
  IF isActive \/ b.shown
    THEN [b EXCEPT !.active = TRUE]
    ELSE [b EXCEPT !.active = FALSE, !.field = <<>>]

Activate(b, isActive) ==
  IF isActive \/ b.shown
    THEN [b EXCEPT !.active = TRUE]
    ELSE [b EXCEPT !.active = FALSE, !.last = <<>>, !.field = <<>>]

HideResults(b) == [b EXCEPT !.shown = FALSE]

\* Mutant: the panel is deactivated before its results are hidden.
DeactivateFirst(b) == HideResults(Activate(b, FALSE))

CloseResultsWindow(b) == Activate(HideResults(b), FALSE)

(* The focus leaves the field, if it is there: onblur. *)
Blurred(b) == IF focus = "field" THEN Activate(b, FALSE) ELSE b

Focus(element) == focus' = element /\ item' = 0

(* A row that is hidden or replaced loses the focus it has. *)
RowsLoseFocus ==
  IF focus = "result" THEN Focus("page") ELSE UNCHANGED <<focus, item>>

(***************************************************************************)
(* Search with the box b and the section s.  A section that does not exist *)
(* raises a TypeError before anything but keyTimeout is changed; a text    *)
(* whose first character has no file is answered at once.                  *)
(***************************************************************************)
Fails(s) == s \notin Sections

FoundIn(b, s) == [section |-> s, text |-> WithoutLeading(b.field)]

AtOnce(b, s) == ~Fails(s) /\ FilesFor(s, WithoutLeading(b.field)) = {}

AfterSearch(b, s) ==
  IF Fails(s) THEN b
  ELSE [b EXCEPT !.last = WithoutLeading(b.field),
                 !.shown = b.shown \/ AtOnce(b, s)]

Search(b, s) ==
  /\ armed' = FALSE
  /\ asked' = IF Fails(s) THEN asked ELSE FoundIn(b, s)
  /\ loads' = IF Fails(s) \/ AtOnce(b, s) THEN loads
              ELSE loads (+) SetToBag({FoundIn(b, s)})
  /\ answer' = IF AtOnce(b, s) THEN FoundIn(b, s) ELSE answer
  /\ dropped' = (dropped /\ Fails(s))

(* The section marked is kept in a cookie; one that does not exist marks   *)
(* nothing and keeps the cookie.                                           *)
SelectItemSet(s) == cookie' = IF s \in Sections THEN s ELSE cookie

GetSelectionIdByName == cookie

(***************************************************************************)
(* The section is selected: the search is repeated when there is one.      *)
(* The timer of a search still to come fires all the same.                 *)
(***************************************************************************)
\* Mutant: the search is repeated only when no results are on display.
RepeatsUnlessShown(b) == ~IsBlank(b.field) /\ b.active /\ ~b.shown

Repeats(b) == ~IsBlank(b.field) /\ b.active

OnSelectItem(b, s) ==
  /\ index' = s
  /\ SelectItemSet(s)
  /\ IF Repeats(b)
       THEN /\ Search(b, s)
            /\ orphans' = orphans + (IF armed THEN 1 ELSE 0)
       ELSE UNCHANGED <<searching, answer, dropped>>

AfterSelect(b, s) == IF Repeats(b) THEN AfterSearch(b, s) ELSE b

(* The place of the first row displayed from i on, down or up; 0 if none.  *)
NavNext(i) ==
  LET later == {j \in DOMAIN Displayed(answer) : j >= i}
  IN  IF later = {} THEN 0 ELSE Min(later)

NavPrev(i) ==
  LET earlier == {j \in DOMAIN Displayed(answer) : j <= i}
  IN  IF earlier = {} THEN 0 ELSE Max(earlier)

(***************************************************************************)
(* A key is released in the field.                                         *)
(***************************************************************************)
Compare(b) ==
  /\ armed' = (~IsBlank(b.field) /\ Stripped(b.field) # b.last)
  /\ box' = IF IsBlank(b.field) /\ b.last # <<>>
              THEN [HideResults(b) EXCEPT !.last = <<>>] ELSE b
  /\ dropped' = FALSE

SearchFieldShiftDown ==
  /\ box' = Blurred(box) /\ Focus("select")
  /\ window' = TRUE /\ hide' = FALSE
  /\ armed' = FALSE /\ dropped' = (dropped \/ armed)

SearchFieldEscape ==
  /\ box' = Activate([HideResults(Blurred(box)) EXCEPT !.last = <<>>], FALSE)
  /\ Focus("page")
  /\ armed' = FALSE
  /\ UNCHANGED <<window, hide, dropped>>

(* The first row gets the focus, when the results are on display, and      *)
(* keeps it unless the comparison that follows hides them.                 *)
Enters == box.shown /\ NavNext(1) # 0

SearchFieldDown ==
  /\ Enters
  /\ Compare(Blurred(box))
  /\ IF box'.shown THEN focus' = "result" /\ item' = NavNext(1) ELSE Focus("page")
  /\ UNCHANGED <<window, hide>>

SearchFieldOther ==
  /\ held \in SearchKeys => ~Enters
  /\ Compare(box)
  /\ UNCHANGED <<focus, item, window, hide>>

OnSearchFieldChange ==
  /\ CASE held = "ShiftDown" -> SearchFieldShiftDown
       [] held = "Escape"    -> SearchFieldEscape
       [] OTHER -> \/ held \in SearchKeys /\ SearchFieldDown
                   \/ SearchFieldOther
  /\ UNCHANGED <<orphans, loads, asked>>

KeyUp ==
  /\ held # NONE /\ held' = NONE
  /\ IF focus = "field" THEN OnSearchFieldChange
       ELSE UNCHANGED <<box, searching, focus, item, window, hide, dropped>>
  /\ UNCHANGED <<answer, section, over, iconKeys>>

-----------------------------------------------------------------------------
(***************************************************************************)
(* The reader presses a key.                                               *)
(***************************************************************************)
Ready == held = NONE /\ Pending < MaxPending

Type(text) ==
  /\ Ready /\ focus = "field" /\ text # box.field
  /\ box' = [box EXCEPT !.field = text]
  /\ held' = "Character"
  /\ UNCHANGED <<searching, answer, section, popup, focus, item, dropped, iconKeys>>

(* In the field the keys act when they are released. *)
FieldKey ==
  /\ focus = "field"
  /\ UNCHANGED <<box, searching, answer, section, popup, focus, item, dropped>>

(* The icon opens and closes the section window. *)
IconKey(k) ==
  /\ focus = "icon"
  /\ IF k \notin {"Down", "ShiftDown", "Enter"} THEN UNCHANGED <<focus, item, window, hide>>
     ELSE IF window THEN window' = FALSE /\ UNCHANGED <<focus, item, hide>>
     ELSE window' = TRUE /\ hide' = FALSE /\ Focus("select")
  /\ UNCHANGED <<box, searching, answer, section, over, dropped>>

\* Mutant: Down is not compared with the number of sections.
SelectKeyMovesOn(k) ==
  /\ focus = "select"
  /\ \E s \in 0 .. index + 1 :
       /\ IF k \in {"Down", "ShiftDown"} THEN s = index + 1 ELSE k = "Up" /\ s + 1 = index
       /\ OnSelectItem(box, s) /\ box' = AfterSelect(box, s)
  /\ UNCHANGED <<popup, focus, item>>

(* Down moves to the next section, and from the last one to none at all:   *)
(* searchIndex < SelectItemCount().                                        *)
SelectKeyMoves(k) ==
  /\ focus = "select"
  /\ \E s \in 0 .. Count :
       /\ IF k \in {"Down", "ShiftDown"} THEN s = index + 1 ELSE k = "Up" /\ s + 1 = index
       /\ OnSelectItem(box, s) /\ box' = AfterSelect(box, s)
  /\ UNCHANGED <<popup, focus, item>>

(* The window closes and the field gets the focus, unless the search has   *)
(* failed.                                                                 *)
SelectKeyCloses(k) ==
  /\ focus = "select" /\ k \in {"Enter", "Escape"}
  /\ OnSelectItem(box, index)
  /\ IF Repeats(box) /\ Fails(index)
       THEN UNCHANGED <<box, window, focus, item>>
       ELSE /\ box' = Activate(AfterSelect(box, index), TRUE)
            /\ window' = FALSE /\ Focus("field")
  /\ UNCHANGED <<hide, over>>

NavUp ==
  IF NavPrev(item - 1) # 0
    THEN item' = NavPrev(item - 1) /\ UNCHANGED <<box, focus>>
    ELSE Focus("field") /\ box' = Activate(box, TRUE)

NavDown ==
  /\ item' = IF NavNext(item + 1) # 0 THEN NavNext(item + 1) ELSE item
  /\ UNCHANGED <<box, focus>>

NavEscape ==
  Focus("field") /\ box' = Activate(CloseResultsWindow(box), TRUE)

Nav(k) ==
  /\ focus = "result"
  /\ \/ k = "Up" /\ NavUp
     \/ k \in {"Down", "ShiftDown"} /\ NavDown
     \/ k = "Escape" /\ NavEscape
  /\ UNCHANGED <<searching, answer, section, popup, dropped>>

KeyDown(k) ==
  /\ Ready /\ held' = k
  /\ FieldKey \/ IconKey(k) \/ SelectKeyMoves(k) \/ SelectKeyCloses(k) \/ Nav(k)
  /\ UNCHANGED iconKeys

(***************************************************************************)
(* The reader uses the mouse, or the Tab key, with no other key down.      *)
(***************************************************************************)
CanFocus(element) ==
  CASE element = "icon" -> iconKeys
    [] element = "select" -> window
    [] OTHER -> TRUE

MoveFocus(element) ==
  /\ held = NONE /\ focus # element /\ CanFocus(element)
  /\ box' = IF element = "field" THEN Activate(box, TRUE) ELSE Blurred(box)
  /\ Focus(element)
  /\ UNCHANGED <<searching, answer, section, popup, held, dropped, iconKeys>>

FocusRow(i) ==
  /\ held = NONE /\ box.shown /\ i \in DOMAIN Displayed(answer) /\ i # item
  /\ box' = Blurred(box)
  /\ focus' = "result" /\ item' = i
  /\ UNCHANGED <<searching, answer, section, popup, held, dropped, iconKeys>>

ClickSection(s) ==
  /\ Ready /\ window /\ over
  /\ OnSelectItem(Blurred(box), s)
  /\ box' = AfterSelect(Blurred(box), s)
  /\ Focus("select")
  /\ UNCHANGED <<popup, held, iconKeys>>

ClickClose ==
  /\ held = NONE /\ box.shown
  /\ box' = CloseResultsWindow(Blurred(box))
  /\ Focus("page")
  /\ UNCHANGED <<searching, answer, section, popup, held, dropped, iconKeys>>

\* Mutant: the hide timer is not stopped.
MouseOverOnly ==
  /\ ~over /\ over' = TRUE
  /\ window' = TRUE
  /\ UNCHANGED <<box, searching, answer, section, hide, keyboard, dropped, iconKeys>>

(* OnSearchSelectShow, OnSearchSelectHide *)
MouseOver ==
  /\ ~over /\ over' = TRUE
  /\ window' = TRUE /\ hide' = FALSE
  /\ UNCHANGED <<box, searching, answer, section, keyboard, dropped, iconKeys>>

MouseOut ==
  /\ over /\ over' = FALSE
  /\ hide' = TRUE
  /\ UNCHANGED <<box, searching, answer, section, window, keyboard, dropped, iconKeys>>

(* The window gets another width: menu.js puts a new box in the page.      *)
Resize ==
  /\ held = NONE
  /\ box' = CloseResultsWindow([box EXCEPT !.field = <<>>])
  /\ IF focus \in {"field", "icon", "result"} THEN Focus("page")
     ELSE UNCHANGED <<focus, item>>
  /\ iconKeys' = FALSE
  /\ UNCHANGED <<searching, answer, section, popup, held, dropped>>

(* A row is followed, or the page is loaded again: init_search.            *)
LoadPage ==
  /\ held = NONE
  /\ box' = [field |-> <<>>, last |-> <<>>, active |-> FALSE, shown |-> FALSE]
  /\ armed' = FALSE /\ orphans' = 0 /\ loads' = EmptyBag
  /\ asked' = NoSearch /\ answer' = NoSearch
  /\ index' = GetSelectionIdByName
  /\ window' = FALSE /\ hide' = FALSE /\ over' = FALSE
  /\ Focus("page")
  /\ dropped' = FALSE /\ iconKeys' = TRUE
  /\ UNCHANGED <<cookie, held>>

-----------------------------------------------------------------------------
(***************************************************************************)
(* Timers fire, files arrive.                                              *)
(***************************************************************************)
TimedSearch ==
  /\ Search(box, index)
  /\ box' = AfterSearch(box, index)
  /\ IF AtOnce(box, index) THEN RowsLoseFocus ELSE UNCHANGED <<focus, item>>
  /\ UNCHANGED <<section, popup, held, iconKeys>>

KeyTimer ==
  /\ armed
  /\ TimedSearch /\ UNCHANGED orphans

(* keyTimeout = 0 makes an orphan of a timer that is armed meanwhile.      *)
OrphanTimer ==
  /\ orphans > 0
  /\ TimedSearch /\ orphans' = orphans - (IF armed THEN 0 ELSE 1)

HideTimer ==
  /\ hide /\ hide' = FALSE
  /\ window' = FALSE
  /\ IF focus = "select" THEN Focus("page") ELSE UNCHANGED <<focus, item>>
  /\ UNCHANGED <<box, searching, answer, section, over, held, dropped, iconKeys>>

\* Mutant: the results are not displayed when they arrive.
LoadOnly ==
  \E s \in BagToSet(loads) :
    /\ loads' = loads (-) SetToBag({s})
    /\ answer' = s
    /\ RowsLoseFocus
    /\ UNCHANGED <<box, armed, orphans, asked, section, popup, held, dropped, iconKeys>>

Load ==
  \E s \in BagToSet(loads) :
    /\ loads' = loads (-) SetToBag({s})
    /\ answer' = s
    /\ box' = [box EXCEPT !.shown = TRUE]
    /\ RowsLoseFocus
    /\ UNCHANGED <<armed, orphans, asked, section, popup, held, dropped, iconKeys>>

(* The file cannot be loaded: the script has no onerror, nobody is told.   *)
LoadFails ==
  \E s \in BagToSet(loads) :
    /\ loads' = loads (-) SetToBag({s})
    /\ asked' = IF asked = s THEN NoSearch ELSE asked
    /\ UNCHANGED <<box, armed, orphans, answer, section, popup,
                   keyboard, dropped, iconKeys>>

Reader ==
  \/ \E t \in Texts : Type(t)
  \/ \E k \in Keys : KeyDown(k)
  \/ \E e \in {"field", "icon", "select", "page"} : MoveFocus(e)
  \/ \E i \in DOMAIN Displayed(answer) : FocusRow(i)
  \/ \E s \in Sections : ClickSection(s)
  \/ ClickClose \/ MouseOver \/ MouseOut \/ Resize \/ LoadPage

Page == KeyUp \/ KeyTimer \/ OrphanTimer \/ HideTimer \/ Load \/ LoadFails

Next == Reader \/ Page

Spec == Init /\ [][Next]_vars

=============================================================================
