------------------------------ MODULE DocTree ------------------------------
(***************************************************************************)
(* The directory tree of the documentation pages files.html and            *)
(* hierarchy.html, and the handlers of doc/html/dynsections.js that fold   *)
(* and unfold it: toggleFolder at a click on the arrow or the icon of a    *)
(* folder, toggleLevel at a click on a detail level.                       *)
(*                                                                         *)
(* The page keeps no model of the tree: what is unfolded is read back from *)
(* which rows are displayed, and rows are related by their ids alone.  A   *)
(* hidden row keeps its icon, so the icons of hidden folders say nothing.  *)
(* The stripes that both handlers redo at their end are layout.            *)
(***************************************************************************)
EXTENDS Naturals

CONSTANTS
  Rows,   \* the rows of the table
  Level,  \* Level[r]: how many numbers the id of r has
  Under,  \* Under[r]: the rows whose id begins with the id of r
  First   \* First[r]: the first child of the folder r

(* The rows one level under r: the expression ^row_<id>\d+_$ *)
Children(r) == {s \in Under[r] : Level[s] = Level[r] + 1}

Folders == {r \in Rows : Under[r] # {}}

Levels == {Level[r] : r \in Rows}

(* The ids make a tree, as doxygen numbers them. *)
ASSUME RowsAssumption ==
  /\ Level \in [Rows -> Nat]
  /\ Under \in [Rows -> SUBSET Rows]

ASSUME FirstAssumption ==
  /\ First \in [Folders -> Rows]
  /\ \A r \in Folders : First[r] \in Children(r)

ASSUME TreeAssumption ==
  /\ \A r \in Rows : \A s \in Under[r] :
       Level[s] > Level[r] /\ Under[s] \subseteq Under[r]
  /\ \A r, q \in Rows : Under[r] \cap Under[q] # {} =>
       r = q \/ r \in Under[q] \/ q \in Under[r]

-----------------------------------------------------------------------------
VARIABLES
  displayed,  \* the rows that are displayed
  open        \* the folders with an open icon and a down arrow

vars == <<displayed, open>>

(* Doxygen writes the tree unfolded to a level of its own choice; here all *)
(* of it, as in files.html.                                                *)
Init == displayed = Rows /\ open = Folders

(* The row of the folder that is clicked is displayed.  What to do depends *)
(* on its first child only.                                                *)
Hide(r) ==
  /\ First[r] \in displayed
  /\ open' = open \ {r}
  /\ displayed' = displayed \ Under[r]

\* Mutant: folders that reappear keep the icons they had.
ShowWithOldIcons(r) ==
  /\ First[r] \notin displayed
  /\ open' = open \cup {r}
  /\ displayed' = displayed \cup Children(r)

Show(r) ==
  /\ First[r] \notin displayed
  /\ open' = (open \cup {r}) \ Children(r)
  /\ displayed' = displayed \cup Children(r)

toggleFolder(r) == r \in displayed /\ (Hide(r) \/ Show(r))

\* Mutant: every row above the level gets an open icon.
OpensRows(level) ==
  /\ open' = {r \in Rows : Level[r] < level \/ (Level[r] > level /\ r \in open)}
  /\ displayed' = {r \in Rows : Level[r] <= level}

(* Folders above the level are opened, those on it closed, what is deeper  *)
(* is hidden with the icon it has.                                         *)
toggleLevel(level) ==
  /\ open' = {r \in Folders : \/ Level[r] < level
                              \/ Level[r] > level /\ r \in open}
  /\ displayed' = {r \in Rows : Level[r] <= level}

Next ==
  \/ \E r \in Folders : toggleFolder(r)
  \/ \E level \in Levels : toggleLevel(level)

Spec == Init /\ [][Next]_vars

-----------------------------------------------------------------------------
TypeOK == displayed \subseteq Rows /\ open \subseteq Folders

(***************************************************************************)
(* The icons tell the truth: a row is displayed only under folders that    *)
(* are displayed and open, an open folder displays all its children, and   *)
(* a closed one nothing that is under it, however deep.  toggleFolder,     *)
(* which looks at one child only, relies on it; a folder that reappears    *)
(* must not bring back the icon it had when it was hidden.                 *)
(***************************************************************************)
AncestorsOpen ==
  \A r \in Folders : \A s \in Under[r] :
    s \in displayed => r \in displayed /\ r \in open

OpenShowsChildren ==
  \A r \in Folders : r \in displayed /\ r \in open => Children(r) \subseteq displayed

IconsTrue == AncestorsOpen /\ OpenShowsChildren
=============================================================================
