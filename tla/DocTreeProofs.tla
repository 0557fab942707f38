--------------------------- MODULE DocTreeProofs ---------------------------
(***************************************************************************)
(* The icons of the directory tree tell the truth, for every tree.         *)
(***************************************************************************)
EXTENDS DocTree, TLAPS

IInv == TypeOK /\ IconsTrue

LEMMA InitInv == Init => IInv
  BY RowsAssumption DEF Init, IInv, TypeOK, IconsTrue, AncestorsOpen, OpenShowsChildren,
     Folders, Children

(* The children of a row are rows between which and the row there is none. *)
LEMMA BetweenNothing ==
  ASSUME NEW r \in Rows, NEW q \in Rows, q \in Under[r]
  PROVE  /\ Under[q] \cap Children(r) = {}
         /\ r \notin Under[q] /\ r # q
<1>1. Level[r] \in Nat /\ Level[q] \in Nat /\ Level[q] > Level[r]
  BY RowsAssumption, TreeAssumption
<1>2. ASSUME NEW s \in Under[q], s \in Children(r) PROVE FALSE
  <2>1. Level[s] \in Nat /\ Level[s] > Level[q]
    BY RowsAssumption, TreeAssumption
  <2>2. Level[s] = Level[r] + 1
    BY <1>2 DEF Children
  <2> QED BY <1>1, <2>1, <2>2
<1>3. r \notin Under[q]
  BY <1>1, TreeAssumption, RowsAssumption
<1> QED BY <1>1, <1>2, <1>3

LEMMA FoldersAreRows ==
  /\ Folders \subseteq Rows
  /\ \A r \in Rows : Under[r] \subseteq Rows /\ Children(r) \subseteq Under[r]
  /\ \A r \in Rows, s \in Rows : s \in Under[r] => r \in Folders
  BY RowsAssumption DEF Folders, Children

(* Two rows over one row: one of them is over the other. *)
LEMMA OneAboveTheOther ==
  ASSUME NEW r \in Rows, NEW q \in Rows, NEW s, s \in Under[r], s \in Under[q]
  PROVE  r = q \/ r \in Under[q] \/ q \in Under[r]
  BY TreeAssumption

LEMMA HideInv ==
  ASSUME IInv, NEW r \in Folders, r \in displayed, Hide(r)
  PROVE  IInv'
<1> USE DEF Hide
<1>1. r \in Rows
  BY FoldersAreRows
<1>2. TypeOK'
  BY DEF IInv, TypeOK
<1>3. AncestorsOpen'
  <2> SUFFICES ASSUME NEW q \in Folders, NEW s \in Under[q], s \in displayed'
               PROVE  q \in displayed' /\ q \in open'
    BY DEF AncestorsOpen
  <2>1. q \in Rows /\ s \in displayed /\ s \notin Under[r]
    BY FoldersAreRows
  <2>2. q \in displayed /\ q \in open
    BY <2>1 DEF IInv, IconsTrue, AncestorsOpen
  <2>3. q \notin Under[r]
    BY <1>1, <2>1, TreeAssumption
  <2>4. q # r
    BY <2>1
  <2> QED BY <2>2, <2>3, <2>4
<1>4. OpenShowsChildren'
  <2> SUFFICES ASSUME NEW q \in Folders, q \in displayed', q \in open',
                      NEW c \in Children(q)
               PROVE  c \in displayed'
    BY DEF OpenShowsChildren
  <2>1. q \in Rows /\ q # r /\ q \notin Under[r] /\ c \in Under[q]
    BY FoldersAreRows
  <2>2. c \in displayed
    BY DEF IInv, IconsTrue, OpenShowsChildren
  <2>3. ASSUME c \in Under[r] PROVE FALSE
    <3>1. r \in Under[q]
      BY <1>1, <2>1, <2>3, OneAboveTheOther
    <3>2. Under[r] \cap Children(q) = {}
      BY <1>1, <2>1, <3>1, BetweenNothing
    <3> QED BY <2>3, <3>2
  <2> QED BY <2>2, <2>3
<1> QED BY <1>2, <1>3, <1>4 DEF IInv, IconsTrue

LEMMA ShowInv ==
  ASSUME IInv, NEW r \in Folders, r \in displayed, Show(r)
  PROVE  IInv'
<1> USE DEF Show
<1>1. r \in Rows /\ First[r] \in Children(r) /\ Children(r) \subseteq Under[r]
  BY FoldersAreRows, FirstAssumption
<1>2. r \notin open
  BY <1>1 DEF IInv, IconsTrue, OpenShowsChildren
<1>3. displayed \cap Under[r] = {}
  BY <1>2 DEF IInv, IconsTrue, AncestorsOpen
<1>4. r \notin Children(r)
  BY <1>1, BetweenNothing
<1>5. TypeOK'
  BY <1>1, FoldersAreRows DEF IInv, TypeOK
<1>6. AncestorsOpen'
  <2> SUFFICES ASSUME NEW q \in Folders, NEW s \in Under[q], s \in displayed'
               PROVE  q \in displayed' /\ q \in open'
    BY DEF AncestorsOpen
  <2>1. q \in Rows
    BY FoldersAreRows
  <2>2. CASE s \in displayed
    <3>1. q \in displayed /\ q \in open
      BY <2>2 DEF IInv, IconsTrue, AncestorsOpen
    <3> QED BY <3>1, <1>1, <1>3
  <2>3. CASE s \in Children(r)
    <3>1. CASE q = r
      BY <3>1, <1>4
    <3>2. CASE r \in Under[q]
      <4>1. q \in displayed /\ q \in open
        BY <3>2 DEF IInv, IconsTrue, AncestorsOpen
      <4> QED BY <4>1, <1>1, <1>3
    <3>3. CASE q \in Under[r]
      <4>1. Under[q] \cap Children(r) = {}
        BY <3>3, <2>1, <1>1, BetweenNothing
      <4> QED BY <4>1, <2>3
    <3>4. q = r \/ r \in Under[q] \/ q \in Under[r]
      BY <1>1, <2>1, <2>3, OneAboveTheOther
    <3> QED BY <3>1, <3>2, <3>3, <3>4
  <2> QED BY <2>2, <2>3
<1>7. OpenShowsChildren'
  <2> SUFFICES ASSUME NEW q \in Folders, q \in displayed', q \in open'
               PROVE  Children(q) \subseteq displayed'
    BY DEF OpenShowsChildren
  <2>1. CASE q = r
    BY <2>1
  <2>2. CASE q # r
    BY <2>2 DEF IInv, IconsTrue, OpenShowsChildren
  <2> QED BY <2>1, <2>2
<1> QED BY <1>5, <1>6, <1>7 DEF IInv, IconsTrue

LEMMA LevelInv ==
  ASSUME NEW level \in Levels, toggleLevel(level)
  PROVE  IInv'
<1> USE DEF toggleLevel
<1>1. level \in Nat
  BY RowsAssumption DEF Levels
<1>2. TypeOK'
  BY FoldersAreRows DEF TypeOK
<1>3. AncestorsOpen'
  <2> SUFFICES ASSUME NEW q \in Folders, NEW s \in Under[q], s \in displayed'
               PROVE  q \in displayed' /\ q \in open'
    BY DEF AncestorsOpen
  <2>1. q \in Rows /\ Level[q] \in Nat /\ Level[s] \in Nat /\ Level[s] > Level[q]
    BY FoldersAreRows, RowsAssumption, TreeAssumption
  <2>2. Level[s] <= level
    OBVIOUS
  <2>3. Level[q] < level /\ Level[q] <= level
    BY <1>1, <2>1, <2>2
  <2> QED BY <2>1, <2>3
<1>4. OpenShowsChildren'
  <2> SUFFICES ASSUME NEW q \in Folders, q \in displayed', q \in open',
                      NEW c \in Children(q)
               PROVE  c \in displayed'
    BY DEF OpenShowsChildren
  <2>1. /\ q \in Rows /\ c \in Rows /\ Level[q] \in Nat /\ Level[c] \in Nat
        /\ Level[c] = Level[q] + 1
    BY FoldersAreRows, RowsAssumption DEF Children
  <2>2. Level[q] <= level /\ (Level[q] < level \/ Level[q] > level)
    OBVIOUS
  <2>3. Level[c] <= level
    BY <1>1, <2>1, <2>2
  <2> QED BY <2>1, <2>3
<1> QED BY <1>2, <1>3, <1>4 DEF IInv, IconsTrue

LEMMA NextInv == IInv /\ [Next]_vars => IInv'
<1> SUFFICES ASSUME IInv, [Next]_vars PROVE IInv'
  OBVIOUS
<1>1. CASE \E r \in Folders : toggleFolder(r)
  BY <1>1, HideInv, ShowInv DEF toggleFolder
<1>2. CASE \E level \in Levels : toggleLevel(level)
  BY <1>2, LevelInv
<1>3. CASE UNCHANGED vars
  BY <1>3 DEF vars, IInv, TypeOK, IconsTrue, AncestorsOpen, OpenShowsChildren
<1> QED BY <1>1, <1>2, <1>3 DEF Next

LEMMA InvHolds == Spec => []IInv
  BY InitInv, NextInv, PTL DEF Spec

(***************************************************************************)
(* Only rows are displayed and only folders opened: toggleLevel and        *)
(* toggleFolder never give an icon to a row without one.                   *)
(***************************************************************************)
THEOREM TypeCorrect == Spec => []TypeOK
<1>1. IInv => TypeOK
  BY DEF IInv
<1> QED BY <1>1, InvHolds, PTL

(***************************************************************************)
(* Whatever folders and detail levels are clicked, in any tree: a row is   *)
(* displayed only under open folders, and an open folder that is displayed *)
(* displays its children.                                                  *)
(***************************************************************************)
THEOREM IconsStayTrue == Spec => []IconsTrue
<1>1. IInv => IconsTrue
  BY DEF IInv
<1> QED BY <1>1, InvHolds, PTL
=============================================================================
