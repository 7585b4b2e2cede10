------------------------- MODULE ControlTables_proofs -------------------------
(***************************************************************************)
(* Proofs about ControlTables, for any options, names and groups.          *)
(*                                                                         *)
(* An option has two reasons to be in m_mOptionGroup: it has a manager, or *)
(* CDialogBuilder gave it one for a while.  The entries of a group are     *)
(* exactly the existing options with such a reason that have the group as  *)
(* their m_sGroupName, but for those that wait in SetManager for their     *)
(* AddOptionGroup; the rules of a careful application keep that true.      *)
(***************************************************************************)
EXTENDS ControlTables, TLAPS

Registered == managed \cup parsed

ParsingIsParsed == \A c \in parsing : c \in parsed /\ life[c] \in {"loose", "attached"}

AddingIsManaged == \A c \in Option : Adding(c) => c \in managed

\* Each nested call of InitControls is in the OnInit of one option.
InitsAreApart ==
  \A c, d \in Option : life[c] = "init" /\ life[d] = "init" /\ level[c] = level[d] => c = d

WaitingIsInit == \A c \in waiting : life[c] = "init"

AttachedIsRegistered == \A c \in Option : life[c] = "attached" => c \in Registered

MembersAreRegistered ==
  \A g \in Group, c \in Option :
    c \in members[g] <=> Exists(c) /\ group[c] = g /\ c \in Registered \ waiting

ElectedAreMembers == \A c \in elected : group[c] \in Group /\ c \in members[group[c]]

\* What FindControl finds has that name, and its destructor will find itself in the table.
NamesAreRegistered ==
  \A n \in Name : table[n] # None =>
    /\ name[table[n]] = n
    /\ life[table[n]] # "none"
    /\ table[n] \in managed \/ (table[n] \in parsed /\ Exists(table[n]))

GroupInv ==
  /\ ParsingIsParsed /\ AddingIsManaged /\ InitsAreApart /\ WaitingIsInit /\ AttachedIsRegistered
  /\ MembersAreRegistered /\ ElectedAreMembers /\ OneElected
NameInv == ParsingIsParsed /\ AddingIsManaged /\ NamesAreRegistered

USE StringAssumption, NullAssumption, NestedAssumption, FlagAssumption

(***************************************************************************)
(* Types.                                                                  *)
(***************************************************************************)
LEMMA TableTypes ==
  ASSUME TypeOK, NEW c \in Option, NEW g \in Group \cup {Empty}
  PROVE  /\ AddOptionGroup(members, g, c) \in [Group -> SUBSET Option]
         /\ RemoveOptionGroup(members, g, c) \in [Group -> SUBSET Option]
         /\ ReapName(c) \in [Name -> Option \cup {None}]
<1>1. AddOptionGroup(members, g, c) \in [Group -> SUBSET Option]
  BY DEF TypeOK, AddOptionGroup
<1>2. RemoveOptionGroup(members, g, c) \in [Group -> SUBSET Option]
  BY DEF TypeOK, RemoveOptionGroup
<1>3. ReapName(c) \in [Name -> Option \cup {None}]
  BY DEF TypeOK, ReapName
<1> QED  BY <1>1, <1>2, <1>3

\* The variables always have their types.
THEOREM TablesTypeCorrect == Spec => []TypeOK
<1>1. Init => TypeOK
  BY DEF Init, TypeOK, Life
<1>2. TypeOK /\ [Next]_vars => TypeOK'
  <2> SUFFICES ASSUME TypeOK, [Next]_vars PROVE TypeOK'
    OBVIOUS
  <2>0. CASE UNCHANGED vars
    BY <2>0 DEF vars, TypeOK
  <2>1. ASSUME NEW c \in Option, New(c) PROVE TypeOK'
    BY <2>1 DEF TypeOK, New, Life
  <2>2. ASSUME NEW c \in Option, ParseBegin(c) PROVE TypeOK'
    BY <2>2 DEF TypeOK, ParseBegin, names, options
  <2>3. ASSUME NEW c \in Option, ParseEnd(c) PROVE TypeOK'
    BY <2>3 DEF TypeOK, ParseEnd, names, options
  <2>4. ASSUME NEW c \in Option, NEW k \in 1 .. MaxNested, BeginAdd(c, k) PROVE TypeOK'
    <3>1. life' \in [Option -> Life] /\ level' \in [Option -> 0 .. MaxNested]
      BY <2>4 DEF BeginAdd, TypeOK, Life
    <3> QED  BY <2>4, <3>1 DEF TypeOK, BeginAdd, names
  <2>14. ASSUME NEW c \in Option, NEW d \in Option, NextItem(c, d) PROVE TypeOK'
    <3>1. life' \in [Option -> Life] /\ level' \in [Option -> 0 .. MaxNested]
      BY <2>14 DEF NextItem, TypeOK, Life
    <3>2. group[c] \in Group \cup {Empty}  BY DEF TypeOK
    <3>3. members' \in [Group -> SUBSET Option]  BY <2>14, <3>2, TableTypes DEF NextItem
    <3> QED  BY <2>14, <3>1, <3>3 DEF TypeOK, NextItem, names
  <2>15. ASSUME NEW c \in Option, NEW b \in BOOLEAN, EndAdd(c, b) PROVE TypeOK'
    <3>1. life' \in [Option -> Life] /\ level' \in [Option -> 0 .. MaxNested]
      BY <2>15 DEF EndAdd, TypeOK, Life
    <3>2. group[c] \in Group \cup {Empty}  BY DEF TypeOK
    <3>3. members' \in [Group -> SUBSET Option]  BY <2>15, <3>2, TableTypes DEF EndAdd
    <3>4. table' \in [Name -> Option \cup {None}]  BY <2>15 DEF EndAdd, NamesEntered
    <3>5. parsing' \subseteq Option /\ parsed' \subseteq Option
      BY <2>15 DEF EndAdd, AddedWith, TypeOK
    <3> QED  BY <2>15, <3>1, <3>3, <3>4, <3>5 DEF TypeOK, EndAdd
  <2>5. ASSUME NEW c \in Option, Remove(c) PROVE TypeOK'
    BY <2>5 DEF TypeOK, Remove, names, options, Life
  <2>6. ASSUME NEW c \in Option, Release(c) PROVE TypeOK'
    BY <2>6 DEF TypeOK, makers, Release, names, options, Life
  <2>7. ASSUME NEW c \in Option, BeginDelete(c) PROVE TypeOK'
    <3>1. group[c] \in Group \cup {Empty}  BY DEF TypeOK
    <3>2. members' \in [Group -> SUBSET Option]
      BY <2>7, <3>1, TableTypes DEF BeginDelete, TypeOK
    <3> QED  BY <2>7, <3>2 DEF TypeOK, makers, BeginDelete, names, Life
  <2>8. ASSUME NEW c \in Option, EndDelete(c) PROVE TypeOK'
    <3>1. table' \in [Name -> Option \cup {None}]
      BY <2>8, TableTypes DEF EndDelete
    <3> QED  BY <2>8, <3>1 DEF TypeOK, EndDelete, options, Life
  <2>9. ASSUME NEW c \in Option, NEW n \in Name \cup {Empty}, Rename(c, n) PROVE TypeOK'
    BY <2>9 DEF TypeOK, makers, Rename, options
  <2>10. ASSUME NEW c \in Option, NEW g \in Group \cup {Empty}, SetGroup(c, g) PROVE TypeOK'
    <3>1. group[c] \in Group \cup {Empty}  BY DEF TypeOK
    <3>2. RemoveOptionGroup(members, group[c], c) \in [Group -> SUBSET Option]
      BY <3>1, TableTypes
    <3>3. members' \in [Group -> SUBSET Option]
      BY <2>10, <3>2 DEF SetGroup, AddOptionGroup, TypeOK
    <3> QED  BY <2>10, <3>3 DEF TypeOK, makers, SetGroup, names
  <2>11. ASSUME NEW c \in Option, LeaveGroup(c) PROVE TypeOK'
    <3>1. group'[c] = Empty  BY <2>11 DEF LeaveGroup, TypeOK
    <3>2. members' \in [Group -> SUBSET Option]
      BY <2>11, <3>1 DEF LeaveGroup, RemoveOptionGroup, TypeOK
    <3> QED  BY <2>11, <3>2 DEF TypeOK, makers, LeaveGroup, names
  <2>12. ASSUME NEW c \in Option, Select(c) PROVE TypeOK'
    BY <2>12 DEF TypeOK, makers, Select, names
  <2>13. ASSUME NEW c \in Option, Unselect(c) PROVE TypeOK'
    BY <2>13 DEF TypeOK, makers, Unselect, names
  <2> QED
    BY <2>0, <2>1, <2>2, <2>3, <2>4, <2>5, <2>6, <2>7, <2>8, <2>9, <2>10, <2>11, <2>12, <2>13,
       <2>14, <2>15
    DEF Next
<1> QED  BY <1>1, <1>2, PTL DEF Spec

(***************************************************************************)
(* Names.                                                                  *)
(***************************************************************************)
\* A name is lost only with its control, or to a control that is added with it
\* (UIManager.cpp:1939, 3671).
THEOREM NamesAreHeld == Spec => NamesAreKept
<1> DEFINE Kept(n) ==
      table[n] # None /\ table'[n] # table[n]
        => \/ life'[table[n]] = "none"
           \/ table'[n] # None /\ Adding(table'[n]) /\ life'[table'[n]] = "attached"
<1>1. TypeOK /\ [Next]_vars => [\A n \in Name : Kept(n)]_vars
  <2> SUFFICES ASSUME TypeOK, [Next]_vars, NEW n \in Name, table[n] # None, table'[n] # table[n]
               PROVE  \/ life'[table[n]] = "none"
                      \/ /\ table'[n] # None
                         /\ Adding(table'[n]) /\ life'[table'[n]] = "attached"
    OBVIOUS
  <2>1. \/ \E c \in Option, b \in BOOLEAN : EndAdd(c, b)
        \/ \E c \in Option : EndDelete(c)
    BY DEF Next, vars, New, ParseBegin, ParseEnd, BeginAdd, NextItem, Remove, Release,
       BeginDelete, Rename, SetGroup, LeaveGroup, Select, Unselect, names
  <2>2. ASSUME NEW c \in Option, NEW b \in BOOLEAN, EndAdd(c, b)
        PROVE  /\ table'[n] # None
               /\ Adding(table'[n]) /\ life'[table'[n]] = "attached"
    <3>1. PICK d \in AddedWith(c) : table'[n] = d
      BY <2>2 DEF EndAdd, NamesEntered
    <3>2. d \in Option /\ Adding(d) /\ d # None
      BY <3>1 DEF AddedWith
    <3>3. life'[d] = "attached"
      BY <2>2, <3>1, <3>2 DEF EndAdd
    <3> QED  BY <3>1, <3>2, <3>3
  <2>3. ASSUME NEW c \in Option, EndDelete(c)
        PROVE  table[n] = c /\ life'[c] = "none"
    BY <2>3 DEF EndDelete, ReapName, TypeOK
  <2> QED  BY <2>1, <2>2, <2>3
<1> QED  BY <1>1, TablesTypeCorrect, PTL DEF Spec, NamesAreKept

LEMMA InitNameInv == Init => NameInv
  BY DEF Init, NameInv, ParsingIsParsed, AddingIsManaged, Adding, NamesAreRegistered

\* Under the rules no step leaves a name to a control that will not take it back.
LEMMA NameStep ==
  ASSUME Careful, TypeOK, NameInv, [Next]_vars
  PROVE  NameInv'
<1> USE DEF NameInv, ParsingIsParsed, AddingIsManaged, NamesAreRegistered, Exists, Adding, TypeOK
<1>0. CASE UNCHANGED vars
  BY <1>0 DEF vars
<1>1. ASSUME NEW c \in Option, New(c) PROVE NameInv'
  BY <1>1 DEF New
<1>2. ASSUME NEW c \in Option, ParseBegin(c) PROVE NameInv'
  BY <1>2 DEF ParseBegin, names
<1>3. ASSUME NEW c \in Option, ParseEnd(c) PROVE NameInv'
  BY <1>3 DEF ParseEnd, names
<1>4. ASSUME NEW c \in Option, NEW k \in 1 .. MaxNested, BeginAdd(c, k) PROVE NameInv'
  BY <1>4 DEF BeginAdd, names
<1>11. ASSUME NEW c \in Option, NEW d \in Option, NextItem(c, d) PROVE NameInv'
  BY <1>11 DEF NextItem, Innermost, names
<1>12. ASSUME NEW c \in Option, NEW b \in BOOLEAN, EndAdd(c, b) PROVE NameInv'
  <2>1. /\ name' = name /\ managed' = managed
        /\ parsing' \subseteq parsing \cup AddedWith(c) /\ AddedWith(c) \subseteq Option
        /\ parsed \subseteq parsed' /\ (parsing' = parsing \/ AddedWith(c) \subseteq parsed')
        /\ \A d \in AddedWith(c) : Adding(d) /\ life'[d] = "attached"
        /\ \A d \in Option \ AddedWith(c) : life'[d] = life[d]
    BY <1>12 DEF EndAdd, AddedWith
  <2>2. \A n \in Name :
          \/ table'[n] = table[n]
          \/ table'[n] \in AddedWith(c) /\ name[table'[n]] = n
    BY <1>12 DEF EndAdd, NamesEntered
  <2>3. NamesAreRegistered'
    <3>1. ASSUME NEW n \in Name, NEW d \in Option, table'[n] = d
          PROVE  /\ name'[d] = n /\ life'[d] # "none"
                 /\ d \in managed' \/ (d \in parsed' /\ Exists(d)')
      <4>1. CASE d = table[n]
        BY <2>1, <4>1
      <4>2. CASE d \in AddedWith(c) /\ name[d] = n
        BY <2>1, <4>2
      <4> QED  BY <2>2, <3>1, <4>1, <4>2
    <3>2. \A n \in Name : table'[n] # None => table'[n] \in Option
      BY <1>12 DEF EndAdd, NamesEntered
    <3> QED  BY <3>1, <3>2
  <2>4. ParsingIsParsed'  BY <2>1
  <2>5. AddingIsManaged'  BY <2>1
  <2> QED  BY <2>3, <2>4, <2>5
<1>5. ASSUME NEW c \in Option, Remove(c) PROVE NameInv'
  BY <1>5 DEF Remove, names
<1>6. ASSUME NEW c \in Option, Release(c) PROVE NameInv'
  BY <1>6 DEF Release, makers, names
<1>7. ASSUME NEW c \in Option, BeginDelete(c) PROVE NameInv'
  BY <1>7 DEF BeginDelete, MayTouch, makers, names
<1>8. ASSUME NEW c \in Option, EndDelete(c) PROVE NameInv'
  <2>1. \A n \in Name : table'[n] # None => table'[n] = table[n] /\ table[n] # c
    BY <1>8 DEF EndDelete, ReapName
  <2>2. /\ life' = [life EXCEPT ![c] = "none"] /\ name' = [name EXCEPT ![c] = Empty]
        /\ parsing' = parsing
        /\ managed' = managed \ {c} /\ parsed' = parsed \ {c} /\ life[c] = "dying"
    BY <1>8 DEF EndDelete
  <2> QED  BY <2>1, <2>2
<1>9. ASSUME NEW c \in Option, NEW n \in Name \cup {Empty}, Rename(c, n) PROVE NameInv'
  BY <1>9 DEF Rename, MayRename, makers
<1>10. ASSUME UNCHANGED <<life, makers, names>> PROVE NameInv'
  BY <1>10 DEF makers, names
<1> QED
  BY <1>0, <1>1, <1>2, <1>3, <1>4, <1>5, <1>6, <1>7, <1>8, <1>9, <1>10,
     <1>11, <1>12
  DEF Next, SetGroup, LeaveGroup, Select, Unselect

\* FindControl(name) returns no control that is gone, when the application is careful
\* (UIManager.cpp:1937-1940, 3665-3673).
THEOREM NamedControlsExist == ASSUME Careful PROVE Spec => []NamesExist
<1>1. Spec => []NameInv
  BY InitNameInv, NameStep, TablesTypeCorrect, PTL DEF Spec
<1>2. NameInv => NamesExist
  BY DEF NameInv, NamesAreRegistered, NamesExist
<1> QED  BY <1>1, <1>2, PTL

(***************************************************************************)
(* Option groups.                                                          *)
(***************************************************************************)
LEMMA InitGroupInv == Init => GroupInv
  BY DEF Init, GroupInv, ParsingIsParsed, AddingIsManaged, InitsAreApart, WaitingIsInit,
     AttachedIsRegistered, MembersAreRegistered, ElectedAreMembers, OneElected, Exists, Adding,
     Registered

\* When an option is in the entry of its own group only, the two calls of SetGroup move it.
LEMMA MoveMember ==
  ASSUME TypeOK, MembersAreRegistered, NEW c \in Option, NEW g \in Group \cup {Empty},
         NEW h \in Group, NEW d \in Option
  PROVE  /\ d \in AddOptionGroup(RemoveOptionGroup(members, group[c], c), g, c)[h]
              <=> IF d = c THEN h = g ELSE d \in members[h]
         /\ d \in RemoveOptionGroup(members, group[c], c)[h] <=> d # c /\ d \in members[h]
<1>1. \A k \in Group : c \in members[k] => k = group[c]
  BY DEF MembersAreRegistered
<1>2. d \in RemoveOptionGroup(members, group[c], c)[h] <=> d # c /\ d \in members[h]
  BY <1>1 DEF RemoveOptionGroup, TypeOK
<1>3. RemoveOptionGroup(members, group[c], c) \in [Group -> SUBSET Option]
  BY TableTypes DEF TypeOK
<1>4. d \in AddOptionGroup(RemoveOptionGroup(members, group[c], c), g, c)[h]
        <=> (h = g /\ d = c) \/ d \in RemoveOptionGroup(members, group[c], c)[h]
  <2> HIDE DEF RemoveOptionGroup
  <2> QED  BY <1>3 DEF AddOptionGroup
<1> QED  BY <1>2, <1>4

LEMMA EnterMember ==
  ASSUME TypeOK, NEW c \in Option, NEW g \in Group, NEW d \in Option
  PROVE  d \in AddOptionGroup(members, group[c], c)[g]
           <=> d \in members[g] \/ (d = c /\ g = group[c])
BY DEF TypeOK, AddOptionGroup

\* Under the rules an option stays in the entry of its group as long as it has a reason to.
LEMMA GroupStep ==
  ASSUME Careful, ~Leaves, TypeOK, GroupInv, [Next]_vars
  PROVE  GroupInv'
<1> USE DEF GroupInv, ParsingIsParsed, AddingIsManaged, InitsAreApart, WaitingIsInit,
            AttachedIsRegistered, MembersAreRegistered, ElectedAreMembers, OneElected, Exists,
            Adding, Registered, TypeOK
<1>0. CASE UNCHANGED vars
  BY <1>0 DEF vars
<1>1. ASSUME NEW c \in Option, New(c) PROVE GroupInv'
  BY <1>1 DEF New
<1>2. ASSUME NEW c \in Option, ParseBegin(c) PROVE GroupInv'
  BY <1>2 DEF ParseBegin, MayParse, names, options
<1>3. ASSUME NEW c \in Option, ParseEnd(c) PROVE GroupInv'
  BY <1>3 DEF ParseEnd, names, options
<1>4. ASSUME NEW c \in Option, NEW k \in 1 .. MaxNested, BeginAdd(c, k) PROVE GroupInv'
  <2>1. /\ life[c] = "loose" /\ life' = [life EXCEPT ![c] = "init"]
        /\ c \notin parsing /\ managed' = managed \cup {c}
        /\ waiting' = IF Waits(c) THEN waiting \cup {c} ELSE waiting
        /\ UNCHANGED <<parsing, parsed, group, members, elected>>
    BY <1>4 DEF BeginAdd
  <2>2. InitsAreApart'
    <3>1. \A d \in Option : Adding(d) => level[d] # k
      BY <1>4 DEF BeginAdd
    <3>2. level' = [level EXCEPT ![c] = k]
      BY <1>4 DEF BeginAdd
    <3> QED  BY <2>1, <3>1, <3>2
  <2>3. \A d \in Option \ {c} : life'[d] = life[d] /\ (d \in waiting' <=> d \in waiting)
    BY <2>1
  <2>4. MembersAreRegistered'  BY <2>1, <2>3 DEF Waits
  <2>5. ElectedAreMembers' /\ OneElected'  BY <2>1
  <2>6. ParsingIsParsed' /\ AddingIsManaged' /\ AttachedIsRegistered'  BY <2>1
  <2>7. WaitingIsInit'  BY <2>1, <2>3
  <2> QED  BY <2>2, <2>4, <2>5, <2>6, <2>7
<1>14. ASSUME NEW c \in Option, NEW d \in Option, NextItem(c, d) PROVE GroupInv'
  <2>1. /\ life[c] = "init" /\ life[d] = "loose" /\ d \notin parsing /\ c # d
        /\ life' = [life EXCEPT ![c] = "entered", ![d] = "init"]
        /\ managed' = managed \cup {d}
        /\ waiting' = (waiting \ {c}) \cup (IF Waits(d) THEN {d} ELSE {})
        /\ UNCHANGED <<parsing, parsed, group, elected>>
    BY <1>14 DEF NextItem, Innermost
  <2>2. InitsAreApart'
    <3>1. level' = [level EXCEPT ![d] = level[c]]
      BY <1>14 DEF NextItem
    <3> QED  BY <2>1, <3>1
  <2>3. \A g \in Group, e \in Option :
          e \in members'[g] <=> e \in members[g] \/ (e = c /\ g = group[c])
    BY <1>14, EnterMember DEF NextItem
  <2>4. \A e \in Option \ {c, d} : life'[e] = life[e] /\ (e \in waiting' <=> e \in waiting)
    BY <2>1
  <2>5. /\ life'[c] = "entered" /\ c \notin waiting' /\ c \in Registered
        /\ life'[d] = "init" /\ d \in managed' /\ d \notin waiting /\ (d \in waiting' <=> Waits(d))
    BY <2>1
  <2>6. MembersAreRegistered'
    <3> SUFFICES ASSUME NEW g \in Group, NEW e \in Option
                 PROVE  e \in members'[g] <=> /\ Exists(e)' /\ group'[e] = g
                                             /\ e \in (Registered \ waiting)'
      OBVIOUS
    <3>1. CASE e = c  BY <2>1, <2>3, <2>5, <3>1
    <3>2. CASE e = d  BY <2>1, <2>3, <2>5, <3>2 DEF Waits
    <3>3. CASE e \notin {c, d}  BY <2>1, <2>3, <2>4, <3>3
    <3> QED  BY <3>1, <3>2, <3>3
  <2>7. ElectedAreMembers' /\ OneElected'  BY <2>1, <2>3
  <2>8. ParsingIsParsed' /\ AddingIsManaged' /\ AttachedIsRegistered'  BY <2>1
  <2>9. WaitingIsInit'  BY <2>1, <2>4, <2>5
  <2> QED  BY <2>2, <2>6, <2>7, <2>8, <2>9
<1>15. ASSUME NEW c \in Option, NEW b \in BOOLEAN, EndAdd(c, b) PROVE GroupInv'
  <2>1. /\ life[c] = "init" /\ c \in AddedWith(c)
        /\ waiting' = waiting \ {c}
        /\ UNCHANGED <<managed, group, elected>>
        /\ parsing' \subseteq parsing \cup AddedWith(c)
        /\ parsed' \subseteq parsed \cup AddedWith(c)
        /\ parsed \subseteq parsed' /\ (parsing' = parsing \/ AddedWith(c) \subseteq parsed')
    BY <1>15 DEF EndAdd, Innermost, AddedWith
  <2>2. /\ AddedWith(c) \subseteq Option
        /\ \A d \in AddedWith(c) : /\ Adding(d) /\ d \in managed /\ level[d] = level[c]
                                   /\ life'[d] = "attached" /\ level'[d] = 0
        /\ \A d \in Option \ AddedWith(c) : life'[d] = life[d] /\ level'[d] = level[d]
    BY <1>15 DEF EndAdd, AddedWith
  <2>3. InitsAreApart'  BY <2>2
  <2>4. \A d \in waiting' : d \in waiting /\ d \notin AddedWith(c)
    BY <2>1, <2>2
  <2>5. \A g \in Group, d \in Option :
          d \in members'[g] <=> d \in members[g] \/ (d = c /\ g = group[c])
    BY <1>15, EnterMember DEF EndAdd
  <2>6. \A d \in Option : /\ Exists(d)' = Exists(d)
                          /\ d \in Registered' <=> d \in Registered
    BY <2>1, <2>2
  <2>7. MembersAreRegistered'
    <3>1. c \in Registered /\ c \notin waiting' /\ Exists(c)
      BY <2>1, <2>2
    <3> QED  BY <2>1, <2>5, <2>6, <3>1
  <2>8. ElectedAreMembers' /\ OneElected'  BY <2>1, <2>5
  <2>9. ParsingIsParsed'  BY <2>1, <2>2
  <2>10. AddingIsManaged' /\ AttachedIsRegistered'  BY <2>1, <2>2
  <2>11. WaitingIsInit'  BY <2>2, <2>4
  <2> QED  BY <2>3, <2>7, <2>8, <2>9, <2>10, <2>11
<1>5. ASSUME NEW c \in Option, Remove(c) PROVE GroupInv'
  BY <1>5 DEF Remove, names, options
<1>6. ASSUME NEW c \in Option, Release(c) PROVE GroupInv'
  BY <1>6 DEF Release, makers, names, options
<1>7. ASSUME NEW c \in Option, BeginDelete(c) PROVE GroupInv'
  <2>1. \A g \in Group, d \in Option : d \in members'[g] <=> d # c /\ d \in members[g]
    <3>1. CASE c \in managed
      BY <1>7, <3>1, MoveMember DEF BeginDelete
    <3>2. CASE c \notin managed
      BY <1>7, <3>2 DEF BeginDelete, MayTouch
    <3> QED  BY <3>1, <3>2
  <2>2. /\ life' = [life EXCEPT ![c] = "dying"] /\ group' = [group EXCEPT ![c] = Empty]
        /\ elected' = elected \ {c} /\ c \notin parsing /\ ~Adding(c)
        /\ UNCHANGED <<level, managed, parsing, parsed, waiting>>
    BY <1>7 DEF BeginDelete, makers
  <2>3. MembersAreRegistered'  BY <2>1, <2>2
  <2>4. ElectedAreMembers' /\ OneElected'  BY <2>1, <2>2
  <2>5. InitsAreApart' /\ WaitingIsInit'  BY <2>2
  <2> QED  BY <2>2, <2>3, <2>4, <2>5
<1>8. ASSUME NEW c \in Option, EndDelete(c) PROVE GroupInv'
  BY <1>8 DEF EndDelete, options
<1>9. ASSUME NEW c \in Option, NEW n \in Name \cup {Empty}, Rename(c, n) PROVE GroupInv'
  BY <1>9 DEF Rename, makers, options
<1>10. ASSUME NEW c \in Option, NEW g \in Group \cup {Empty}, SetGroup(c, g) PROVE GroupInv'
  <2>1. \A h \in Group, d \in Option :
          d \in members'[h] <=> IF d = c /\ c \in managed THEN h = g ELSE d \in members[h]
    <3>1. CASE c \in managed
      BY <1>10, <3>1, MoveMember DEF SetGroup
    <3>2. CASE c \notin managed
      BY <1>10, <3>2 DEF SetGroup
    <3> QED  BY <3>1, <3>2
  <2>2. /\ group' = [group EXCEPT ![c] = g] /\ elected' = elected \ {c}
        /\ waiting' = waiting \ {c} /\ UNCHANGED <<life, level, managed, parsing, parsed>>
        /\ Exists(c) /\ (c \in managed \/ c \notin parsed)
    BY <1>10 DEF SetGroup, MayTouch, makers
  <2>3. MembersAreRegistered'  BY <2>1, <2>2
  <2> QED  BY <2>1, <2>2, <2>3
<1>11. ASSUME NEW c \in Option, LeaveGroup(c) PROVE GroupInv'
  <2>1. /\ c \notin managed /\ c \notin parsed
        /\ members' = members /\ group' = [group EXCEPT ![c] = Empty]
        /\ elected' = elected \ {c} /\ waiting' = waiting \ {c}
        /\ UNCHANGED <<life, level, managed, parsing, parsed>>
    BY <1>11 DEF LeaveGroup, MayLeave, MayTouch, makers
  <2> QED  BY <2>1
<1>12. ASSUME NEW c \in Option, Select(c) PROVE GroupInv'
  <2>1. CASE c \in managed /\ group[c] # Empty
    <3>1. /\ elected' = (elected \cup {c}) \ Unselected(c)
          /\ UNCHANGED <<life, level, managed, parsing, parsed, group, members, waiting>>
          /\ Exists(c) /\ c \notin waiting
      BY <1>12, <2>1 DEF Select, MaySelect, makers
    <3>2. c \in members[group[c]] /\ group[c] \in Group
      BY <2>1, <3>1
    <3>3. \A d \in elected' : d # c => d \in elected /\ d \notin members[group[c]]
      BY <3>1 DEF Unselected
    <3>4. ElectedAreMembers'  BY <3>1, <3>2, <3>3
    <3>5. OneElected'  BY <3>1, <3>2, <3>3
    <3> QED  BY <3>1, <3>4, <3>5
  <2>2. CASE ~(c \in managed /\ group[c] # Empty)
    BY <1>12, <2>2 DEF Select, makers
  <2> QED  BY <2>1, <2>2
<1>13. ASSUME NEW c \in Option, Unselect(c) PROVE GroupInv'
  BY <1>13 DEF Unselect, makers
<1> QED
  BY <1>0, <1>1, <1>2, <1>3, <1>4, <1>5, <1>6, <1>7, <1>8, <1>9, <1>10, <1>11, <1>12, <1>13,
     <1>14, <1>15
  DEF Next

\* The invariant of the groups, for an application that follows the rules.
THEOREM GroupInvariant == ASSUME Careful, ~Leaves PROVE Spec => []GroupInv
  BY InitGroupInv, GroupStep, TablesTypeCorrect, PTL DEF Spec

\* Selected(true) calls no option that is gone or in its destructor (UIOption.cpp:13, 80-82).
THEOREM MembersExist == ASSUME Careful, ~Leaves PROVE Spec => []GroupMembersExist
<1>1. GroupInv /\ TypeOK => GroupMembersExist
  BY DEF GroupInv, MembersAreRegistered, GroupMembersExist, TypeOK
<1> QED  BY <1>1, GroupInvariant, TablesTypeCorrect, PTL

\* With a manager and a group, an option finds an entry with itself in every Selected(true) that
\* the rules allow (UIOption.cpp:78-79); they forbid it only in SetManager (UIOption.cpp:29-31).
THEOREM GroupIsFound == ASSUME Careful, ~Leaves PROVE Spec => []SelectedFindsItsGroup
<1>1. ASSUME Careful, GroupInv, TypeOK PROVE SelectedFindsItsGroup
  BY <1>1 DEF GroupInv, MembersAreRegistered, WaitingIsInit, SelectedFindsItsGroup, MaySelect,
     TypeOK, Registered
<1> QED  BY <1>1, GroupInvariant, TablesTypeCorrect, PTL

\* One option at most of those selected through a group is still selected
\* (UIOption.cpp:77-84).
THEOREM OneIsElected == ASSUME Careful, ~Leaves PROVE Spec => []OneElected
<1>1. GroupInv => OneElected
  BY DEF GroupInv
<1> QED  BY <1>1, GroupInvariant, PTL

(***************************************************************************)
(* ControlTables implements OptionGroups.                                  *)
(***************************************************************************)
ElectedAreSelected == elected \subseteq selected

LEMMA SelectedStep ==
  ASSUME TypeOK, ElectedAreSelected, [Next]_vars
  PROVE  ElectedAreSelected'
BY DEF ElectedAreSelected, Next, vars, New, ParseBegin, ParseEnd, BeginAdd, NextItem, EndAdd,
   Remove, Release, BeginDelete, EndDelete, Rename, SetGroup, LeaveGroup, Select, Unselect,
   options, TypeOK

InGroup(c) == Exists(c) /\ group[c] # Empty /\ c \in Registered /\ c \notin waiting

LEMMA GroupOfOption ==
  ASSUME TypeOK, NEW c \in Option
  PROVE  /\ GroupOf[c] = IF InGroup(c) THEN group[c] ELSE Empty
         /\ GroupOf[c] \in Group \cup {Empty}
BY DEF GroupOf, InGroup, Registered, TypeOK

LEMMA ElectedInGroup ==
  ASSUME TypeOK, GroupInv, NEW c \in elected
  PROVE  c \in Option /\ InGroup(c)
BY DEF TypeOK, GroupInv, ElectedAreMembers, MembersAreRegistered, InGroup

(* A step that leaves every option in its group, and the choices alone. *)
LEMMA SameGroups ==
  ASSUME TypeOK, TypeOK', elected' = elected,
         \A d \in Option : InGroup(d)' = InGroup(d),
         \A d \in Option : InGroup(d) => group'[d] = group[d]
  PROVE  UNCHANGED Groups!vars
<1>1. GroupOf' = GroupOf
  BY DEF GroupOf, InGroup, Registered
<1> QED  BY <1>1 DEF Groups!vars

(* A step that moves one option. *)
LEMMA MoveOption ==
  ASSUME TypeOK, TypeOK', NEW c \in Option, elected' = elected \ {c},
         \A d \in Option \ {c} : group'[d] = group[d] /\ InGroup(d)' = InGroup(d),
         GroupOf'[c] # GroupOf[c], GroupOf'[c] \in Group \cup {Empty}
  PROVE  Groups!Move(c)
<1>1. \A d \in Option \ {c} : GroupOf'[d] = GroupOf[d]
  BY DEF GroupOf, InGroup, Registered
<1>2. GroupOf' = [GroupOf EXCEPT ![c] = GroupOf'[c]]
  BY <1>1 DEF GroupOf
<1> QED  BY <1>2 DEF Groups!Move

(* The end of SetManager is the move of an option that was waiting. *)
LEMMA Enters ==
  ASSUME TypeOK, TypeOK', GroupInv, NEW c \in Option, life[c] = "init",
         Exists(c)', c \in Registered', c \notin waiting', group' = group, elected' = elected,
         \A d \in Option \ {c} : InGroup(d)' = InGroup(d)
  PROVE  Groups!Move(c) \/ UNCHANGED Groups!vars
<1>1. InGroup(c)' = (group[c] # Empty)
  BY DEF InGroup
<1>2. CASE InGroup(c)' = InGroup(c)
  BY <1>2, SameGroups
<1>3. CASE InGroup(c)' # InGroup(c)
  <2>1. ~InGroup(c) /\ group[c] # Empty
    BY <1>1, <1>3 DEF InGroup
  <2>2. GroupOf[c] = Empty /\ GroupOf'[c] = group[c]
    BY <1>1, <2>1 DEF GroupOf, InGroup, Registered
  <2>3. elected' = elected \ {c}
    BY <2>1, ElectedInGroup
  <2>4. group[c] \in Group
    BY <2>1 DEF TypeOK
  <2> QED  BY <2>1, <2>2, <2>3, <2>4, MoveOption
<1> QED  BY <1>2, <1>3

LEMMA GroupsStep ==
  ASSUME Careful, ~Leaves, TypeOK, TypeOK', GroupInv, ElectedAreSelected, [Next]_vars
  PROVE  [Groups!Next]_Groups!vars
<1>0. CASE UNCHANGED vars
  BY <1>0, SameGroups DEF vars, InGroup, Exists, Adding, Registered
<1>1. ASSUME NEW c \in Option, New(c) PROVE UNCHANGED Groups!vars
  <2>1. c \notin elected
    BY <1>1, ElectedInGroup DEF New, InGroup, Exists, Adding
  <2> QED  BY <1>1, <2>1, SameGroups DEF New, InGroup, Exists, Adding, Registered, TypeOK
<1>2. ASSUME NEW c \in Option, ParseBegin(c) PROVE UNCHANGED Groups!vars
  BY <1>2, SameGroups DEF ParseBegin, MayParse, options, InGroup, Exists, Adding, Registered, TypeOK
<1>3. ASSUME NEW c \in Option, ParseEnd(c) PROVE UNCHANGED Groups!vars
  BY <1>3, SameGroups
  DEF ParseEnd, options, InGroup, Exists, Adding, Registered, TypeOK, GroupInv, ParsingIsParsed
<1>4. ASSUME NEW c \in Option, NEW k \in 1 .. MaxNested, BeginAdd(c, k)
      PROVE  UNCHANGED Groups!vars
  <2>1. /\ life[c] = "loose" /\ life' = [life EXCEPT ![c] = "init"]
        /\ managed' = managed \cup {c}
        /\ waiting' = IF Waits(c) THEN waiting \cup {c} ELSE waiting
        /\ UNCHANGED <<parsed, group, elected>>
    BY <1>4 DEF BeginAdd
  <2>2. c \notin waiting
    BY <2>1 DEF GroupInv, WaitingIsInit
  <2>3. \A d \in Option : InGroup(d)' = InGroup(d)
    BY <2>1, <2>2 DEF InGroup, Exists, Adding, Registered, Waits, TypeOK
  <2> QED  BY <2>1, <2>3, SameGroups
<1>14. ASSUME NEW c \in Option, NEW d \in Option, NextItem(c, d)
       PROVE  Groups!Move(c) \/ UNCHANGED Groups!vars
  <2>1. /\ life[c] = "init" /\ life[d] = "loose" /\ c # d
        /\ life' = [life EXCEPT ![c] = "entered", ![d] = "init"]
        /\ managed' = managed \cup {d}
        /\ waiting' = (waiting \ {c}) \cup (IF Waits(d) THEN {d} ELSE {})
        /\ UNCHANGED <<parsed, group, elected>>
    BY <1>14 DEF NextItem, Innermost
  <2>2. d \notin waiting
    BY <2>1 DEF GroupInv, WaitingIsInit
  <2>3. \A e \in Option \ {c} : InGroup(e)' = InGroup(e)
    BY <2>1, <2>2 DEF InGroup, Exists, Adding, Registered, Waits, TypeOK
  <2>4. Exists(c)' /\ c \in Registered' /\ c \notin waiting'
    BY <2>1 DEF Exists, Adding, Registered, GroupInv, AddingIsManaged, TypeOK
  <2> QED  BY <2>1, <2>3, <2>4, Enters
<1>15. ASSUME NEW c \in Option, NEW b \in BOOLEAN, EndAdd(c, b)
       PROVE  Groups!Move(c) \/ UNCHANGED Groups!vars
  <2>1. /\ life[c] = "init" /\ c \in AddedWith(c)
        /\ waiting' = waiting \ {c}
        /\ UNCHANGED <<managed, group, elected>>
        /\ parsed \subseteq parsed' /\ parsed' \subseteq parsed \cup AddedWith(c)
    BY <1>15 DEF EndAdd, Innermost, AddedWith, Adding
  <2>2. /\ \A d \in AddedWith(c) : Adding(d) /\ d \in managed /\ life'[d] = "attached"
        /\ \A d \in Option \ AddedWith(c) : life'[d] = life[d]
    BY <1>15 DEF EndAdd, AddedWith, GroupInv, AddingIsManaged
  <2>3. \A d \in Option : Exists(d)' = Exists(d) /\ (d \in Registered' <=> d \in Registered)
    BY <2>1, <2>2 DEF Exists, Adding, Registered
  <2>4. \A d \in Option \ {c} : InGroup(d)' = InGroup(d)
    BY <2>1, <2>3 DEF InGroup
  <2>5. Exists(c)' /\ c \in Registered' /\ c \notin waiting'
    BY <2>1, <2>2, <2>3 DEF Exists, Adding, Registered
  <2> QED  BY <2>1, <2>4, <2>5, Enters
<1>5. ASSUME NEW c \in Option, Remove(c) PROVE UNCHANGED Groups!vars
  BY <1>5, SameGroups
  DEF Remove, options, InGroup, Exists, Adding, Registered, TypeOK, GroupInv, AttachedIsRegistered
<1>6. ASSUME NEW c \in Option, Release(c) PROVE UNCHANGED Groups!vars
  BY <1>6, SameGroups DEF Release, makers, options, InGroup, Exists, Adding, Registered, TypeOK
<1>7. ASSUME NEW c \in Option, BeginDelete(c)
      PROVE  Groups!Move(c) \/ UNCHANGED Groups!vars
  <2>1. /\ life' = [life EXCEPT ![c] = "dying"] /\ elected' = elected \ {c}
        /\ group' = [group EXCEPT ![c] = Empty] /\ UNCHANGED <<managed, parsed, waiting>>
    BY <1>7 DEF BeginDelete, makers
  <2>2. \A d \in Option \ {c} : group'[d] = group[d] /\ InGroup(d)' = InGroup(d)
    BY <2>1 DEF InGroup, Exists, Adding, Registered, TypeOK
  <2>3. ~InGroup(c)'
    BY <2>1 DEF InGroup, Exists, Adding, TypeOK
  <2>4. CASE ~InGroup(c)
    <3>1. elected' = elected
      BY <2>1, <2>4, ElectedInGroup
    <3>2. \A d \in Option : InGroup(d)' = InGroup(d) /\ (InGroup(d) => group'[d] = group[d])
      BY <2>1, <2>2, <2>3, <2>4 DEF InGroup
    <3> QED  BY <3>1, <3>2, SameGroups
  <2>5. CASE InGroup(c)
    <3>1. GroupOf'[c] = Empty /\ GroupOf[c] = group[c] /\ group[c] # Empty
      BY <2>3, <2>5 DEF GroupOf, InGroup, Registered
    <3> QED  BY <2>1, <2>2, <3>1, MoveOption
  <2> QED  BY <2>4, <2>5
<1>8. ASSUME NEW c \in Option, EndDelete(c) PROVE UNCHANGED Groups!vars
  BY <1>8, SameGroups DEF EndDelete, options, InGroup, Exists, Adding, Registered, TypeOK
<1>9. ASSUME NEW c \in Option, NEW n \in Name \cup {Empty}, Rename(c, n)
      PROVE  UNCHANGED Groups!vars
  BY <1>9, SameGroups DEF Rename, makers, options, InGroup, Exists, Adding, Registered
<1>10. ASSUME NEW c \in Option, NEW g \in Group \cup {Empty}, SetGroup(c, g)
       PROVE  Groups!Move(c) \/ UNCHANGED Groups!vars
  <2>1. /\ Exists(c) /\ group[c] # g /\ (c \in managed \/ c \notin parsed)
        /\ group' = [group EXCEPT ![c] = g] /\ elected' = elected \ {c}
        /\ waiting' = waiting \ {c} /\ UNCHANGED <<life, managed, parsed>>
    BY <1>10 DEF SetGroup, MayTouch, makers
  <2>2. \A d \in Option \ {c} : group'[d] = group[d] /\ InGroup(d)' = InGroup(d)
    BY <2>1 DEF InGroup, Exists, Adding, Registered, TypeOK
  <2>3. group'[c] = g
    BY <2>1 DEF TypeOK
  <2>4. CASE c \in managed /\ c \notin waiting
    <3>1. GroupOf'[c] = g /\ GroupOf[c] = group[c]
      BY <2>1, <2>3, <2>4 DEF GroupOf, Exists, Adding
    <3> QED  BY <2>1, <2>2, <3>1, MoveOption
  <2>5. CASE c \in managed /\ c \in waiting /\ g # Empty
    <3>1. GroupOf'[c] = g /\ GroupOf[c] = Empty
      BY <2>1, <2>3, <2>5 DEF GroupOf, Exists, Adding
    <3> QED  BY <2>1, <2>2, <2>5, <3>1, MoveOption
  <2>6. CASE c \notin managed \/ (c \in waiting /\ g = Empty)
    <3>1. ~InGroup(c) /\ ~InGroup(c)'
      BY <2>1, <2>3, <2>6 DEF InGroup, Registered
    <3>2. elected' = elected
      BY <2>1, <3>1, ElectedInGroup
    <3>3. \A d \in Option : InGroup(d)' = InGroup(d) /\ (InGroup(d) => group'[d] = group[d])
      BY <2>2, <3>1 DEF InGroup
    <3> QED  BY <3>2, <3>3, SameGroups
  <2> QED  BY <2>4, <2>5, <2>6
<1>11. ASSUME NEW c \in Option, LeaveGroup(c) PROVE UNCHANGED Groups!vars
  <2>1. /\ c \notin managed /\ c \notin parsed
        /\ group' = [group EXCEPT ![c] = Empty] /\ elected' = elected \ {c}
        /\ waiting' = waiting \ {c} /\ UNCHANGED <<life, managed, parsed>>
    BY <1>11 DEF LeaveGroup, MayLeave, MayTouch, makers
  <2>2. ~InGroup(c)
    BY <2>1 DEF InGroup, Registered
  <2>3. elected' = elected
    BY <2>1, <2>2, ElectedInGroup
  <2> QED  BY <2>1, <2>3, SameGroups DEF InGroup, Exists, Adding, Registered, TypeOK
<1>12. ASSUME NEW c \in Option, Select(c)
       PROVE  Groups!Choose(c) \/ UNCHANGED Groups!vars
  <2>1. /\ Exists(c) /\ c \notin elected /\ c \notin waiting
        /\ UNCHANGED <<life, managed, parsed, group, waiting>>
    BY <1>12 DEF Select, MaySelect, ElectedAreSelected, makers
  <2>2. \A d \in Option : InGroup(d)' = InGroup(d) /\ group'[d] = group[d]
    BY <2>1 DEF InGroup, Exists, Adding, Registered
  <2>3. CASE c \in managed /\ group[c] # Empty
    <3>1. elected' = (elected \cup {c}) \ Unselected(c)
      BY <1>12, <2>3 DEF Select
    <3>2. GroupOf[c] = group[c] /\ group[c] \in Group
      BY <2>1, <2>3, GroupOfOption DEF InGroup, Registered, TypeOK
    <3>3. \A d \in elected : /\ d \in Option /\ d # c
                             /\ d \in members[group[c]] <=> GroupOf[d] = GroupOf[c]
      BY <2>1, <3>2, ElectedInGroup, GroupOfOption
      DEF GroupInv, MembersAreRegistered, InGroup
    <3>4. elected' = {d \in elected : GroupOf[d] # GroupOf[c]} \cup {c}
      BY <3>1, <3>3 DEF Unselected
    <3>5. GroupOf' = GroupOf
      BY <2>1 DEF GroupOf, Exists, Adding
    <3> QED  BY <2>1, <2>3, <3>2, <3>4, <3>5 DEF Groups!Choose
  <2>4. CASE ~(c \in managed /\ group[c] # Empty)
    <3>1. elected' = elected
      BY <1>12, <2>1, <2>4 DEF Select
    <3> QED  BY <2>2, <3>1, SameGroups
  <2> QED  BY <2>3, <2>4
<1>13. ASSUME NEW c \in Option, Unselect(c)
       PROVE  Groups!Drop(c) \/ UNCHANGED Groups!vars
  <2>1. elected' = elected \ {c} /\ UNCHANGED <<life, managed, parsed, group, waiting>>
    BY <1>13 DEF Unselect, makers
  <2>2. GroupOf' = GroupOf
    BY <2>1 DEF GroupOf, Exists, Adding
  <2> QED  BY <2>1, <2>2 DEF Groups!Drop, Groups!vars
<1> QED
  BY <1>0, <1>1, <1>2, <1>3, <1>4, <1>5, <1>6, <1>7, <1>8, <1>9, <1>10, <1>11, <1>12, <1>13,
     <1>14, <1>15
  DEF Next, Groups!Next

\* The table of the groups, the managers, the skin builder and the life of the options hidden,
\* choosing an option takes the choice from the others of its group and from no other option
\* (UIOption.cpp:40-84), for an application that follows the rules.
THEOREM GroupsAreImplemented == ASSUME Careful, ~Leaves PROVE Spec => ImplementsOptionGroups
<1>1. Init => Groups!Init
  BY DEF Init, Groups!Init, GroupOf
<1>2. Init => ElectedAreSelected
  BY DEF Init, ElectedAreSelected
<1>3. TypeOK /\ TypeOK' /\ GroupInv /\ ElectedAreSelected /\ [Next]_vars
        => ElectedAreSelected' /\ [Groups!Next]_Groups!vars
  BY GroupsStep, SelectedStep
<1> QED
  BY <1>1, <1>2, <1>3, GroupInvariant, TablesTypeCorrect,
     PTL DEF Spec, ImplementsOptionGroups, Groups!Spec
=============================================================================
