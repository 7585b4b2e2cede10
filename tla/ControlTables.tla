---------------------------- MODULE ControlTables ----------------------------
(***************************************************************************)
(* The tables of CPaintManagerUI that name controls: m_mNameHash, which    *)
(* FindControl(name) reads, and m_mOptionGroup, through which the options  *)
(* of a group unselect each other.                                         *)
(*                                                                         *)
(* A control registers when it is added to a tree that has a manager, an   *)
(* option also when it is given a group while m_pManager is set, and both  *)
(* sign off in their destructors, through m_pManager.  CDialogBuilder sets *)
(* that pointer while it applies the attributes of a control and resets it *)
(* afterwards, whether or not the control is in a tree.                    *)
(*                                                                         *)
(* Adding a control or a subtree takes several steps: each item gets the   *)
(* manager, its OnInit callback runs, it enters its group, and the names   *)
(* are entered when all items are done.  The callback is application code: *)
(* any step may come in it, another Add among them.                        *)
(***************************************************************************)
EXTENDS Naturals

CONSTANTS
  Option,     \* addresses of options (any control, for the names)
  Name,       \* control names
  Group,      \* option groups
  Empty,      \* the empty string
  None,       \* NULL
  MaxNested,  \* bound: how many calls of InitControls are below each other
  Careful,    \* TRUE: the application keeps the rules that the code depends on (below)
  Leaves      \* TRUE: it also calls SetGroup(NULL), the default argument, on options with a manager

ASSUME StringAssumption == Empty \notin Name /\ Empty \notin Group
ASSUME NullAssumption == None \notin Option /\ None \notin Group \cup {Empty}
ASSUME NestedAssumption == MaxNested \in Nat
ASSUME FlagAssumption == Careful \in BOOLEAN /\ Leaves \in BOOLEAN

VARIABLES
  life,       \* [Option -> Life]
  level,      \* how deep the InitControls is nested that is adding the option, 0 for none
  managed,    \* the options with m_pManager
  parsing,    \* those whose attributes CDialogBuilder is applying
  parsed,     \* those that it was given and that exist still
  name,       \* m_sName
  table,      \* m_mNameHash
  group,      \* m_sGroupName
  members,    \* m_mOptionGroup: no entry is the empty set
  waiting,    \* those in a group that enter it at the end of the SetManager they are in: they
              \* got the group when they had no manager
  selected,   \* those with m_bSelected
  elected     \* those that were selected through the group they are in

vars ==
  <<life, level, managed, parsing, parsed, name, table, group, members, waiting, selected, elected>>
options == <<group, members, waiting, selected, elected>>
names == <<name, table>>
makers == <<level, managed, parsing, parsed>>

\* not existing; existing outside of a tree; in SetManager, where the OnInit callback runs;
\* after SetManager and before its name is entered; in a tree with a manager; waiting in
\* m_aDelayedCleanup; in ~CControlUI, where the OnDestroy callback runs
Life == {"none", "loose", "init", "entered", "attached", "removed", "dying"}

TypeOK ==
  /\ life \in [Option -> Life]
  /\ level \in [Option -> 0 .. MaxNested]
  /\ managed \subseteq Option /\ parsing \subseteq Option /\ parsed \subseteq Option
  /\ name \in [Option -> Name \cup {Empty}]
  /\ table \in [Name -> Option \cup {None}]
  /\ group \in [Option -> Group \cup {Empty}]
  /\ members \in [Group -> SUBSET Option] /\ waiting \subseteq Option
  /\ selected \subseteq Option /\ elected \subseteq Option

Init ==
  /\ life = [c \in Option |-> "none"] /\ level = [c \in Option |-> 0]
  /\ managed = {} /\ parsing = {} /\ parsed = {}
  /\ name = [c \in Option |-> Empty]
  /\ table = [n \in Name |-> None]
  /\ group = [c \in Option |-> Empty]
  /\ members = [g \in Group |-> {}] /\ waiting = {}
  /\ selected = {} /\ elected = {}

Adding(c) == life[c] \in {"init", "entered"}
Exists(c) == life[c] \in {"loose", "attached", "removed"} \/ Adding(c)

(***************************************************************************)
(* The rules of a careful application: it does not rename a control that   *)
(* FindControl finds, it gives CDialogBuilder no option that got its group *)
(* elsewhere, it does not regroup or delete what CDialogBuilder made       *)
(* before that has a manager again, and in the OnInit of an option that    *)
(* got its group before it was added it does not select that option.       *)
(***************************************************************************)
MayRename(c) == Careful => \A n \in Name : table[n] # c
MayParse(c) == Careful => c \in parsed \/ group[c] = Empty
MayTouch(c) == Careful => c \in managed \/ c \notin parsed
MaySelect(c) == Careful => c \notin waiting
MayLeave(c) == Leaves \/ c \notin managed

(***************************************************************************)
(* The tables.                                                             *)
(***************************************************************************)
\* Mutants: the empty name becomes a group; the option is not entered; it is not removed.
AddUnnamed(m, g, c) ==
  [h \in DOMAIN m \cup {g} |->
     (IF h \in DOMAIN m THEN m[h] ELSE {}) \cup (IF h = g THEN {c} ELSE {})]
AddNobody(m, g, c) == m
RemoveNobody(m, g, c) == m
\* AddOptionGroup and RemoveOptionGroup.  The first is not called for the empty name, the
\* second finds no entry for it.
AddOptionGroup(m, g, c) == IF g = Empty THEN m ELSE [m EXCEPT ![g] = @ \cup {c}]
RemoveOptionGroup(m, g, c) == IF g = Empty THEN m ELSE [m EXCEPT ![g] = @ \ {c}]

\* __FindControlFromNameHash, over the controls that are added: the last one with a name
\* has it.
NamesEntered(added) ==
  {t \in [Name -> Option \cup {None}] :
     \A n \in Name :
       \/ \E c \in added : name[c] = n /\ t[n] = c
       \/ (\A c \in added : name[c] # n) /\ t[n] = table[n]}

\* Mutants of ReapName: no comparison with the control that has the name; no removal.
ReapAnyName(c) ==
  IF name[c] # Empty /\ c \in managed THEN [table EXCEPT ![name[c]] = None] ELSE table
ReapNoName(c) == table
\* ReapObjects, for the name
ReapName(c) ==
  IF name[c] # Empty /\ c \in managed /\ table[name[c]] = c
  THEN [table EXCEPT ![name[c]] = None] ELSE table

(***************************************************************************)
(* Life.                                                                   *)
(***************************************************************************)
\* The constructors
New(c) ==
  /\ life[c] = "none"
  /\ life' = [life EXCEPT ![c] = "loose"]
  /\ name' = [name EXCEPT ![c] = Empty]
  /\ group' = [group EXCEPT ![c] = Empty]
  /\ selected' = selected \ {c} /\ elected' = elected \ {c}
  /\ managed' = managed \ {c} /\ parsed' = parsed \ {c}
  /\ UNCHANGED <<level, parsing, table, members, waiting>>

\* CDialogBuilder: SetManager(pManager, NULL, false) before the attributes of a control, or
\* of a container that it is in ...
ParseBegin(c) ==
  /\ life[c] = "loose" /\ c \notin parsing
  /\ MayParse(c)
  /\ managed' = managed \cup {c}
  /\ parsing' = parsing \cup {c} /\ parsed' = parsed \cup {c}
  /\ UNCHANGED <<life, level, names, options>>

\* ... and SetManager(NULL, NULL, false) after them
ParseEnd(c) ==
  /\ c \in parsing
  /\ managed' = managed \ {c}
  /\ parsing' = parsing \ {c}
  /\ UNCHANGED <<life, level, parsed, names, options>>

\* The option whose OnInit is the innermost callback
Innermost(c) == life[c] = "init" /\ \A d \in Option : Adding(d) => level[d] <= level[c]
\* The options of the call of InitControls that adds c
AddedWith(c) == {d \in Option : Adding(d) /\ level[d] = level[c]}
\* c waits for its AddOptionGroup when it has a group that it was not entered into before.
Waits(c) == group[c] # Empty /\ c \notin managed \cup parsed

\* Add or AttachDialog: InitControls gives the manager to the first item, in call k of those
\* below each other, and its OnInit callback begins.
BeginAdd(c, k) ==
  /\ life[c] = "loose" /\ c \notin parsing
  /\ \A d \in Option : Adding(d) => level[d] < k
  /\ k = 1 \/ \E d \in Option : Adding(d) /\ level[d] = k - 1
  /\ life' = [life EXCEPT ![c] = "init"]
  /\ level' = [level EXCEPT ![c] = k]
  /\ managed' = managed \cup {c}
  /\ waiting' = IF Waits(c) THEN waiting \cup {c} ELSE waiting
  /\ UNCHANGED <<parsing, parsed, names, group, members, selected, elected>>

\* The callback of c ends, c enters its group, and the walk over the items of the subtree
\* comes to d.
NextItem(c, d) ==
  /\ Innermost(c)
  /\ life[d] = "loose" /\ d \notin parsing
  /\ life' = [life EXCEPT ![c] = "entered", ![d] = "init"]
  /\ level' = [level EXCEPT ![d] = level[c]]
  /\ managed' = managed \cup {d}
  /\ members' = AddOptionGroup(members, group[c], c)
  /\ waiting' = (waiting \ {c}) \cup (IF Waits(d) THEN {d} ELSE {})
  /\ UNCHANGED <<parsing, parsed, names, group, selected, elected>>

\* c was the last item: it enters its group, and InitControls enters the names.  With
\* inBuilder, CDialogBuilder::Create was given a parent in a tree: it adds the control first
\* and applies the attributes then.
EndAdd(c, inBuilder) ==
  /\ Innermost(c)
  /\ life' = [d \in Option |-> IF d \in AddedWith(c) THEN "attached" ELSE life[d]]
  /\ level' = [d \in Option |-> IF d \in AddedWith(c) THEN 0 ELSE level[d]]
  /\ members' = AddOptionGroup(members, group[c], c)
  /\ waiting' = waiting \ {c}
  /\ table' \in NamesEntered(AddedWith(c))
  /\ parsing' = IF inBuilder THEN parsing \cup AddedWith(c) ELSE parsing
  /\ parsed' = IF inBuilder THEN parsed \cup AddedWith(c) ELSE parsed
  /\ UNCHANGED <<managed, name, group, selected, elected>>

\* Remove from a container that destroys with delay: AddDelayedCleanup sets the manager.
Remove(c) ==
  /\ life[c] = "attached" /\ c \notin parsing
  /\ life' = [life EXCEPT ![c] = "removed"]
  /\ managed' = managed \cup {c}
  /\ UNCHANGED <<level, parsing, parsed, names, options>>

\* Remove from a container with SetAutoDestroy(false)
Release(c) ==
  /\ life[c] = "attached" /\ c \notin parsing
  /\ life' = [life EXCEPT ![c] = "loose"]
  /\ UNCHANGED <<makers, names, options>>

\* ~COptionUI and the end of its m_sGroupName: by the delayed cleanup, by the container or its destructor, or by the owner of
\* a control that is in no tree.  An option is not deleted or removed while it is added: the
\* call that adds it, or the walk over its container, would go on with it.
BeginDelete(c) ==
  /\ Exists(c) /\ ~Adding(c) /\ c \notin parsing
  /\ MayTouch(c)
  /\ life' = [life EXCEPT ![c] = "dying"]
  /\ members' = IF c \in managed THEN RemoveOptionGroup(members, group[c], c) ELSE members
  /\ selected' = selected \ {c} /\ elected' = elected \ {c}
  /\ group' = [group EXCEPT ![c] = Empty]
  /\ UNCHANGED <<makers, names, waiting>>

\* ~CControlUI after OnDestroy, and the end of its m_sName
EndDelete(c) ==
  /\ life[c] = "dying"
  /\ life' = [life EXCEPT ![c] = "none"]
  /\ table' = ReapName(c)
  /\ name' = [name EXCEPT ![c] = Empty]
  /\ managed' = managed \ {c} /\ parsed' = parsed \ {c}
  /\ UNCHANGED <<level, parsing, options>>

(***************************************************************************)
(* Calls on an existing control, by the application or as attributes.      *)
(***************************************************************************)
Rename(c, n) ==
  /\ Exists(c)
  /\ MayRename(c)
  /\ name' = [name EXCEPT ![c] = n]
  /\ UNCHANGED <<life, makers, table, options>>

\* SetGroup with a name; Selected(m_bSelected) at its end finds nothing to change.
SetGroup(c, g) ==
  /\ Exists(c) /\ group[c] # g
  /\ MayTouch(c)
  /\ group' = [group EXCEPT ![c] = g]
  /\ members' = IF c \in managed
                THEN AddOptionGroup(RemoveOptionGroup(members, group[c], c), g, c)
                ELSE members
  /\ waiting' = waiting \ {c}
  /\ elected' = elected \ {c}
  /\ UNCHANGED <<life, makers, names, selected>>

\* SetGroup(NULL): the name is emptied first, and RemoveOptionGroup is called with it.
LeaveGroup(c) ==
  /\ Exists(c) /\ group[c] # Empty
  /\ MayTouch(c) /\ MayLeave(c)
  /\ group' = [group EXCEPT ![c] = Empty]
  /\ members' = IF c \in managed THEN RemoveOptionGroup(members, group'[c], c) ELSE members
  /\ waiting' = waiting \ {c}
  /\ elected' = elected \ {c}
  /\ UNCHANGED <<life, makers, names, selected>>

\* Mutant of Unselected: the loop stops before the last entry.
UnselectedButOne(c) == IF \E d \in members[group[c]] : d # c
                       THEN {CHOOSE d \in members[group[c]] : d # c} ELSE {}
\* The others that Selected(true) unselects.
Unselected(c) == members[group[c]] \ {c}

\* Selected(true).  With a manager and a group it walks the entry of the group: without an
\* entry, or with an option in it that is gone, what happens is undefined and the model stops.
Select(c) ==
  /\ Exists(c) /\ c \notin selected
  /\ MaySelect(c)
  /\ IF c \in managed /\ group[c] # Empty
     THEN /\ members[group[c]] # {} /\ \A d \in members[group[c]] : Exists(d)
          /\ selected' = (selected \cup {c}) \ Unselected(c)
          /\ elected' = (elected \cup {c}) \ Unselected(c)
     ELSE selected' = selected \cup {c} /\ elected' = elected \ {c}
  /\ UNCHANGED <<life, makers, names, group, members, waiting>>

\* Selected(false)
Unselect(c) ==
  /\ Exists(c) /\ c \in selected
  /\ selected' = selected \ {c} /\ elected' = elected \ {c}
  /\ UNCHANGED <<life, makers, names, group, members, waiting>>

Next ==
  \E c \in Option :
    \/ New(c)
    \/ ParseBegin(c)
    \/ ParseEnd(c)
    \/ \E k \in 1 .. MaxNested : BeginAdd(c, k)
    \/ \E d \in Option : NextItem(c, d)
    \/ \E b \in BOOLEAN : EndAdd(c, b)
    \/ Remove(c)
    \/ Release(c)
    \/ BeginDelete(c)
    \/ EndDelete(c)
    \/ \E n \in Name \cup {Empty} : Rename(c, n)
    \/ \E g \in Group \cup {Empty} : SetGroup(c, g)
    \/ LeaveGroup(c)
    \/ Select(c)
    \/ Unselect(c)

Spec == Init /\ [][Next]_vars

(***************************************************************************)
(* Properties.                                                             *)
(***************************************************************************)
\* FindControl(name) never returns a control that is gone (UIManager.cpp:1937-1940).
NamesExist == \A n \in Name : table[n] # None => life[table[n]] # "none"

\* A name is lost only with its control, or to a control that is added with it: the end of
\* a control whose name went to another one leaves the name there (UIManager.cpp:1939).
NamesAreKept ==
  [][\A n \in Name :
       table[n] # None /\ table'[n] # table[n]
         => \/ life'[table[n]] = "none"
            \/ table'[n] # None /\ Adding(table'[n]) /\ life'[table'[n]] = "attached"]_vars

\* Selected(true) calls no option that is gone or in its destructor (UIOption.cpp:13, 80-82).
GroupMembersExist == \A g \in Group : \A c \in members[g] : Exists(c)

\* With a manager and a group, an option finds an entry for the group, and itself in it, in
\* every Selected(true) that the rules allow (UIOption.cpp:78-79, which does not test for NULL).
\* The one that they forbid is over when SetManager is (UIControl.cpp:98-100, UIOption.cpp:29-31).
SelectedFindsItsGroup ==
  /\ \A c \in managed : Exists(c) /\ group[c] # Empty /\ MaySelect(c) => c \in members[group[c]]
  /\ \A c \in waiting : life[c] = "init"

\* Of the options that were selected through their group, one at most is still selected
\* (UIOption.cpp:77-84); one that was selected before it joined is not counted.
OneElected ==
  \A c, d \in elected : group[c] = group[d] => c = d

\* The group that an option is in, as the other options of the group see it: it exists, has a
\* manager or was made by CDialogBuilder, and is not waiting for the end of its SetManager.
GroupOf ==
  [c \in Option |->
     IF Exists(c) /\ (c \in managed \/ c \in parsed) /\ c \notin waiting
     THEN group[c] ELSE Empty]

\* What the options of a group see of each other, with m_mOptionGroup, m_pManager and the
\* life of the options hidden: they behave as OptionGroups (UIOption.cpp:40-84).
Groups == INSTANCE OptionGroups WITH in <- GroupOf, chosen <- elected, None <- Empty

ImplementsOptionGroups == Groups!Spec
=============================================================================
