----------------------------- MODULE StructTable -----------------------------
(***************************************************************************)
(* The struct descriptors of the OpenCL parser (kernelParser.y, lines 829  *)
(* to 1035).  A descriptor is a list of members, sorted by name; every     *)
(* declaration of a struct gets a list of its own, which is then merged    *)
(* into the list of the declarations in front of it, member by member.     *)
(* The merge follows the next pointers of the very members it moves.       *)
(*                                                                         *)
(* A finished descriptor is put into the table of structs.  A variable of  *)
(* the type copies the list to its symbol table entry, and an access x.m   *)
(* looks m up twice: its type in the descriptor, by a search that stops at *)
(* the first greater name, and its entry in the copy, by a search that     *)
(* doesn't stop.                                                           *)
(***************************************************************************)
EXTENDS Integers, Sequences, FiniteSets

CONSTANTS
  Names,      \* names of members, numbered in the order of strcmp
  Structs,    \* names of structs
  IDLists,    \* the lists of names a declaration may have
  MaxMembers, \* bound: calls of CreateStructMember
  MaxVars     \* bound: variables declared

ASSUME StructAssumption ==
  /\ Names \subseteq Int
  /\ IDLists \subseteq Seq(Names)
  /\ MaxMembers \in Nat /\ MaxVars \in Nat

NULL == 0
Cell == 1 .. MaxMembers
NoDesc == [head |-> NULL, tail |-> NULL] \* a StructDescriptor* that is NULL

VARIABLES
  stage,       \* "outside" of structs, between the "fields", at the "ids", or "merge"
  name, next,  \* the members: cells 1 to Len(name)
  left, right, \* $1, or what struct_declaration_list is so far, and $2
  todo,        \* the rest of IDs
  walk,        \* iter_member
  table,       \* the finished descriptors, and the names declared in each
  entries,     \* the variables: the descriptor, and subEntry_head as a sequence
  declared,    \* ghost: the names declared since the struct was opened
  several      \* ghost: a declaration after the first had several names

vars == <<stage, name, next, left, right, todo, walk, table, entries, declared, several>>

Init ==
  /\ stage = "outside"
  /\ name = <<>>
  /\ next = [c \in Cell |-> NULL]
  /\ left = NoDesc /\ right = NoDesc
  /\ todo = <<>>
  /\ walk = NULL
  /\ table = <<>>
  /\ entries = {}
  /\ declared = {} /\ several = FALSE

-----------------------------------------------------------------------------
\* What a walk along the pointers nx has read after n steps; it starts at h
\* and goes on from the members in go.
Reads(h, nx, go) ==
  LET reads[n \in 0 .. MaxMembers] ==
        ({h} \cup IF n = 0 THEN {} ELSE {nx[c] : c \in reads[n - 1] \cap go}) \ {NULL}
  IN reads

Visits(h, nx, go) == Reads(h, nx, go)[MaxMembers]

\* The members of the list that starts at h.
Members(h) == Visits(h, next, Cell)

\* The members the search for the place of m leaves behind.
Passed(d, nm, nx, m) ==
  LET smaller == {c \in DOMAIN nm : nm[c] < nm[m]}
  IN Visits(d.head, nx, smaller) \cap smaller

\* prev, and iter, when the search stops.
Prev(d, nm, nx, m) ==
  LET passed == Passed(d, nm, nx, m)
  IN IF passed = {} THEN NULL
     ELSE CHOOSE c \in passed : nx[c] = NULL \/ nm[nx[c]] >= nm[m]

Iter(d, nm, nx, m) ==
  IF Passed(d, nm, nx, m) = {} THEN d.head ELSE nx[Prev(d, nm, nx, m)]

\* Mutant of Insert: the new member goes behind the first greater one.
MutInsertBehind(d, nx, prev, iter, m) ==
  [desc |-> d, next |-> [nx EXCEPT ![m] = nx[iter], ![iter] = m]]

\* Mutant of Insert: the head is not updated.
MutInsertKeepHead(d, nx, prev, iter, m) ==
  [desc |-> d,
   next |-> [c \in DOMAIN nx |-> IF c = m THEN iter ELSE IF c = prev THEN m ELSE nx[c]]]

\* Mutant of Insert: the head is updated whether iter is the head or not.
MutInsertNewHead(d, nx, prev, iter, m) ==
  [desc |-> [d EXCEPT !.head = m],
   next |-> [c \in DOMAIN nx |-> IF c = m THEN iter ELSE IF c = prev THEN m ELSE nx[c]]]

\* Between prev, if there is one, and iter.
Insert(d, nx, prev, iter, m) ==
  [desc |-> [d EXCEPT !.head = IF iter = @ THEN m ELSE @],
   next |-> [c \in DOMAIN nx |-> IF c = m THEN iter ELSE IF c = prev THEN m ELSE nx[c]]]

\* A greater name is found first: in front of it.  An equal one: "Redefine
\* symbol".  None: to the end, with what hangs on the new member.
AddToStructDescriptor(d, nm, nx, m) ==
  LET prev == Prev(d, nm, nx, m)
      iter == Iter(d, nm, nx, m)
  IN IF d = NoDesc THEN [desc |-> [head |-> m, tail |-> m], next |-> nx]
     ELSE IF iter = NULL
     THEN [desc |-> [d EXCEPT !.tail = m], next |-> [nx EXCEPT ![prev] = m]]
     ELSE IF nm[iter] = nm[m] THEN [desc |-> d, next |-> nx]
     ELSE Insert(d, nx, prev, iter, m)

\* "struct s {"
Open ==
  /\ stage = "outside"
  /\ Len(name) < MaxMembers
  /\ stage' = "fields"
  /\ left' = NoDesc
  /\ declared' = {} /\ several' = FALSE
  /\ UNCHANGED <<name, next, right, todo, walk, table, entries>>

\* struct_declaration: CreateStructDescriptor is called.
Field(ids) ==
  /\ stage = "fields"
  /\ Len(name) + Len(ids) <= MaxMembers
  /\ stage' = "ids"
  /\ right' = NoDesc
  /\ todo' = ids
  /\ declared' = declared \cup {ids[k] : k \in DOMAIN ids}
  /\ several' = (several \/ (left # NoDesc /\ Len(ids) > 1))
  /\ UNCHANGED <<name, next, left, walk, table, entries>>

CreateStructMember(m) == [next EXCEPT ![m] = NULL]

\* An iteration of its loop: CreateStructMember and AddToStructDescriptor.
NextID ==
  /\ stage = "ids" /\ todo # <<>>
  /\ name' = Append(name, Head(todo))
  /\ LET added == AddToStructDescriptor(right, name', CreateStructMember(Len(name')), Len(name'))
     IN right' = added.desc /\ next' = added.next
  /\ todo' = Tail(todo)
  /\ UNCHANGED <<stage, left, walk, table, entries, declared, several>>

\* CreateStructDescriptor returns.  The first declaration is the list; for a
\* further one MergeStructDescriptor is called.
StartMerge ==
  /\ stage = "ids" /\ todo = <<>>
  /\ \/ left = NoDesc /\ left' = right /\ stage' = "fields" /\ UNCHANGED walk
     \/ left # NoDesc /\ walk' = right.head /\ stage' = "merge" /\ UNCHANGED left
  /\ UNCHANGED <<name, next, right, todo, table, entries, declared, several>>

\* Mutant of MergeNext: a member that is there already stops the walk for ever.
MutMergeStuck ==
  /\ stage = "merge" /\ walk # NULL
  /\ LET added == AddToStructDescriptor(left, name, next, walk)
     IN /\ left' = added.desc /\ next' = added.next
        /\ walk' = IF added.next = next THEN walk ELSE added.next[walk]
  /\ UNCHANGED <<stage, name, right, todo, table, entries, declared, several>>

\* left = AddToStructDescriptor(left, iter_member);
\* iter_member = iter_member->next;  the next the call has just written.
MergeNext ==
  /\ stage = "merge" /\ walk # NULL
  /\ LET added == AddToStructDescriptor(left, name, next, walk)
     IN left' = added.desc /\ next' = added.next
  /\ walk' = next'[walk]
  /\ UNCHANGED <<stage, name, right, todo, table, entries, declared, several>>

EndMerge ==
  /\ stage = "merge" /\ walk = NULL
  /\ stage' = "fields"
  /\ UNCHANGED <<name, next, left, right, todo, walk, table, entries, declared, several>>

\* "}": AddToStructDescriptorTable.
Close(s) ==
  /\ stage = "fields" /\ left # NoDesc
  /\ table' = Append(table, [name |-> s, head |-> left.head, declared |-> declared])
  /\ stage' = "outside"
  /\ UNCHANGED <<name, next, left, right, todo, walk, entries, declared, several>>

\* FindInStructTable returns the first of the name.
Find(s) ==
  CHOOSE d \in DOMAIN table : table[d].name = s /\ \A e \in 1 .. d - 1 : table[e].name # s

\* A copy of the list that starts at h.
CopyOf(h) ==
  [head |-> h, next |-> [c \in Cell |-> IF c \in Members(h) THEN next[c] ELSE NULL]]

\* A variable declared "struct s x": CreateSymbolTableEntry copies the members.
\* Without a match FindInStructTable returns an indeterminate pointer.
Declare(s) ==
  /\ stage = "outside"
  /\ Cardinality(entries) < MaxVars
  /\ \E d \in DOMAIN table : table[d].name = s
  /\ entries' = entries \cup {[desc |-> Find(s), sub |-> CopyOf(table[Find(s)].head)]}
  /\ UNCHANGED <<stage, name, next, left, right, todo, walk, table, declared, several>>

Step == NextID \/ StartMerge \/ MergeNext \/ EndMerge

Next ==
  \/ Open
  \/ \E ids \in IDLists : Field(ids)
  \/ Step
  \/ \E s \in Structs : Close(s) \/ Declare(s)

\* The parser is one thread: a function that was called goes on.
Spec == Init /\ [][Next]_vars /\ WF_vars(Step)

-----------------------------------------------------------------------------
TypeOK ==
  /\ stage \in {"outside", "fields", "ids", "merge"}
  /\ name \in Seq(Names) /\ Len(name) <= MaxMembers
  /\ next \in [Cell -> Cell \cup {NULL}]
  /\ left \in [head : Cell \cup {NULL}, tail : Cell \cup {NULL}]
  /\ right \in [head : Cell \cup {NULL}, tail : Cell \cup {NULL}]
  /\ todo \in Seq(Names)
  /\ walk \in Cell \cup {NULL}
  /\ table \in Seq([name : Structs, head : Cell, declared : SUBSET Names])
  /\ entries \subseteq [desc : DOMAIN table,
                        sub : [head : Cell, next : [Cell -> Cell \cup {NULL}]]]
  /\ declared \subseteq Names /\ several \in BOOLEAN

\* A list is sorted and has an end, although the merge links it to members
\* of the list it is reading: the searches rely on both.
Sorted(h) ==
  LET members == Members(h)
  IN /\ \A c \in members : next[c] = NULL \/ name[c] < name[next[c]]
     /\ h # NULL => \E c \in members : next[c] = NULL

ListsSorted ==
  /\ Sorted(left.head)
  /\ \A d \in DOMAIN table : Sorted(table[d].head)

\* Whatever is merged into a list, what is in it stays: in case of a
\* redefinition the first declaration counts.
FirstCounts ==
  [][left # NoDesc /\ left' # NoDesc => Members(left.head) \subseteq Members(left.head)']_vars

\* The one of the members read that has the name n, or NULL.
Named(read, n) ==
  IF \E c \in read : name[c] = n THEN CHOOSE c \in read : name[c] = n ELSE NULL

\* GetTypeInStructDescriptor: the member it returns, or NULL and an error.
TypeLookup(h, n) == Named(Visits(h, next, {c \in DOMAIN name : name[c] < n}), n)

\* GetStructMemberInSymbolEntry: the entry of a member, or no return value.
EntryLookup(sub, n) ==
  Named(Visits(sub.head, sub.next, {c \in DOMAIN name : name[c] # n}), n)

\* For an access x.m the search that stops at the first greater name and the
\* one that doesn't come to the same member, and so does the error: whenever
\* the entry is indeterminate the user has been told.
LookupsAgree ==
  \A e \in entries : \A n \in Names :
    TypeLookup(table[e.desc].head, n) = EntryLookup(e.sub, n)

\* Structs whose declarations after the first have one name each get all
\* their members.
NoneLostOneByOne ==
  stage = "fields" /\ ~several => {name[c] : c \in Members(left.head)} = declared

\* The walk of MergeStructDescriptor, which changes over from one list to the
\* other, comes to an end.
MergeReturns == (stage = "merge") ~> (stage = "fields")

\* "Identifier %s does not defined in struct %s" (line 1009) is said of names
\* that are not.
ErrorsAreRight ==
  \A d \in DOMAIN table : \A n \in table[d].declared : TypeLookup(table[d].head, n) # NULL
=============================================================================
