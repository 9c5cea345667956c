------------------------------- MODULE Scopes -------------------------------
(***************************************************************************)
(* What a symbol table promises, with no lists and no pointers: a stack of *)
(* scopes, each binding every name at most once.  A declaration binds a    *)
(* name in the innermost scope unless it is bound there already, and a     *)
(* look-up answers with the innermost binding of the name.                 *)
(*                                                                         *)
(* Module SymbolTable implements this specification.                       *)
(***************************************************************************)
EXTENDS Integers, Sequences

CONSTANTS
  Name,   \* names that can be declared
  Info,   \* what is recorded about a name: records with fields sort and type
  None,   \* the type of a name that is not found
  Unbound \* the entry of a name that is not found

VARIABLES
  scopes, \* the stack; scopes[Len(scopes)] is the innermost
  answer  \* of a look-up that just returned: the question asked and the value

scopeVars == <<scopes, answer>>

Top == scopes[Len(scopes)]

\* A scope is a function from the names it binds to Info.
NoNames == [n \in {} |-> Unbound]

NoAnswer == [asked |-> <<>>, value |-> Unbound]

SInit ==
  /\ scopes = <<NoNames>>
  /\ answer = NoAnswer

Enter ==
  /\ scopes' = Append(scopes, NoNames)
  /\ answer' = NoAnswer

Leave ==
  /\ scopes # <<>>
  /\ scopes' = SubSeq(scopes, 1, Len(scopes) - 1)
  /\ answer' = NoAnswer

Declare(n, b) ==
  /\ scopes # <<>>
  /\ n \notin DOMAIN Top
  /\ scopes' = [scopes EXCEPT ![Len(scopes)] =
                  [m \in DOMAIN Top \cup {n} |-> IF m = n THEN b ELSE Top[m]]]
  /\ answer' = NoAnswer

\* The innermost binding of n, or Unbound.
Binding(n) == {l \in 1 .. Len(scopes) : n \in DOMAIN scopes[l]}
Innermost(n, l) == l \in Binding(n) /\ \A k \in Binding(n) : k <= l

Resolve(n) ==
  IF Binding(n) = {} THEN Unbound
  ELSE scopes[CHOOSE l \in Binding(n) : Innermost(n, l)][n]

Answer(question, value) ==
  /\ answer' = [asked |-> question, value |-> value]
  /\ UNCHANGED scopes

AskEntry(n) == Answer(<<"GetEntry", n>>, Resolve(n))

\* A name bound as another sort hides the outer bindings all the same.
AskType(n, s) ==
  Answer(<<"FindSymbol", n, s>>,
         IF Binding(n) # {} /\ Resolve(n).sort = s THEN Resolve(n).type ELSE None)

\* The answer has been used.
Forget ==
  /\ answer' = NoAnswer
  /\ UNCHANGED scopes

SNext ==
  \/ Enter
  \/ Leave
  \/ Forget
  \/ \E n \in Name, b \in Info : Declare(n, b)
  \/ \E n \in Name : AskEntry(n)
  \/ \E n \in Name, s \in {"identifier", "typename"} : AskType(n, s)

SSpec == SInit /\ [][SNext]_scopeVars
=============================================================================
